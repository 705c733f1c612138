------------------------- MODULE GameManagement_proofs -------------------------
(***************************************************************************)
(* Proofs about GameManagement, for any profiles, persons, games, actors,  *)
(* messages, failures and starts that its assumptions allow.               *)
(*                                                                         *)
(* A message is tried until it is answered, and each try decides anew what *)
(* is left to do.  The invariant therefore says three things of an actor.  *)
(* What his message has put on record is what its dialogue asked for       *)
(* (`Records`).  The steps that its turn still has are one of the plans    *)
(* that the dialogues make, cut off at some step, with what was true when  *)
(* that step was reached (`TurnOK`).  And the plans without a notice are   *)
(* those of messages that have nothing left to tell: their requests were   *)
(* heard, or somebody else has changed the same person's rights since      *)
(* (`Settled`).  When the answer is given, this becomes `AllTold`.         *)
(*                                                                         *)
(* Actors disturb each other only through what is on record, so that a     *)
(* step of one is judged in two parts: `Beside...` is what it leaves of    *)
(* the others, `Own...` what it does to its own actor.  A lemma `...Keeps` *)
(* says of an operation that it preserves the invariant; `...Decided`, of  *)
(* a dialogue, that it plans one of the turns above.                       *)
(***************************************************************************)
EXTENDS GameManagement, FiniteSetTheorems, SequenceTheorems, TLAPS

(***************************************************************************)
(* The records                                                             *)
(***************************************************************************)
ButtonFields == {"value", "game", "who", "token", "about"}

IsButton(b) == DOMAIN b = ButtonFields /\ b.about = [game |-> b.about.game, who |-> b.about.who]

RowFields == {"state", "game", "who", "role", "token", "choices", "count", "marks", "buttons"}

IsRow(row) ==
    /\ DOMAIN row = RowFields
    /\ row.game \in Optional /\ row.role \in Role \ {"admin"}
    /\ \A b \in row.buttons : IsButton(b) /\ SoundButton(b)
    /\ SoundRow(row)

TurnFields == {"busy", "row", "told", "todo", "note", "manages"}

IsTurn(t) == DOMAIN t = TurnFields /\ t.busy \in BOOLEAN /\ IsRow(t.row)

MessageFields == {"id", "pressed", "good", "button"}

IsMessage(m) ==
    /\ DOMAIN m = MessageFields
    /\ m.id \in 1 .. MaxMessages
    /\ IsButton(m.button) /\ SoundButton(m.button)
    /\ m.pressed \in BOOLEAN /\ m.good \in BOOLEAN
    /\ ~m.good => m.button.who = NoOne
    /\ ~m.pressed => m.button.value = "text" /\ m.button.who \in Profiles \cup {NoOne}

GameFields == {"exists", "archived", "status", "closing", "question", "edits", "links"}

GamesOK ==
    /\ DOMAIN games = Games
    /\ \A g \in Games : DOMAIN games[g] = GameFields /\ games[g].exists \in BOOLEAN /\ games[g].archived \in BOOLEAN

Shapes ==
    /\ GamesOK
    /\ leaders \in [Games -> SUBSET Profiles]
    /\ roles \in [Profiles -> Role \ {"admin"}]
    /\ granted \in [Profiles -> Request \cup {NoRequest}]
    /\ changed \in [Games -> [Profiles -> Request \cup {NoRequest}]]
    /\ DOMAIN told = Profiles
    /\ DOMAIN rows = Masters /\ DOMAIN pending = Masters /\ DOMAIN turn = Masters
    /\ DOMAIN keyboard = Masters
    /\ sent \in Nat /\ sent <= MaxMessages

(***************************************************************************)
(* What the messages of an actor may change                                *)
(***************************************************************************)
\* The message answers the question of a dialogue.
Answering(a) == Pressed(a).value \notin Clearing \cup Roots \cup RoleCallbacks

GrantAsked(a) == rows[a].state = "GAMEMASTER_PROFILE" /\ Answering(a)

RevokeAsked(a) == rows[a].state = "MODERATOR_REMOVE_CONFIRM" /\ Pressed(a).value = "mod:remove-confirm"

PromoteAsked(a) == rows[a].state = "EVENT_LEADER_PROMOTE_CONFIRM" /\ Pressed(a).value = "master:promote:yes"

AdditionAsked(a, g, p) ==
    \/ Pressed(a).value = "master:self-add" /\ g = Pressed(a).game /\ p = a
    \/ /\ rows[a].state = "EVENT_LEADER_ADD_PICK" /\ Pressed(a).value = "master:add-pick"
       /\ g = rows[a].game /\ p = Pressed(a).who
    \/ /\ rows[a].state = "EVENT_LEADER_PROFILE" /\ Answering(a)
       /\ g = rows[a].game /\ p = Pressed(a).who
    \/ PromoteAsked(a) /\ g = rows[a].game /\ p = rows[a].who

RemovalAsked(a) == rows[a].state = "EVENT_LEADER_REMOVE_CONFIRM" /\ Pressed(a).value = "master:remove-confirm"

AddsSomebody(a) ==
    \/ Pressed(a).value = "master:self-add"
    \/ rows[a].state = "EVENT_LEADER_ADD_PICK" /\ Pressed(a).value = "master:add-pick"
    \/ rows[a].state = "EVENT_LEADER_PROFILE" /\ Answering(a)
    \/ PromoteAsked(a)

AtWork(a) == GrantAsked(a) \/ RevokeAsked(a) \/ RemovalAsked(a) \/ AddsSomebody(a)

(***************************************************************************)
(* What is on record                                                       *)
(***************************************************************************)
By(m, r) == r # NoRequest /\ r.message = m

NotBy(m, r) == r # NoRequest /\ r.message # m

\* Somebody else has changed the rights of p.
Disputed(m, p) ==
    \E q \in Linked(p) : NotBy(m, granted[q]) \/ \E g \in Games : NotBy(m, changed[g][q])

Grants(a, p) == Requested(a, "grant", NoGame, p)

\* p may use the dialogues, or somebody else has taken that away.
KeepsAccess(a, p) ==
    HasAdminAccess(p) \/ \E q \in Linked(p) : NotBy(Received(a).id, granted[q])

\* The requests of the message under way are those of its dialogue, and the
\* roles on record are the roles they gave.
RoleRecord(a, q) ==
    \/ /\ GrantAsked(a) /\ Pressed(a).who \in Profiles
       /\ q \in Linked(Pressed(a).who) /\ ~IsAdmin(Pressed(a).who)
       /\ granted[q] = Grants(a, Pressed(a).who)
       /\ roles[q] = rows[a].role
       /\ granted[Pressed(a).who] # NoRequest
    \/ /\ PromoteAsked(a) /\ q = rows[a].who
       /\ granted[q] = Grants(a, q) /\ roles[q] = "moderator"
    \/ /\ RevokeAsked(a) /\ q \in Linked(rows[a].who)
       /\ granted[q] = Requested(a, "revoke", NoGame, rows[a].who)

LeaderRecord(a, g, q) ==
    \/ /\ AdditionAsked(a, g, q)
       /\ changed[g][q] = Requested(a, "leader-grant", g, q)
       /\ changed[g][q] \in rows[a].marks
       /\ KeepsAccess(a, q)
       /\ PromoteAsked(a) => Grants(a, q) \in rows[a].marks
    \/ /\ RemovalAsked(a) /\ g = rows[a].game /\ q = rows[a].who
       /\ changed[g][q] = Requested(a, "leader-revoke", g, q)
       /\ changed[g][q] \in rows[a].marks

Records(a) ==
    pending[a] # {} =>
        /\ \A q \in Profiles : By(Received(a).id, granted[q]) => RoleRecord(a, q)
        /\ \A g \in Games, q \in Profiles : By(Received(a).id, changed[g][q]) => LeaderRecord(a, g, q)
        /\ PromoteAsked(a) /\ Grants(a, rows[a].who) \in rows[a].marks
             /\ granted[rows[a].who] = Grants(a, rows[a].who)
           => Grants(a, rows[a].who) \in heard
        /\ \A r \in heard : r.message = Received(a).id /\ r.kind = "revoke" =>
             RevokeAsked(a) /\ r.who = rows[a].who

\* Whatever the message has changed has been told, or is disputed.
Settled(a) ==
    /\ \A q \in Profiles : By(Received(a).id, granted[q]) =>
            granted[q] \in heard \/ Disputed(Received(a).id, q)
    /\ \A g \in Games, q \in Profiles : By(Received(a).id, changed[g][q]) =>
            changed[g][q] \in heard \/ Disputed(Received(a).id, q)

(***************************************************************************)
(* Turns                                                                   *)
(***************************************************************************)
\* Rows that differ in their keyboards only, which a notice clears.
Alike(r, s) == [r EXCEPT !.buttons = {}] = [s EXCEPT !.buttons = {}]

Ending == <<Do("clear", NoGame, NoOne, "")>>

Telling(kind, g, p) ==
    <<Do("tell", g, p, kind), Do("claim", g, p, kind), Do("clear", NoGame, NoOne, "")>>

Claiming(kind, g, p) == <<Do("claim", g, p, kind), Do("clear", NoGame, NoOne, "")>>

\* The notice of a request, and the end of the dialogue.
Announcing(a, t, kind, g, p) ==
    \/ t.todo = Telling(kind, g, p)
    \/ t.todo = Claiming(kind, g, p) /\ Requested(a, kind, g, p) \in heard
    \/ t.todo = Ending /\ Settled(a)

OrderTurn(a, t) ==
    /\ ~AtWork(a) /\ t.note = "" /\ t.todo # <<>>
    /\ LET e == t.todo[1]
       IN /\ t.todo = <<Do("publish", e.game, e.who, e.arg)>> /\ e.game \in Games
          /\ e.arg \in {"remove", "promote"} => Pressed(a).about = [game |-> e.game, who |-> e.who]

WriteTurn(a, t) ==
    /\ ~AtWork(a) /\ t.note = "" /\ t.todo # <<>>
    /\ LET e == t.todo[1]
       IN /\ t.todo = <<Do("write", e.game, NoOne, e.arg)>> \/ t.todo = <<Do("read-back", e.game, NoOne, e.arg)>>
          /\ e.game \in t.manages \cap Games

RoleWrites(p, role) == {Do("set-role", NoGame, q, role) : q \in Linked(p)}

RoleClears(p) == {Do("clear-role", NoGame, q, "") : q \in Linked(p)}

GrantTurn(a, t) ==
    LET p == Pressed(a).who
        role == rows[a].role
    IN /\ GrantAsked(a) /\ t.note = "" /\ p \in Profiles /\ ~IsAdmin(p)
       /\ \/ /\ t.row.who = p
             /\ \E w \in Seq(RoleWrites(p, role)) :
                 /\ t.todo = w \o (<<Do("check-role", NoGame, p, role)>> \o Telling("grant", NoGame, p))
                 /\ w = <<>> \/ Head(w).who = p \/ granted[p] # NoRequest
          \/ Announcing(a, t, "grant", NoGame, p)

RevokeTurn(a, t) ==
    LET p == rows[a].who
    IN /\ RevokeAsked(a) /\ t.note = "revoked"
       /\ \/ /\ t.row.who = p
             /\ \E w \in Seq(RoleClears(p)) :
                 t.todo = w \o (<<Do("check-role", NoGame, p, "none")>> \o Telling("revoke", NoGame, p))
          \/ Announcing(a, t, "revoke", NoGame, p)

PromoteTurn(a, t) ==
    LET p == rows[a].who
        g == rows[a].game
        check == Do("check-promotion", NoGame, p, "")
        tell == Do("tell", NoGame, p, "grant")
        claim == Do("claim", NoGame, p, "grant")
        mark == Do("mark", NoGame, p, "grant")
        assign == Do("assign", g, p, "")
    IN /\ PromoteAsked(a) /\ t.note = "" /\ g \in t.manages \cap Games
       /\ Alike(t.row, rows[a])
       /\ \/ /\ t.todo = <<Do("set-role", NoGame, p, "moderator"), check, tell, claim, mark, assign>>
             /\ Grants(a, p) \notin rows[a].marks
          \/ t.todo = <<check, tell, claim, mark, assign>>
          \/ t.todo = <<tell, claim, mark, assign>>
          \/ t.todo = <<claim, mark, assign>> /\ Grants(a, p) \in heard
          \/ t.todo = <<mark, assign>> /\ (granted[p] = Grants(a, p) => Grants(a, p) \in heard)
          \/ t.todo = <<assign>> /\ Grants(a, p) \in rows[a].marks

AddsAs(a, t, g, p) ==
    LET request == Requested(a, "leader-grant", g, p)
        mark == Do("mark", g, p, "leader-grant")
        add == Do("add-leader", g, p, "")
        check == Do("check-leader", g, p, "")
    IN /\ AdditionAsked(a, g, p) /\ t.note = ""
       /\ PromoteAsked(a) => Grants(a, p) \in rows[a].marks
       /\ \/ /\ t.todo = <<mark, add, check>> \o Telling("leader-grant", g, p)
             /\ g \in t.manages /\ Alike(t.row, rows[a]) /\ KeepsAccess(a, p)
          \/ /\ t.todo = <<add, check>> \o Telling("leader-grant", g, p)
             /\ g \in t.manages /\ request \in rows[a].marks /\ KeepsAccess(a, p)
          \/ t.todo = <<check>> \o Telling("leader-grant", g, p)
          \/ Announcing(a, t, "leader-grant", g, p)

AddTurn(a, t) == \E g \in Games, p \in Profiles : AddsAs(a, t, g, p)

RemoveTurn(a, t) ==
    LET g == rows[a].game
        p == rows[a].who
        request == Requested(a, "leader-revoke", g, p)
        mark == Do("mark", g, p, "leader-revoke")
        remove == Do("remove-leader", g, p, "")
    IN /\ RemovalAsked(a) /\ t.note = "" /\ g \in Games /\ p \in Profiles
       /\ \/ /\ t.todo = <<mark, remove>> \o Telling("leader-revoke", g, p)
             /\ g \in t.manages /\ Alike(t.row, rows[a])
          \/ /\ t.todo = <<remove>> \o Telling("leader-revoke", g, p)
             /\ g \in t.manages /\ request \in rows[a].marks
          \/ Announcing(a, t, "leader-revoke", g, p)

EndedTurn(a, t) ==
    /\ t.todo = <<>>
    /\ \/ t.note = "refused"
       \/ t.note = "" /\ Settled(a)
       \/ t.note = "revoked" /\ RevokeAsked(a) /\ Settled(a)

\* A revocation leaves nobody out.
Revoked(a, t) ==
    t.note = "revoked" =>
        \A q \in Linked(rows[a].who) :
            \/ roles[q] = "none" \/ (granted[q] # NoRequest /\ granted[q].kind = "grant")
            \/ \E i \in DOMAIN t.todo : t.todo[i] = Do("clear-role", NoGame, q, "")

TurnOK(a, t) ==
    /\ t.told \in heard \cup {NoRequest}
    /\ Revoked(a, t)
    /\ \/ EndedTurn(a, t) \/ OrderTurn(a, t) \/ WriteTurn(a, t) \/ GrantTurn(a, t) \/ RevokeTurn(a, t)
       \/ PromoteTurn(a, t) \/ AddTurn(a, t) \/ RemoveTurn(a, t)

(***************************************************************************)
(* Rows, keyboards and messages of an actor                                *)
(***************************************************************************)
Buttons(a) == keyboard[a] \cup rows[a].buttons \cup turn[a].row.buttons

\* Tokens that lists of later messages will have.
Coming == sent + 1 .. MaxMessages

\* Whom a question is about to take the role from had one.
HadRole(row) ==
    row.state = "MODERATOR_REMOVE_CONFIRM" => roles[row.who] # "none" \/ granted[row.who] # NoRequest

MessageOK(a) ==
    pending[a] # {} =>
        LET m == Received(a)
        IN /\ pending[a] = {m} /\ IsMessage(m) /\ m.id <= sent
           /\ Confirming(m.button) => m.button \in keyboard[a]
           /\ Holding(rows[a]) => rows[a].token # m.id
           /\ \A b \in Buttons(a) : Confirming(b) => b.token # m.id

ListsOK(a) ==
    /\ \A b \in Buttons(a) : IsButton(b) /\ SoundButton(b) /\ (Confirming(b) => b.token \notin Coming)
    /\ \A row \in {rows[a], turn[a].row} :
        /\ SameList(row, Buttons(a))
        /\ Holding(row) => row.token \notin Coming
        /\ HadRole(row)
        /\ \A r \in row.marks : r.message \notin Coming

ActorInv(a) ==
    /\ IsRow(rows[a]) /\ IsTurn(turn[a])
    /\ MessageOK(a) /\ ListsOK(a) /\ Records(a)
    /\ IF turn[a].busy THEN pending[a] # {} /\ TurnOK(a, turn[a]) ELSE turn[a] = FreeTurn

(***************************************************************************)
(* All together                                                            *)
(***************************************************************************)
\* What is on record, and what was heard, is of messages that were sent.
Past ==
    /\ \A q \in Profiles : granted[q] # NoRequest => granted[q].message <= sent
    /\ \A g \in Games, q \in Profiles : changed[g][q] # NoRequest => changed[g][q].message <= sent
    /\ \A r \in heard : r.message \in Nat /\ r.message <= sent
    /\ \A p \in Profiles : told[p] \in heard \cup {NoRequest}

AnsweredToo(r, q) ==
    r # NoRequest /\ Answered(r.message) => Told(r) \/ Disputed(r.message, q)

AllTold ==
    /\ \A q \in Profiles : AnsweredToo(granted[q], q)
    /\ \A g \in Games, q \in Profiles : AnsweredToo(changed[g][q], q)

Queues ==
    /\ DOMAIN queue = Games
    /\ \A g \in Games : queue[g] \in Seq({c \in published : c.game = g})

DistinctMessages ==
    \A a, b \in Masters :
        a # b /\ pending[a] # {} /\ pending[b] # {} => Received(a).id # Received(b).id

IInv ==
    /\ Shapes /\ Past /\ AllTold /\ Queues /\ DistinctMessages
    /\ \A a \in Masters : ActorInv(a)
    /\ TokenConfirmsItsTarget
(***************************************************************************)
(* Persons and rights                                                      *)
(***************************************************************************)
\* Linked profiles are one person.
LEMMA OnePerson ==
    ASSUME NEW p \in Profiles
    PROVE  /\ p \in Linked(p) /\ Linked(p) \subseteq Profiles /\ IsFiniteSet(Linked(p))
           /\ \A q \in Linked(p) : Linked(q) = Linked(p)
<1>1. PICK person \in People : p \in person
  BY RoleManagementAssumption
<1>2. ASSUME NEW q \in person PROVE Linked(q) = person
  <2>1. {other \in People : q \in other} = {person}
    BY <1>2, RoleManagementAssumption
  <2> QED
    BY <2>1 DEF Linked
<1> QED
  BY <1>1, <1>2, RoleManagementAssumption

\* One of the roles of a person is the highest, and counts.
LEMMA HighestRole ==
    ASSUME NEW S, S # {}, S \subseteq Role \ {"admin"},
           NEW highest, highest = CHOOSE r \in S : \A s \in S : Level(s) <= Level(r)
    PROVE  /\ highest \in S
           /\ Level(highest) >= Level("moderator") <=> \E s \in S : s # "none"
<1>1. \A s \in S : s \in {"none", "moderator", "viewer", "pass"}
  BY DEF Role
<1>2. /\ Level("none") = 0 /\ Level("moderator") = 1 /\ Level("viewer") = 2 /\ Level("pass") = 3
  BY DEF Level
<1>3. \E r \in S : \A s \in S : Level(s) <= Level(r)
  <2>1. CASE "pass" \in S
    <3>1. \A s \in S : Level(s) <= Level("pass")
      BY <1>1, <1>2
    <3> QED
      BY <2>1, <3>1
  <2>2. CASE "pass" \notin S /\ "viewer" \in S
    <3>1. \A s \in S : Level(s) <= Level("viewer")
      BY <1>1, <1>2, <2>2
    <3> QED
      BY <2>2, <3>1
  <2>3. CASE "pass" \notin S /\ "viewer" \notin S /\ "moderator" \in S
    <3>1. \A s \in S : Level(s) <= Level("moderator")
      BY <1>1, <1>2, <2>3
    <3> QED
      BY <2>3, <3>1
  <2>4. CASE "pass" \notin S /\ "viewer" \notin S /\ "moderator" \notin S
    <3>1. S = {"none"}
      BY <1>1, <2>4
    <3> QED
      BY <1>2, <3>1
  <2> QED
    BY <2>1, <2>2, <2>3, <2>4
<1>4. highest \in S /\ \A s \in S : Level(s) <= Level(highest)
  BY <1>3
<1>5. CASE \E s \in S : s # "none"
  <2>1. PICK s \in S : s # "none"
    BY <1>5
  <2>2. Level(s) >= 1 /\ Level(s) <= Level(highest) /\ Level(highest) \in Int /\ Level(s) \in Int
    BY <1>1, <1>2, <1>4, <2>1
  <2> QED
    BY <1>2, <1>4, <1>5, <2>2
<1>6. CASE \A s \in S : s = "none"
  BY <1>2, <1>4, <1>6
<1> QED
  BY <1>5, <1>6

\* Administrators may use the dialogues, and whoever has a role on some profile.
LEMMA AccessMeans ==
    ASSUME NEW p \in Profiles, roles \in [Profiles -> Role \ {"admin"}]
    PROVE  HasAdminAccess(p) <=> IsAdmin(p) \/ \E q \in Linked(p) : roles[q] # "none"
<1> DEFINE S == {roles[q] : q \in Linked(p)}
<1>1. S # {} /\ S \subseteq Role \ {"admin"}
  BY OnePerson
<1>2. CASE IsAdmin(p)
  BY <1>2 DEF HasAdminAccess, RoleOf, Level
<1>3. CASE ~IsAdmin(p)
  <2>1. RoleOf(p) = CHOOSE r \in S : \A q \in Linked(p) : Level(roles[q]) <= Level(r)
    BY <1>3 DEF RoleOf
  <2>2. \A r : (\A q \in Linked(p) : Level(roles[q]) <= Level(r)) <=> (\A s \in S : Level(s) <= Level(r))
    OBVIOUS
  <2>3. RoleOf(p) = CHOOSE r \in S : \A s \in S : Level(s) <= Level(r)
    BY <2>1, <2>2
  <2>4. Level(RoleOf(p)) >= Level("moderator") <=> \E s \in S : s # "none"
    <3> HIDE DEF S
    <3> QED
      BY <1>1, <2>3, HighestRole
  <2> QED
    BY <1>3, <2>4 DEF HasAdminAccess
<1> QED
  BY <1>2, <1>3

LEMMA AccessMeansNext ==
    ASSUME NEW p \in Profiles, roles' \in [Profiles -> Role \ {"admin"}]
    PROVE  HasAdminAccess(p)' <=> IsAdmin(p) \/ \E q \in Linked(p) : roles'[q] # "none"
<1> DEFINE S == {roles'[q] : q \in Linked(p)}
<1>1. S # {} /\ S \subseteq Role \ {"admin"}
  BY OnePerson
<1>2. CASE IsAdmin(p)
  BY <1>2 DEF HasAdminAccess, RoleOf, Level, IsAdmin, Linked
<1>3. CASE ~IsAdmin(p)
  <2>1. RoleOf(p)' = CHOOSE r \in S : \A q \in Linked(p) : Level(roles'[q]) <= Level(r)
    BY <1>3 DEF RoleOf, IsAdmin, Linked, Level
  <2>2. \A r : (\A q \in Linked(p) : Level(roles'[q]) <= Level(r)) <=> (\A s \in S : Level(s) <= Level(r))
    OBVIOUS
  <2>3. RoleOf(p)' = CHOOSE r \in S : \A s \in S : Level(s) <= Level(r)
    BY <2>1, <2>2
  <2>4. Level(RoleOf(p)') >= Level("moderator") <=> \E s \in S : s # "none"
    <3> DEFINE highest == RoleOf(p)'
    <3> HIDE DEF S, highest
    <3>1. highest = CHOOSE r \in S : \A s \in S : Level(s) <= Level(r)
      BY <2>3 DEF highest
    <3> QED
      BY <1>1, <3>1, HighestRole DEF highest
  <2> QED
    BY <1>3, <2>4 DEF HasAdminAccess, Level
<1> QED
  BY <1>2, <1>3

(***************************************************************************)
(* Sequences                                                               *)
(***************************************************************************)
\* A finite set as a sequence.
LEMMA SetAsSequence ==
    ASSUME NEW S, IsFiniteSet(S)
    PROVE  /\ SetToSeq(S) \in Seq(S)
           /\ \A x \in S : \E i \in DOMAIN SetToSeq(S) : SetToSeq(S)[i] = x
<1> DEFINE n == Cardinality(S)
           f == SetToSeq(S)
<1>1. n \in Nat /\ ExistsBijection(1 .. n, S)
  BY FS_CardinalityType
<1>2. \E g \in [1 .. n -> S] : IsInjective(g)
  BY <1>1 DEF ExistsBijection, Bijection, Injection
<1>3. f \in [1 .. n -> S] /\ IsInjective(f)
  BY <1>2 DEF SetToSeq
<1>4. f \in Injection(1 .. n, S)
  BY <1>3 DEF Injection
<1>5. IsFiniteSet(1 .. n) /\ Cardinality(1 .. n) = n
  BY <1>1, FS_Interval
<1>6. f \in Surjection(1 .. n, S)
  BY <1>4, <1>5, FS_Injection
<1>7. \A x \in S : \E i \in 1 .. n : f[i] = x
  BY <1>6 DEF Surjection
<1> QED
  BY <1>1, <1>3, <1>7

\* One effect for each of a person's profiles, in some order.
LEMMA EffectsAsSequence ==
    ASSUME NEW what, NEW arg, NEW p \in Profiles, NEW H, H \subseteq Linked(p),
           NEW S, S = {Do(what, NoGame, q, arg) : q \in H}
    PROVE  /\ SetToSeq(S) \in Seq({Do(what, NoGame, q, arg) : q \in Linked(p)})
           /\ \A q \in H : \E i \in DOMAIN SetToSeq(S) : SetToSeq(S)[i] = Do(what, NoGame, q, arg)
<1> DEFINE f == [q \in H |-> Do(what, NoGame, q, arg)]
           T == {Do(what, NoGame, q, arg) : q \in Linked(p)}
<1>1. f \in Surjection(H, S)
  BY DEF Surjection
<1>2. SetToSeq(S) \in Seq(S) /\ \A x \in S : \E i \in DOMAIN SetToSeq(S) : SetToSeq(S)[i] = x
  <2>1. IsFiniteSet(H)
    BY OnePerson, FS_Subset
  <2>2. IsFiniteSet(S)
    BY <1>1, <2>1, FS_Surjection
  <2> QED
    BY <2>2, SetAsSequence
<1>3. S \subseteq T
  OBVIOUS
<1>4. SetToSeq(S) \in Seq(T)
  BY <1>2, <1>3
<1> QED
  BY <1>2, <1>4

LEMMA OneEffect == ASSUME NEW x PROVE SetToSeq({x}) = <<x>>
<1>1. IsFiniteSet({x}) /\ Cardinality({x}) = 1
  BY FS_Singleton
<1>2. SetToSeq({x}) = CHOOSE f \in [1 .. 1 -> {x}] : IsInjective(f)
  BY <1>1 DEF SetToSeq
<1>3. <<x>> \in [1 .. 1 -> {x}] /\ IsInjective(<<x>>)
  BY DEF IsInjective
<1>4. \A f \in [1 .. 1 -> {x}] : f = <<x>>
  OBVIOUS
<1> QED
  BY <1>2, <1>3, <1>4

LEMMA NoEffect == SetToSeq({}) = <<>>
<1>1. IsFiniteSet({})
  BY FS_EmptySet
<1>2. SetToSeq({}) \in Seq({})
  BY <1>1, SetAsSequence
<1> QED
  BY <1>2

(***************************************************************************)
(* Buttons and keyboards                                                   *)
(***************************************************************************)
LEMMA ValuesOfGames ==
    GameValues =
        {"ag:manage", "ag:edit", "ag:files", "ag:masters", "ag:players", "ag:notifications",
         "ag:schedule", "ag:schedule-registration", "ag:schedule-confirmation", "ag:schedule-tuesday",
         "ag:schedule-close", "ag:schedule-night", "ag:clear-registration", "ag:clear-confirmation",
         "ag:clear-close", "ag:details", "ag:links", "ag:status", "ag:archive", "ag:notify", "ag:notify-all",
         "ag:notify-link", "ag:remove", "ag:waiting", "ag:profiles", "ag:promote", "ag:amount",
         "ag:question", "ag:sift", "ag:remind", "ag:tables", "ag:delete", "ag:unarchive", "stats:game",
         "stats:confirm", "master:self-add", "master:add", "master:remove", "master:list"}
  BY DEF GameValues, GameActions, Clearing, Schedules, Opening, Lists

\* A button that confirms nobody's removal or promotion.
Safe(b) == IsButton(b) /\ SoundButton(b) /\ ~Confirming(b)

SafeKeys(buttons) == \A b \in buttons : Safe(b)

LEMMA PlainFields ==
    ASSUME NEW v
    PROVE  /\ IsButton(Plain(v)) /\ Plain(v).value = v /\ Plain(v).who = NoOne /\ Plain(v).token = 0
           /\ Plain(v).game = NoGame
  BY DEF Plain, IsButton, ButtonFields, NoAbout

LEMMA ForGameFields ==
    ASSUME NEW v, NEW g
    PROVE  /\ IsButton(ForGame(v, g)) /\ ForGame(v, g).value = v /\ ForGame(v, g).game = g
           /\ ForGame(v, g).who = NoOne /\ ForGame(v, g).token = 0
  BY DEF ForGame, Plain, IsButton, ButtonFields, NoAbout

LEMMA ForPersonFields ==
    ASSUME NEW v, NEW g, NEW p
    PROVE  /\ IsButton(ForPerson(v, g, p)) /\ ForPerson(v, g, p).value = v /\ ForPerson(v, g, p).who = p
  BY DEF ForPerson, Plain, IsButton, ButtonFields, NoAbout

LEMMA BareFields ==
    ASSUME NEW v, NEW g, NEW p
    PROVE  /\ IsButton(Bare(v, g, p)) /\ Bare(v, g, p).value = v /\ Bare(v, g, p).who = NoOne
  BY DEF Bare, Plain, IsButton, ButtonFields, NoAbout

\* The buttons of the dialogues, but for those that confirm a player.
LEMMA SafeButtons ==
    ASSUME NEW v, v \notin {"confirm:remove", "confirm:promote"}
    PROVE  /\ v \notin GameValues \cup PersonValues => Safe(Plain(v))
           /\ v \notin PersonValues => \A g \in Games : Safe(ForGame(v, g))
           /\ v \notin GameValues => \A g, p : (v \in PersonValues => p \in Profiles) => Safe(ForPerson(v, g, p))
           /\ v \notin GameValues \cup PersonValues => \A g, p : Safe(Bare(v, g, p))
<1>0. v \notin {"confirm:remove", "confirm:promote"}
  OBVIOUS
<1>1. v \notin GameValues \cup PersonValues => Safe(Plain(v))
  BY PlainFields DEF Safe, SoundButton, Confirming
<1>2. v \notin PersonValues => \A g \in Games : Safe(ForGame(v, g))
  BY ForGameFields DEF Safe, SoundButton, Confirming
<1>3. v \notin GameValues => \A g, p : (v \in PersonValues => p \in Profiles) => Safe(ForPerson(v, g, p))
  <2> SUFFICES ASSUME v \notin GameValues, NEW g, NEW p, v \in PersonValues => p \in Profiles
               PROVE  Safe(ForPerson(v, g, p))
    OBVIOUS
  <2> DEFINE b == ForPerson(v, g, p)
  <2>1. IsButton(b) /\ b.value = v /\ b.who = p
    BY ForPersonFields
  <2>2. Safe(b)
    <3> HIDE DEF b
    <3> QED
      BY <2>1, <1>0 DEF Safe, SoundButton, Confirming
  <2> QED
    BY <2>2
<1>4. v \notin GameValues \cup PersonValues => \A g, p : Safe(Bare(v, g, p))
  BY BareFields DEF Safe, SoundButton, Confirming
<1> QED
  BY <1>1, <1>2, <1>3, <1>4

LEMMA SafeGameButtons ==
    ASSUME NEW values, NEW g \in Games,
           values \cap {"confirm:remove", "confirm:promote", "mod:remove-pick", "master:add-pick"} = {}
    PROVE  SafeKeys(GameButtons(values, g))
  BY SafeButtons DEF GameButtons, SafeKeys, PersonValues

LEMMA SafeUnion ==
    ASSUME NEW S, NEW T, SafeKeys(S), SafeKeys(T)
    PROVE  SafeKeys(S \cup T)
  BY DEF SafeKeys

(***************************************************************************)
(* What a message asks for, it asks for alone                              *)
(***************************************************************************)
LEMMA Alone ==
    ASSUME NEW a
    PROVE  /\ GrantAsked(a) => ~RevokeAsked(a) /\ ~RemovalAsked(a) /\ ~AddsSomebody(a)
           /\ RevokeAsked(a) => ~RemovalAsked(a) /\ ~AddsSomebody(a)
           /\ RemovalAsked(a) => ~AddsSomebody(a)
           /\ PromoteAsked(a) => AddsSomebody(a)
           /\ \A g, p : AdditionAsked(a, g, p) => AddsSomebody(a)
           /\ \A g, p, h, q : AdditionAsked(a, g, p) /\ AdditionAsked(a, h, q) => g = h /\ p = q
  BY DEF GrantAsked, RevokeAsked, RemovalAsked, AddsSomebody, PromoteAsked, AdditionAsked, Answering, RoleCallbacks

\* A message whose dialogue changes nobody's rights has nothing to tell.
LEMMA NothingToTell ==
    ASSUME NEW a \in Masters, pending[a] # {}, Records(a), ~AtWork(a)
    PROVE  Settled(a)
  BY Alone DEF Records, Settled, RoleRecord, LeaderRecord, AtWork

\* Once the notice was sent, nothing is left to tell.
LEMMA NoticeSettles ==
    ASSUME NEW a \in Masters, pending[a] # {}, Records(a),
           \/ GrantAsked(a) /\ Grants(a, Pressed(a).who) \in heard
           \/ RevokeAsked(a) /\ Requested(a, "revoke", NoGame, rows[a].who) \in heard
           \/ \E g, p : /\ AdditionAsked(a, g, p) /\ Requested(a, "leader-grant", g, p) \in heard
                        /\ PromoteAsked(a) => Grants(a, p) \in rows[a].marks
           \/ RemovalAsked(a) /\ Requested(a, "leader-revoke", rows[a].game, rows[a].who) \in heard
    PROVE  Settled(a)
<1>1. CASE GrantAsked(a) /\ Grants(a, Pressed(a).who) \in heard
  BY <1>1, Alone DEF Records, Settled, RoleRecord, LeaderRecord
<1>2. CASE RevokeAsked(a) /\ Requested(a, "revoke", NoGame, rows[a].who) \in heard
  BY <1>2, Alone DEF Records, Settled, RoleRecord, LeaderRecord
<1>3. ASSUME NEW g, NEW p, AdditionAsked(a, g, p), Requested(a, "leader-grant", g, p) \in heard,
             PromoteAsked(a) => Grants(a, p) \in rows[a].marks
      PROVE  Settled(a)
  <2>1. PromoteAsked(a) => p = rows[a].who
    <3>1. PromoteAsked(a) => AdditionAsked(a, rows[a].game, rows[a].who)
      BY DEF AdditionAsked
    <3> QED
      BY <1>3, <3>1, Alone
  <2>2. ASSUME NEW q \in Profiles, By(Received(a).id, granted[q]) PROVE granted[q] \in heard
    BY <1>3, <2>1, <2>2, Alone DEF Records, RoleRecord
  <2>3. ASSUME NEW h \in Games, NEW q \in Profiles, By(Received(a).id, changed[h][q])
        PROVE  changed[h][q] \in heard
    BY <1>3, <2>3, Alone DEF Records, LeaderRecord
  <2> QED
    BY <2>2, <2>3 DEF Settled
<1>4. CASE RemovalAsked(a) /\ Requested(a, "leader-revoke", rows[a].game, rows[a].who) \in heard
  BY <1>4, Alone DEF Records, Settled, RoleRecord, LeaderRecord
<1> QED
  BY <1>1, <1>2, <1>3, <1>4

(***************************************************************************)
(* What others do beside an actor                                          *)
(***************************************************************************)
\* A step in which the rights on record change by messages other than his.
Beside(b) ==
    /\ pending'[b] = pending[b] /\ keyboard'[b] = keyboard[b]
    /\ rows'[b] \in {rows[b], [rows[b] EXCEPT !.buttons = {}]}
    /\ sent \in Nat /\ sent' \in Nat /\ sent <= sent'
    /\ heard \subseteq heard'
    /\ pending[b] # {} => \A r \in heard' \ heard : r.message # Received(b).id
    /\ \A q \in Profiles :
         \/ granted'[q] = granted[q] /\ roles'[q] = roles[q]
         \/ /\ granted'[q] # NoRequest
            /\ pending[b] # {} => granted'[q].message # Received(b).id
            /\ roles'[q] = "none" \/ granted'[q].kind = "grant"
    /\ \A g \in Games, q \in Profiles :
         \/ changed'[g][q] = changed[g][q]
         \/ /\ changed'[g][q] # NoRequest
            /\ pending[b] # {} => changed'[g][q].message # Received(b).id

LEMMA SameRowBeside ==
    ASSUME NEW b, IsRow(rows[b]), rows'[b] \in {rows[b], [rows[b] EXCEPT !.buttons = {}]}
    PROVE  /\ IsRow(rows'[b]) /\ rows'[b].buttons \subseteq rows[b].buttons
           /\ rows'[b].state = rows[b].state /\ rows'[b].game = rows[b].game /\ rows'[b].who = rows[b].who
           /\ rows'[b].role = rows[b].role /\ rows'[b].marks = rows[b].marks /\ rows'[b].token = rows[b].token
           /\ [rows'[b] EXCEPT !.buttons = {}] = [rows[b] EXCEPT !.buttons = {}]
<1>1. CASE rows'[b] = rows[b]
  BY <1>1
<1>2. CASE rows'[b] = [rows[b] EXCEPT !.buttons = {}]
  <2>1. /\ DOMAIN rows'[b] = RowFields /\ rows'[b].buttons = {}
        /\ rows'[b].state = rows[b].state /\ rows'[b].game = rows[b].game /\ rows'[b].who = rows[b].who
        /\ rows'[b].role = rows[b].role /\ rows'[b].marks = rows[b].marks /\ rows'[b].token = rows[b].token
    BY <1>2 DEF IsRow, RowFields
  <2>2. [rows'[b] EXCEPT !.buttons = {}] = [rows[b] EXCEPT !.buttons = {}]
    BY <1>2 DEF IsRow, RowFields
  <2>3. IsRow(rows'[b])
    BY <2>1 DEF IsRow, SoundRow
  <2> QED
    BY <2>1, <2>2, <2>3
<1> QED
  BY <1>1, <1>2

\* What is disputed stays so, and so does the access of a person, or the dispute.
LEMMA BesideRecords ==
    ASSUME NEW b \in Masters, Beside(b), pending[b] # {}, Received(b)' = Received(b), Shapes, Shapes'
    PROVE  /\ \A p \in Profiles : Disputed(Received(b).id, p) => Disputed(Received(b).id, p)'
           /\ \A q \in Profiles : By(Received(b).id, granted[q])' =>
                 granted'[q] = granted[q] /\ By(Received(b).id, granted[q]) /\ roles'[q] = roles[q]
           /\ \A q \in Profiles : granted[q] # NoRequest => granted'[q] # NoRequest
           /\ \A g \in Games, q \in Profiles : By(Received(b).id, changed[g][q])' =>
                 changed'[g][q] = changed[g][q] /\ By(Received(b).id, changed[g][q])
           /\ \A p \in Profiles : KeepsAccess(b, p) => KeepsAccess(b, p)'
<1> DEFINE id == Received(b).id
<1>1. \A q \in Profiles : NotBy(id, granted[q]) => NotBy(id, granted'[q])
  BY DEF Beside, NotBy
<1>2. \A g \in Games, q \in Profiles : NotBy(id, changed[g][q]) => NotBy(id, changed'[g][q])
  BY DEF Beside, NotBy
<1>3. \A p \in Profiles : Linked(p)' = Linked(p) /\ Linked(p) \subseteq Profiles /\ IsAdmin(p)' = IsAdmin(p)
  BY OnePerson DEF Linked, IsAdmin
<1>4. \A p \in Profiles : Disputed(id, p) => Disputed(id, p)'
  BY <1>1, <1>2, <1>3 DEF Disputed, NotBy
<1>5. ASSUME NEW p \in Profiles, KeepsAccess(b, p) PROVE KeepsAccess(b, p)'
  <2>1. CASE \E q \in Linked(p) : NotBy(id, granted'[q])
    BY <1>3, <2>1 DEF KeepsAccess, NotBy
  <2>2. CASE \A q \in Linked(p) : ~NotBy(id, granted'[q])
    <3>1. \A q \in Linked(p) : roles'[q] = roles[q]
      BY <1>3, <2>2 DEF Beside, NotBy
    <3>2. HasAdminAccess(p)
      BY <1>1, <1>3, <1>5, <2>2 DEF KeepsAccess
    <3>3. HasAdminAccess(p)'
      BY <1>3, <3>1, <3>2, AccessMeans, AccessMeansNext DEF Shapes
    <3> QED
      BY <3>3 DEF KeepsAccess
  <2> QED
    BY <2>1, <2>2
<1>6. \A q \in Profiles : By(id, granted[q])' =>
                 granted'[q] = granted[q] /\ By(id, granted[q]) /\ roles'[q] = roles[q]
  BY DEF Beside, By
<1>7. \A q \in Profiles : granted[q] # NoRequest => granted'[q] # NoRequest
  BY DEF Beside
<1>8. \A g \in Games, q \in Profiles : By(id, changed[g][q])' =>
                 changed'[g][q] = changed[g][q] /\ By(id, changed[g][q])
  BY DEF Beside, By
<1> QED
  BY <1>4, <1>5, <1>6, <1>7, <1>8

\* A message asks for what it asked for as long as the question is the same.
LEMMA SameAsked ==
    ASSUME NEW b, rows'[b].state = rows[b].state, rows'[b].game = rows[b].game, rows'[b].who = rows[b].who,
           Received(b)' = Received(b)
    PROVE  /\ Answering(b)' = Answering(b) /\ GrantAsked(b)' = GrantAsked(b)
           /\ RevokeAsked(b)' = RevokeAsked(b) /\ PromoteAsked(b)' = PromoteAsked(b)
           /\ RemovalAsked(b)' = RemovalAsked(b) /\ AddsSomebody(b)' = AddsSomebody(b)
           /\ AtWork(b)' = AtWork(b) /\ Pressed(b)' = Pressed(b)
           /\ \A g, p : AdditionAsked(b, g, p)' = AdditionAsked(b, g, p)
           /\ \A kind, g, p : Requested(b, kind, g, p)' = Requested(b, kind, g, p)
           /\ \A p : Grants(b, p)' = Grants(b, p)
<1>1. /\ rows'[b].state = rows[b].state /\ rows'[b].game = rows[b].game /\ rows'[b].who = rows[b].who
  OBVIOUS
<1>2. Pressed(b)' = Pressed(b)
  BY DEF Pressed
<1>3. Answering(b)' = Answering(b)
  BY <1>2 DEF Answering
<1>4. /\ GrantAsked(b)' = GrantAsked(b) /\ RevokeAsked(b)' = RevokeAsked(b)
      /\ PromoteAsked(b)' = PromoteAsked(b) /\ RemovalAsked(b)' = RemovalAsked(b)
  BY <1>1, <1>2, <1>3 DEF GrantAsked, RevokeAsked, PromoteAsked, RemovalAsked
<1>5. AddsSomebody(b)' = AddsSomebody(b)
  BY <1>1, <1>2, <1>3, <1>4 DEF AddsSomebody
<1>6. AtWork(b)' = AtWork(b)
  BY <1>4, <1>5 DEF AtWork
<1>7. \A g, p : AdditionAsked(b, g, p)' = AdditionAsked(b, g, p)
  BY <1>1, <1>2, <1>3, <1>4 DEF AdditionAsked
<1>8. \A kind, g, p : Requested(b, kind, g, p)' = Requested(b, kind, g, p)
  BY DEF Requested
<1>9. \A p : Grants(b, p)' = Grants(b, p)
  BY DEF Grants, Requested
<1> QED
  BY <1>2, <1>3, <1>4, <1>5, <1>6, <1>7, <1>8, <1>9

\* The message of b asks for what it asked for.
LEMMA BesideAsked ==
    ASSUME NEW b, IsRow(rows[b]), rows'[b] \in {rows[b], [rows[b] EXCEPT !.buttons = {}]},
           Received(b)' = Received(b)
    PROVE  /\ Answering(b)' = Answering(b) /\ GrantAsked(b)' = GrantAsked(b)
           /\ RevokeAsked(b)' = RevokeAsked(b) /\ PromoteAsked(b)' = PromoteAsked(b)
           /\ RemovalAsked(b)' = RemovalAsked(b) /\ AddsSomebody(b)' = AddsSomebody(b)
           /\ AtWork(b)' = AtWork(b) /\ Pressed(b)' = Pressed(b)
           /\ \A g, p : AdditionAsked(b, g, p)' = AdditionAsked(b, g, p)
           /\ \A kind, g, p : Requested(b, kind, g, p)' = Requested(b, kind, g, p)
           /\ \A p : Grants(b, p)' = Grants(b, p)
<1>1. rows'[b].state = rows[b].state /\ rows'[b].game = rows[b].game /\ rows'[b].who = rows[b].who
  BY SameRowBeside
<1> QED
  BY <1>1, SameAsked

\* Nothing that others do makes an actor untrue to his records.
LEMMA BesideSettled ==
    ASSUME NEW b \in Masters, Beside(b), pending[b] # {}, Received(b)' = Received(b), Shapes, Shapes', Settled(b)
    PROVE  Settled(b)'
<1>1. heard \subseteq heard'
  BY DEF Beside
<1> QED
  BY <1>1, BesideRecords DEF Settled, By

LEMMA BesideKeepsRecords ==
    ASSUME NEW b \in Masters, Beside(b), pending[b] # {}, Received(b)' = Received(b), Shapes, Shapes',
           IsRow(rows[b]), Records(b)
    PROVE  Records(b)'
<1> DEFINE id == Received(b).id
<1>1. rows'[b] \in {rows[b], [rows[b] EXCEPT !.buttons = {}]}
  BY DEF Beside
<1>2. /\ rows'[b].state = rows[b].state /\ rows'[b].game = rows[b].game /\ rows'[b].who = rows[b].who
      /\ rows'[b].role = rows[b].role /\ rows'[b].marks = rows[b].marks
  BY <1>1, SameRowBeside
<1>3. ASSUME NEW q \in Profiles, By(id, granted[q])' PROVE RoleRecord(b, q)'
  <2>1. granted'[q] = granted[q] /\ By(id, granted[q]) /\ roles'[q] = roles[q]
    BY <1>3, BesideRecords
  <2>2. RoleRecord(b, q)
    BY <2>1 DEF Records
  <2>3. \A p \in Profiles : granted[p] # NoRequest => granted'[p] # NoRequest
    BY BesideRecords
  <2>4. \A p : IsAdmin(p)' = IsAdmin(p) /\ Linked(p)' = Linked(p)
    BY DEF IsAdmin, Linked
  <2>5. CASE /\ GrantAsked(b) /\ Pressed(b).who \in Profiles
             /\ q \in Linked(Pressed(b).who) /\ ~IsAdmin(Pressed(b).who)
             /\ granted[q] = Grants(b, Pressed(b).who)
             /\ roles[q] = rows[b].role
             /\ granted[Pressed(b).who] # NoRequest
    BY <1>1, <1>2, <2>1, <2>3, <2>4, <2>5, BesideAsked DEF RoleRecord
  <2>6. CASE /\ PromoteAsked(b) /\ q = rows[b].who
             /\ granted[q] = Grants(b, q) /\ roles[q] = "moderator"
    BY <1>1, <1>2, <2>1, <2>4, <2>6, BesideAsked DEF RoleRecord
  <2>7. CASE /\ RevokeAsked(b) /\ q \in Linked(rows[b].who)
             /\ granted[q] = Requested(b, "revoke", NoGame, rows[b].who)
    BY <1>1, <1>2, <2>1, <2>4, <2>7, BesideAsked DEF RoleRecord
  <2> QED
    BY <2>2, <2>5, <2>6, <2>7 DEF RoleRecord
<1>4. ASSUME NEW g \in Games, NEW q \in Profiles, By(id, changed[g][q])' PROVE LeaderRecord(b, g, q)'
  <2>1. changed'[g][q] = changed[g][q] /\ By(id, changed[g][q])
    BY <1>4, BesideRecords
  <2>2. LeaderRecord(b, g, q)
    BY <2>1 DEF Records
  <2>3. KeepsAccess(b, q) => KeepsAccess(b, q)'
    BY BesideRecords
  <2> QED
    BY <1>1, <1>2, <2>1, <2>2, <2>3, BesideAsked DEF LeaderRecord
<1>5. \A r \in heard' : r.message = id => r \in heard
  BY DEF Beside
<1>6. ASSUME PromoteAsked(b)', Grants(b, rows[b].who)' \in rows'[b].marks,
             granted'[rows'[b].who] = Grants(b, rows[b].who)'
      PROVE  Grants(b, rows[b].who)' \in heard'
  <2>1. PICK p \in Profiles : p = rows[b].who
    BY <1>1, <1>6, BesideAsked DEF PromoteAsked, IsRow, SoundRow
  <2>2. Grants(b, rows[b].who)' = Grants(b, p) /\ Grants(b, rows[b].who) = Grants(b, p)
    BY <1>1, <1>2, <2>1, BesideAsked
  <2>3. By(id, granted[p])'
    BY <1>2, <1>6, <2>1, <2>2 DEF By, Grants, Requested, NoRequest
  <2>4. granted'[rows[b].who] = granted[rows[b].who]
    BY <2>1, <2>3, BesideRecords
  <2>5. heard \subseteq heard'
    BY DEF Beside
  <2> QED
    BY <1>1, <1>2, <1>6, <2>2, <2>4, <2>5, BesideAsked DEF Records
<1>7. ASSUME NEW r \in heard', r.message = id, r.kind = "revoke" PROVE RevokeAsked(b)' /\ r.who = rows'[b].who
  BY <1>1, <1>2, <1>5, <1>7, BesideAsked DEF Records
<1> QED
  BY <1>3, <1>4, <1>6, <1>7 DEF Records

LEMMA NotedRevoked ==
    ASSUME NEW b, NEW t, TurnOK(b, t), t.note = "revoked"
    PROVE  RevokeAsked(b) /\ (EndedTurn(b, t) \/ RevokeTurn(b, t))
<1>1. ~OrderTurn(b, t) /\ ~WriteTurn(b, t) /\ ~GrantTurn(b, t) /\ ~PromoteTurn(b, t) /\ ~RemoveTurn(b, t)
  BY DEF OrderTurn, WriteTurn, GrantTurn, PromoteTurn, RemoveTurn
<1>2. ~AddTurn(b, t)
  BY DEF AddTurn, AddsAs
<1>3. EndedTurn(b, t) => RevokeAsked(b)
  BY DEF EndedTurn
<1>4. RevokeTurn(b, t) => RevokeAsked(b)
  BY DEF RevokeTurn
<1> QED
  BY <1>1, <1>2, <1>3, <1>4 DEF TurnOK

\* A turn goes on as it is.
LEMMA BesideKeepsTurn ==
    ASSUME NEW b \in Masters, Beside(b), pending[b] # {}, Received(b)' = Received(b), Shapes, Shapes',
           IsRow(rows[b]), NEW t, TurnOK(b, t)
    PROVE  TurnOK(b, t)'
<1>1. rows'[b] \in {rows[b], [rows[b] EXCEPT !.buttons = {}]} /\ heard \subseteq heard'
  BY DEF Beside
<1>2. /\ rows'[b].state = rows[b].state /\ rows'[b].game = rows[b].game /\ rows'[b].who = rows[b].who
      /\ rows'[b].role = rows[b].role /\ rows'[b].marks = rows[b].marks
      /\ [rows'[b] EXCEPT !.buttons = {}] = [rows[b] EXCEPT !.buttons = {}]
  BY <1>1, SameRowBeside
<1>3. \A r : Alike(r, rows[b]) => Alike(r, rows[b])'
  BY <1>2 DEF Alike
<1>4. \A p : IsAdmin(p)' = IsAdmin(p) /\ Linked(p)' = Linked(p)
  BY DEF IsAdmin, Linked
<1>5. \A q \in Profiles : granted[q] # NoRequest => granted'[q] # NoRequest
  BY BesideRecords
<1>6. \A p \in Profiles : KeepsAccess(b, p) => KeepsAccess(b, p)'
  BY BesideRecords
<1>7. Settled(b) => Settled(b)'
  BY BesideSettled
<1>8. \A kind, g, p : Announcing(b, t, kind, g, p) => Announcing(b, t, kind, g, p)'
  BY <1>1, <1>7, BesideAsked DEF Announcing, Telling, Claiming, Ending, Do
<1>9. \A kind, g, p : Telling(kind, g, p)' = Telling(kind, g, p)
  BY DEF Telling, Do
<1>10. ASSUME EndedTurn(b, t) PROVE EndedTurn(b, t)'
  BY <1>1, <1>7, <1>10, BesideAsked DEF EndedTurn
<1>11. ASSUME OrderTurn(b, t) PROVE OrderTurn(b, t)'
  BY <1>1, <1>11, BesideAsked DEF OrderTurn, Do
<1>12. ASSUME WriteTurn(b, t) PROVE WriteTurn(b, t)'
  BY <1>1, <1>12, BesideAsked DEF WriteTurn, Do
<1>13. ASSUME GrantTurn(b, t) PROVE GrantTurn(b, t)'
  <2> DEFINE p == Pressed(b).who
             role == rows[b].role
             Writing1(w) == /\ t.todo = w \o (<<Do("check-role", NoGame, p, role)>> \o Telling("grant", NoGame, p))
                            /\ w = <<>> \/ Head(w).who = p \/ granted[p] # NoRequest
  <2>1. /\ GrantAsked(b) /\ t.note = "" /\ p \in Profiles /\ ~IsAdmin(p)
        /\ (t.row.who = p /\ \E w \in Seq(RoleWrites(p, role)) : Writing1(w)) \/ Announcing(b, t, "grant", NoGame, p)
    BY <1>13 DEF GrantTurn
  <2>2. Pressed(b)' = Pressed(b) /\ GrantAsked(b)' = GrantAsked(b) /\ rows'[b].role = rows[b].role
    BY <1>1, <1>2, BesideAsked
  <2>3. RoleWrites(p, role)' = RoleWrites(p, role)
    BY <1>2, <1>4, <2>2 DEF RoleWrites, Do
  <2>4. CASE Announcing(b, t, "grant", NoGame, p)
    BY <1>4, <1>8, <2>1, <2>2, <2>4 DEF GrantTurn
  <2>5. CASE t.row.who = p /\ \E w \in Seq(RoleWrites(p, role)) : Writing1(w)
    <3>1. PICK w \in Seq(RoleWrites(p, role)) : Writing1(w)
      BY <2>5
    <3>2. Writing1(w)'
      BY <1>2, <1>5, <1>9, <2>1, <2>2, <3>1 DEF Do
    <3>3. w \in Seq(RoleWrites(p, role))'
      BY <2>3, <3>1
    <3> QED
      BY <1>4, <2>1, <2>2, <2>5, <3>2, <3>3 DEF GrantTurn
  <2> QED
    BY <2>1, <2>4, <2>5
<1>14. ASSUME RevokeTurn(b, t) PROVE RevokeTurn(b, t)'
  <2> DEFINE p == rows[b].who
             Clearing1(w) == t.todo = w \o (<<Do("check-role", NoGame, p, "none")>> \o Telling("revoke", NoGame, p))
  <2>1. /\ RevokeAsked(b) /\ t.note = "revoked"
        /\ (t.row.who = p /\ \E w \in Seq(RoleClears(p)) : Clearing1(w)) \/ Announcing(b, t, "revoke", NoGame, p)
    BY <1>14 DEF RevokeTurn
  <2>2. RevokeAsked(b)' /\ rows'[b].who = p
    BY <1>1, <1>2, <2>1, BesideAsked
  <2>3. RoleClears(p)' = RoleClears(p)
    BY <1>4, <2>2 DEF RoleClears, Do
  <2>4. CASE Announcing(b, t, "revoke", NoGame, p)
    BY <1>8, <2>1, <2>2, <2>4 DEF RevokeTurn
  <2>5. CASE t.row.who = p /\ \E w \in Seq(RoleClears(p)) : Clearing1(w)
    <3>1. PICK w \in Seq(RoleClears(p)) : Clearing1(w)
      BY <2>5
    <3>2. Clearing1(w)'
      BY <1>9, <2>2, <3>1 DEF Do
    <3> QED
      BY <2>1, <2>2, <2>3, <2>5, <3>1, <3>2 DEF RevokeTurn
  <2> QED
    BY <2>1, <2>4, <2>5
<1>15. ASSUME PromoteTurn(b, t) PROVE PromoteTurn(b, t)'
  <2>1. rows[b].who \in Profiles
    BY <1>15 DEF PromoteTurn, PromoteAsked, IsRow, SoundRow
  <2>2. granted'[rows[b].who] = Grants(b, rows[b].who) => granted[rows[b].who] = Grants(b, rows[b].who)
    <3>1. Grants(b, rows[b].who).message = Received(b).id /\ Grants(b, rows[b].who) # NoRequest
      BY DEF Grants, Requested, NoRequest
    <3> QED
      BY <2>1, <3>1, BesideRecords DEF By
  <2>3. /\ PromoteAsked(b)' = PromoteAsked(b) /\ Grants(b, rows[b].who)' = Grants(b, rows[b].who)
    BY <1>1, <1>2, BesideAsked
  <2> QED
    BY <1>1, <1>2, <1>3, <1>15, <2>2, <2>3 DEF PromoteTurn, Do
<1>16. ASSUME AddTurn(b, t) PROVE AddTurn(b, t)'
  <2>1. /\ PromoteAsked(b)' = PromoteAsked(b)
        /\ \A g, p : AdditionAsked(b, g, p)' = AdditionAsked(b, g, p)
        /\ \A kind, g, p : Requested(b, kind, g, p)' = Requested(b, kind, g, p)
        /\ \A p : Grants(b, p)' = Grants(b, p)
    BY <1>1, BesideAsked
  <2>2. PICK g \in Games, p \in Profiles : AddsAs(b, t, g, p)
    BY <1>16 DEF AddTurn, AddsAs
  <2>3. AddsAs(b, t, g, p)'
    <3>0. AdditionAsked(b, g, p) /\ t.note = "" /\ (PromoteAsked(b) => Grants(b, p) \in rows[b].marks)
      BY <2>2 DEF AddsAs
    <3>6. /\ AdditionAsked(b, g, p)' = AdditionAsked(b, g, p) /\ PromoteAsked(b)' = PromoteAsked(b)
          /\ Grants(b, p)' = Grants(b, p)
          /\ Requested(b, "leader-grant", g, p)' = Requested(b, "leader-grant", g, p)
      BY <2>1
    <3>7. PromoteAsked(b)' => Grants(b, p)' \in rows'[b].marks
      BY <1>2, <3>0, <3>6
    <3>1. AdditionAsked(b, g, p)' /\ t.note = "" /\ (PromoteAsked(b)' => Grants(b, p)' \in rows'[b].marks)
      BY <3>0, <3>6, <3>7
    <3>2. CASE /\ t.todo = <<Do("mark", g, p, "leader-grant"), Do("add-leader", g, p, ""), Do("check-leader", g, p, "")>>
                              \o Telling("leader-grant", g, p)
               /\ g \in t.manages /\ Alike(t.row, rows[b]) /\ KeepsAccess(b, p)
      BY <1>3, <1>6, <1>9, <3>1, <3>2 DEF AddsAs, Do
    <3>3. CASE /\ t.todo = <<Do("add-leader", g, p, ""), Do("check-leader", g, p, "")>> \o Telling("leader-grant", g, p)
               /\ g \in t.manages /\ Requested(b, "leader-grant", g, p) \in rows[b].marks /\ KeepsAccess(b, p)
      <4>1. Requested(b, "leader-grant", g, p)' \in rows'[b].marks
        BY <1>2, <3>3, <3>6
      <4> QED
        BY <1>6, <1>9, <3>1, <3>3, <4>1 DEF AddsAs, Do
    <3>4. CASE t.todo = <<Do("check-leader", g, p, "")>> \o Telling("leader-grant", g, p)
      BY <1>9, <3>1, <3>4 DEF AddsAs, Do
    <3>5. CASE Announcing(b, t, "leader-grant", g, p)
      BY <1>8, <3>1, <3>5 DEF AddsAs
    <3> QED
      BY <2>2, <3>2, <3>3, <3>4, <3>5 DEF AddsAs
  <2> QED
    BY <2>3 DEF AddTurn, AddsAs
<1>17. ASSUME RemoveTurn(b, t) PROVE RemoveTurn(b, t)'
  <2>1. /\ RemovalAsked(b)' = RemovalAsked(b)
        /\ \A kind, g, p : Requested(b, kind, g, p)' = Requested(b, kind, g, p)
    BY <1>1, BesideAsked
  <2> DEFINE g == rows[b].game
             p == rows[b].who
  <2>2. /\ RemovalAsked(b)' /\ t.note = "" /\ g \in Games /\ p \in Profiles
        /\ rows'[b].game = g /\ rows'[b].who = p
    BY <1>2, <1>17, <2>1 DEF RemoveTurn
  <2>3. CASE /\ t.todo = <<Do("mark", g, p, "leader-revoke"), Do("remove-leader", g, p, "")>>
                            \o Telling("leader-revoke", g, p)
             /\ g \in t.manages /\ Alike(t.row, rows[b])
    <3>3. Telling("leader-revoke", g, p)' = Telling("leader-revoke", g, p)
      BY <2>2 DEF Telling, Do
    <3>4. g' = g /\ p' = p
      BY <2>2
    <3> QED
      BY <1>3, <2>2, <2>3, <3>3, <3>4 DEF RemoveTurn, Do
  <2>4. CASE /\ t.todo = <<Do("remove-leader", g, p, "")>> \o Telling("leader-revoke", g, p)
             /\ g \in t.manages /\ Requested(b, "leader-revoke", g, p) \in rows[b].marks
    <3>1. Requested(b, "leader-revoke", g, p)' = Requested(b, "leader-revoke", g, p)
      BY <2>1, <2>2
    <3>2. Requested(b, "leader-revoke", g, p)' \in rows'[b].marks
      BY <1>2, <2>4, <3>1
    <3>3. Telling("leader-revoke", g, p)' = Telling("leader-revoke", g, p)
      BY <2>2 DEF Telling, Do
    <3>4. g' = g /\ p' = p
      BY <2>2
    <3> QED
      BY <2>2, <2>4, <3>2, <3>3, <3>4 DEF RemoveTurn, Do
  <2>5. CASE Announcing(b, t, "leader-revoke", g, p)
    <3>1. Announcing(b, t, "leader-revoke", g, p)'
      BY <1>8, <2>2, <2>5, <1>1, <1>7, BesideAsked DEF Announcing, Telling, Claiming, Ending, Do
    <3>4. g' = g /\ p' = p
      BY <2>2
    <3> QED
      BY <2>2, <3>1, <3>4 DEF RemoveTurn
  <2> QED
    BY <1>17, <2>3, <2>4, <2>5 DEF RemoveTurn
<1>18. Revoked(b, t)'
  <2>1. \A q \in Profiles :
          \/ roles'[q] = roles[q] /\ granted'[q] = granted[q]
          \/ granted'[q] # NoRequest /\ (roles'[q] = "none" \/ granted'[q].kind = "grant")
    BY DEF Beside
  <2>2. t.note = "revoked" => rows[b].who \in Profiles
    BY NotedRevoked DEF RevokeAsked, IsRow, SoundRow
  <2>3. t.note = "revoked" => Linked(rows[b].who) \subseteq Profiles
    BY <2>2, OnePerson
  <2>4. Revoked(b, t)
    BY DEF TurnOK
  <2> QED
    BY <1>2, <1>4, <2>1, <2>3, <2>4 DEF Revoked, Do
<1> QED
  BY <1>1, <1>10, <1>11, <1>12, <1>13, <1>14, <1>15, <1>16, <1>17, <1>18 DEF TurnOK

\* What is shown to an actor stays sound, and the roles that questions are
\* about were held.
RolesOnRecord ==
    \A q \in Profiles : (granted'[q] = granted[q] /\ roles'[q] = roles[q]) \/ granted'[q] # NoRequest

LEMMA HadRoleKept ==
    ASSUME RolesOnRecord, NEW row, IsRow(row), HadRole(row)
    PROVE  HadRole(row)'
  BY DEF RolesOnRecord, HadRole, IsRow, SoundRow

LEMMA BesideKeepsLists ==
    ASSUME NEW b \in Masters, Beside(b), turn'[b] = turn[b], IsRow(rows[b]), IsTurn(turn[b]), ListsOK(b)
    PROVE  ListsOK(b)'
<1>1. rows'[b] \in {rows[b], [rows[b] EXCEPT !.buttons = {}]} /\ keyboard'[b] = keyboard[b]
  BY DEF Beside
<1>2. /\ IsRow(rows'[b]) /\ rows'[b].buttons \subseteq rows[b].buttons
      /\ rows'[b].state = rows[b].state /\ rows'[b].game = rows[b].game /\ rows'[b].who = rows[b].who
      /\ rows'[b].marks = rows[b].marks /\ rows'[b].token = rows[b].token
  BY <1>1, SameRowBeside
<1>3. Buttons(b)' \subseteq Buttons(b)
  BY <1>1, <1>2 DEF Buttons
<1>4. Coming' \subseteq Coming
  BY DEF Coming, Beside
<1>5. RolesOnRecord
  BY DEF RolesOnRecord, Beside
<1>6. HadRole(turn[b].row)' /\ turn'[b].row = turn[b].row
  BY <1>5, HadRoleKept DEF ListsOK, IsTurn
<1>7. HadRole(rows[b])'
  <2>1. HadRole(rows[b])
    BY DEF ListsOK
  <2> QED
    BY <1>2, <1>5, <2>1 DEF HadRole, RolesOnRecord, IsRow, SoundRow
<1>8. \A x \in Buttons(b)' : IsButton(x) /\ SoundButton(x) /\ (Confirming(x) => x.token \notin Coming')
  BY <1>3, <1>4 DEF ListsOK
<1>9. SameList(rows'[b], Buttons(b)') /\ SameList(turn'[b].row, Buttons(b)')
  BY <1>2, <1>3, <1>6 DEF ListsOK, SameList, Holding
<1>10. \A row \in {rows'[b], turn'[b].row} :
         (Holding(row) => row.token \notin Coming') /\ \A r \in row.marks : r.message \notin Coming'
  BY <1>2, <1>4, <1>6 DEF ListsOK, Holding
<1> QED
  BY <1>6, <1>7, <1>8, <1>9, <1>10 DEF ListsOK

LEMMA BesideKeepsMessage ==
    ASSUME NEW b \in Masters, Beside(b), turn'[b] = turn[b], IsRow(rows[b]), IsTurn(turn[b]), MessageOK(b),
           Received(b)' = Received(b)
    PROVE  MessageOK(b)'
<1>1. /\ rows'[b] \in {rows[b], [rows[b] EXCEPT !.buttons = {}]} /\ keyboard'[b] = keyboard[b]
      /\ pending'[b] = pending[b] /\ sent <= sent' /\ sent \in Nat /\ sent' \in Nat
  BY DEF Beside
<1>2. rows'[b].buttons \subseteq rows[b].buttons /\ rows'[b].state = rows[b].state /\ rows'[b].token = rows[b].token
  BY <1>1, SameRowBeside
<1>3. Buttons(b)' \subseteq Buttons(b)
  BY <1>1, <1>2 DEF Buttons
<1> QED
  BY <1>1, <1>2, <1>3 DEF MessageOK, Holding, IsMessage

\* An actor's part of the invariant is not touched by what happens beside him.
LEMMA BesideKeepsActor ==
    ASSUME NEW b \in Masters, Beside(b), turn'[b] = turn[b], Shapes, Shapes', ActorInv(b)
    PROVE  ActorInv(b)'
<1>1. pending'[b] = pending[b]
  BY DEF Beside
<1>2. Received(b)' = Received(b)
  BY <1>1 DEF Received
<1>3. /\ IsRow(rows[b]) /\ IsTurn(turn[b]) /\ MessageOK(b) /\ ListsOK(b) /\ Records(b)
  BY DEF ActorInv
<1>4. IsRow(rows'[b])
  BY <1>3, SameRowBeside DEF Beside
<1>5. MessageOK(b)' /\ ListsOK(b)'
  BY <1>2, <1>3, BesideKeepsLists, BesideKeepsMessage
<1>6. Records(b)'
  <2>1. CASE pending[b] = {}
    BY <1>1, <2>1 DEF Records
  <2>2. CASE pending[b] # {}
    BY <1>2, <1>3, <2>2, BesideKeepsRecords
  <2> QED
    BY <2>1, <2>2
<1>7. turn[b].busy => pending[b] # {} /\ TurnOK(b, turn[b])'
  <2>1. turn[b].busy => pending[b] # {} /\ TurnOK(b, turn[b])
    BY DEF ActorInv
  <2>2. ASSUME NEW t, t = turn[b], TurnOK(b, t), pending[b] # {} PROVE TurnOK(b, t)'
    BY <1>2, <1>3, <2>2, BesideKeepsTurn
  <2> QED
    BY <2>1, <2>2
<1>8. ~turn[b].busy => turn[b] = FreeTurn
  BY DEF ActorInv
<1>9. turn[b].busy \in BOOLEAN
  BY <1>3 DEF IsTurn
<1> QED
  BY <1>1, <1>3, <1>4, <1>5, <1>6, <1>7, <1>8, <1>9 DEF ActorInv, FreeTurn

(***************************************************************************)
(* A step of one turn                                                      *)
(***************************************************************************)
\* The turn of a changes what it may: the records by its message, and its own row.
OwnStep(a) ==
    /\ pending[a] # {} /\ pending' = pending /\ keyboard' = keyboard /\ sent' = sent /\ refused' = refused
    /\ \A b \in Masters \ {a} : turn'[b] = turn[b] /\ rows'[b] \in {rows[b], [rows[b] EXCEPT !.buttons = {}]}
    /\ heard \subseteq heard' /\ \A r \in heard' \ heard : r.message = Received(a).id
    /\ \A p \in Profiles : told'[p] \in heard' \cup {NoRequest}
    /\ \A q \in Profiles :
         \/ granted'[q] = granted[q] /\ roles'[q] = roles[q]
         \/ By(Received(a).id, granted'[q]) /\ (roles'[q] = "none" \/ granted'[q].kind = "grant")
    /\ \A g \in Games, q \in Profiles : changed'[g][q] = changed[g][q] \/ By(Received(a).id, changed'[g][q])

LEMMA OwnIsBeside ==
    ASSUME IInv, NEW a \in Masters, NEW b \in Masters, a # b, OwnStep(a)
    PROVE  Beside(b) /\ turn'[b] = turn[b]
<1>1. pending[b] # {} => Received(b).id # Received(a).id
  BY DEF IInv, DistinctMessages, OwnStep
<1>2. sent \in Nat
  BY DEF IInv, Shapes
<1> QED
  BY <1>1, <1>2 DEF OwnStep, Beside, By

LEMMA OwnKeepsPast ==
    ASSUME IInv, NEW a \in Masters, OwnStep(a)
    PROVE  Past'
<1>1. Received(a).id <= sent /\ Received(a).id \in Nat /\ sent \in Nat
  BY DEF IInv, ActorInv, MessageOK, IsMessage, Shapes, OwnStep
<1>2. \A q \in Profiles : granted'[q] # NoRequest => granted'[q].message <= sent'
  BY <1>1 DEF IInv, Past, OwnStep, By
<1>3. \A g \in Games, q \in Profiles : changed'[g][q] # NoRequest => changed'[g][q].message <= sent'
  BY <1>1 DEF IInv, Past, OwnStep, By
<1>4. \A r \in heard' : r.message \in Nat /\ r.message <= sent'
  BY <1>1 DEF IInv, Past, OwnStep
<1> QED
  BY <1>2, <1>3, <1>4 DEF Past, OwnStep

LEMMA OwnKeepsTold ==
    ASSUME IInv, NEW a \in Masters, OwnStep(a)
    PROVE  AllTold'
<1>0. PICK id : id = Received(a).id
  OBVIOUS
<1>1. ~Answered(id) /\ ~Answered(id)'
  <2>1. PICK m : m = Received(a)
    OBVIOUS
  <2>2. pending[a] = {m} /\ pending'[a] = {m}
    BY <2>1 DEF IInv, ActorInv, MessageOK, OwnStep
  <2> QED
    BY <1>0, <2>1, <2>2 DEF Answered
<1>2. \A m : Answered(m)' => Answered(m)
  BY DEF Answered, OwnStep
<1>3. \A r : Told(r) => Told(r)'
  BY DEF Told, OwnStep
<1>4. \A q \in Profiles : granted'[q] = granted[q] \/ By(id, granted'[q])
  BY <1>0 DEF OwnStep
<1>5. \A g \in Games, q \in Profiles : changed'[g][q] = changed[g][q] \/ By(id, changed'[g][q])
  BY <1>0 DEF OwnStep
<1>6. ASSUME NEW m, m # id, NEW p \in Profiles, Disputed(m, p) PROVE Disputed(m, p)'
  <2>1. Linked(p)' = Linked(p) /\ Linked(p) \subseteq Profiles
    BY OnePerson DEF Linked
  <2>2. \A q \in Profiles : NotBy(m, granted[q]) => NotBy(m, granted'[q])
    BY <1>4, <1>6 DEF NotBy, By
  <2>3. \A g \in Games, q \in Profiles : NotBy(m, changed[g][q]) => NotBy(m, changed'[g][q])
    BY <1>5, <1>6 DEF NotBy, By
  <2> QED
    BY <1>6, <2>1, <2>2, <2>3 DEF Disputed, NotBy
<1>7. ASSUME NEW r, NEW p \in Profiles, AnsweredToo(r, p) PROVE r # NoRequest /\ Answered(r.message)' => Told(r)' \/ Disputed(r.message, p)'
  <2> SUFFICES ASSUME r # NoRequest, Answered(r.message)' PROVE Told(r)' \/ Disputed(r.message, p)'
    OBVIOUS
  <2>1. Answered(r.message) /\ r.message # id
    BY <1>1, <1>2
  <2>2. Told(r) \/ Disputed(r.message, p)
    BY <1>7, <2>1 DEF AnsweredToo
  <2>3. Disputed(r.message, p) => Disputed(r.message, p)'
    BY <1>6, <2>1
  <2> QED
    BY <1>3, <2>2, <2>3
<1>8. ASSUME NEW p \in Profiles PROVE AnsweredToo(granted[p], p)'
  <2>1. CASE granted'[p] = granted[p]
    <3>1. AnsweredToo(granted[p], p)
      BY DEF IInv, AllTold
    <3>2. ASSUME NEW r, r = granted[p] PROVE r # NoRequest /\ Answered(r.message)' => Told(r)' \/ Disputed(r.message, p)'
      BY <1>7, <3>1, <3>2
    <3> QED
      BY <2>1, <3>2 DEF AnsweredToo
  <2>2. CASE By(id, granted'[p])
    BY <1>1, <2>2 DEF By, AnsweredToo
  <2> QED
    BY <1>4, <2>1, <2>2
<1>9. ASSUME NEW g \in Games, NEW p \in Profiles PROVE AnsweredToo(changed[g][p], p)'
  <2>1. CASE changed'[g][p] = changed[g][p]
    <3>1. AnsweredToo(changed[g][p], p)
      BY DEF IInv, AllTold
    <3>2. ASSUME NEW r, r = changed[g][p] PROVE r # NoRequest /\ Answered(r.message)' => Told(r)' \/ Disputed(r.message, p)'
      BY <1>7, <3>1, <3>2
    <3> QED
      BY <2>1, <3>2 DEF AnsweredToo
  <2>2. CASE By(id, changed'[g][p])
    BY <1>1, <2>2 DEF By, AnsweredToo
  <2> QED
    BY <1>5, <2>1, <2>2
<1> QED
  BY <1>8, <1>9 DEF AllTold

LEMMA OwnKeepsInvariant ==
    ASSUME IInv, NEW a \in Masters, OwnStep(a), Shapes', Queues', TokenConfirmsItsTarget', ActorInv(a)'
    PROVE  IInv'
<1>1. Past' /\ AllTold'
  BY OwnKeepsPast, OwnKeepsTold
<1>2. ASSUME NEW b \in Masters PROVE ActorInv(b)'
  <2>1. CASE b = a
    BY <2>1
  <2>2. CASE b # a
    <3>1. Beside(b) /\ turn'[b] = turn[b]
      BY <2>2, OwnIsBeside
    <3> QED
      BY <3>1, BesideKeepsActor DEF IInv
  <2> QED
    BY <2>1, <2>2
<1>3. DistinctMessages'
  <2>1. \A b \in Masters : Received(b)' = Received(b)
    BY DEF Received, OwnStep
  <2> QED
    BY <2>1 DEF IInv, DistinctMessages, OwnStep
<1> QED
  BY <1>1, <1>2, <1>3 DEF IInv

\* Orders stay in their queues, and confirm what they confirmed.
LEMMA OrdersStay ==
    ASSUME IInv, UNCHANGED <<queue, published>>
    PROVE  Queues' /\ TokenConfirmsItsTarget'
  BY DEF IInv, Queues, TokenConfirmsItsTarget

LEMMA IdleRowFields ==
    /\ DOMAIN IdleRow = RowFields /\ IdleRow.state = "IDLE" /\ IdleRow.game = NoGame /\ IdleRow.who = NoOne
    /\ IdleRow.role = "none" /\ IdleRow.token = 0 /\ IdleRow.marks = {} /\ IdleRow.buttons = {}
  BY DEF IdleRow, RowFields

LEMMA FreeTurnFields ==
    /\ DOMAIN FreeTurn = TurnFields /\ FreeTurn.busy = FALSE /\ FreeTurn.row = IdleRow /\ FreeTurn.told = NoRequest
    /\ FreeTurn.todo = <<>> /\ FreeTurn.note = "" /\ FreeTurn.manages = {}
  BY DEF FreeTurn, TurnFields

\* A row that the turn of a may hold, or save.
OwnRow(a, row) ==
    /\ IsRow(row) /\ HadRole(row)
    /\ \A r \in row.marks : r.message \notin Coming
    /\ Holding(row) =>
         \/ row.token = Received(a).id
         \/ \E base \in {rows[a], turn[a].row} : Holding(base) /\ base.token = row.token /\ base.game = row.game
    /\ \A b \in row.buttons : Confirming(b) =>
         \/ b \in Buttons(a)
         \/ /\ turn[a] = FreeTurn /\ Holding(rows[a])
            /\ b.token = rows[a].token /\ b.about.game = rows[a].game

LEMMA OwnKeepsLists ==
    ASSUME NEW a \in Masters, OwnStep(a), RolesOnRecord, Received(a)' = Received(a), sent \in Nat,
           MessageOK(a), ListsOK(a), OwnRow(a, rows'[a]), OwnRow(a, turn'[a].row),
           rows'[a].state = rows[a].state, rows'[a].token = rows[a].token
    PROVE  ListsOK(a)' /\ MessageOK(a)'
<1> DEFINE id == Received(a).id
           all == Buttons(a)'
<1>1. /\ all = keyboard[a] \cup rows'[a].buttons \cup turn'[a].row.buttons
      /\ keyboard'[a] = keyboard[a] /\ pending'[a] = pending[a] /\ pending[a] # {} /\ sent' = sent
      /\ Coming' = Coming
  BY DEF Buttons, OwnStep, Coming
<1>2. /\ pending[a] = {Received(a)} /\ IsMessage(Received(a)) /\ id <= sent
      /\ Confirming(Received(a).button) => Received(a).button \in keyboard[a]
      /\ Holding(rows[a]) => rows[a].token # id
      /\ \A b \in Buttons(a) : Confirming(b) => b.token # id
  BY <1>1 DEF MessageOK
<1>3. id \notin Coming /\ id \in Nat
  BY <1>2 DEF Coming, IsMessage
<1>4. Holding(turn[a].row) => turn[a] # FreeTurn
  BY FreeTurnFields, IdleRowFields DEF Holding
<1>5. ASSUME NEW b \in all, Confirming(b)
      PROVE  \/ b \in Buttons(a)
             \/ /\ turn[a] = FreeTurn /\ Holding(rows[a])
                /\ b.token = rows[a].token /\ b.about.game = rows[a].game
  BY <1>1, <1>5 DEF OwnRow, Buttons
<1>6. ASSUME NEW b \in all PROVE IsButton(b) /\ SoundButton(b)
  BY <1>1, <1>6 DEF OwnRow, IsRow, ListsOK, Buttons
<1>7. ASSUME NEW b \in all, Confirming(b) PROVE b.token # id /\ b.token \notin Coming
  BY <1>2, <1>5, <1>7 DEF ListsOK
<1>8. ASSUME NEW row, OwnRow(a, row) PROVE SameList(row, all) /\ (Holding(row) => row.token \notin Coming)
  <2> SUFFICES ASSUME Holding(row)
               PROVE  row.token \notin Coming /\
                      \A b \in all : Confirming(b) /\ b.token = row.token => b.about.game = row.game
    BY DEF SameList
  <2>1. CASE row.token = id
    BY <1>3, <1>7, <2>1
  <2>2. ASSUME NEW base \in {rows[a], turn[a].row}, Holding(base), base.token = row.token, base.game = row.game
        PROVE  row.token \notin Coming /\
               \A b \in all : Confirming(b) /\ b.token = row.token => b.about.game = row.game
    <3>1. SameList(base, Buttons(a)) /\ base.token \notin Coming
      BY <2>2 DEF ListsOK
    <3>2. base = rows[a] \/ turn[a] # FreeTurn
      BY <1>4, <2>2
    <3> QED
      BY <1>5, <2>2, <3>1, <3>2 DEF SameList
  <2> QED
    BY <1>8, <2>1, <2>2 DEF OwnRow
<1>9. ASSUME NEW row, OwnRow(a, row) PROVE HadRole(row)' /\ \A r \in row.marks : r.message \notin Coming
  BY <1>9, HadRoleKept DEF OwnRow
<1>10. HadRole(rows[a])' /\ HadRole(turn[a].row)'
  <2>1. \A row : OwnRow(a, row) => HadRole(row)'
    BY <1>9
  <2>2. ASSUME NEW r, r = rows'[a] PROVE HadRole(r)'
    BY <2>1, <2>2
  <2>3. ASSUME NEW r, r = turn'[a].row PROVE HadRole(r)'
    BY <2>1, <2>3
  <2> QED
    BY <2>2, <2>3 DEF HadRole
<1>11. SameList(rows'[a], all) /\ SameList(turn'[a].row, all)
       /\ (Holding(rows'[a]) => rows'[a].token \notin Coming)
       /\ (Holding(turn'[a].row) => turn'[a].row.token \notin Coming)
  BY <1>8
<1>12. \A r \in rows'[a].marks \cup turn'[a].row.marks : r.message \notin Coming
  BY DEF OwnRow
<1>13. ListsOK(a)'
  BY <1>1, <1>6, <1>7, <1>10, <1>11, <1>12 DEF ListsOK
<1>14. Holding(rows'[a]) => rows'[a].token # id
  BY <1>2 DEF Holding
<1> QED
  BY <1>1, <1>2, <1>7, <1>13, <1>14 DEF MessageOK

\* The rows that an actor and his turn have are such rows.
LEMMA OwnRowsNow ==
    ASSUME NEW a \in Masters, ListsOK(a), IsRow(rows[a]), IsTurn(turn[a])
    PROVE  OwnRow(a, rows[a]) /\ OwnRow(a, turn[a].row) /\ OwnRow(a, [rows[a] EXCEPT !.buttons = {}])
<1>1. OwnRow(a, rows[a]) /\ OwnRow(a, turn[a].row)
  BY DEF OwnRow, ListsOK, IsTurn, Buttons
<1> DEFINE row == [rows[a] EXCEPT !.buttons = {}]
<1>2. /\ DOMAIN row = RowFields /\ row.buttons = {} /\ row.state = rows[a].state /\ row.game = rows[a].game
      /\ row.who = rows[a].who /\ row.role = rows[a].role /\ row.marks = rows[a].marks
      /\ row.token = rows[a].token
  BY DEF IsRow, RowFields
<1>3. OwnRow(a, row)
  <2> HIDE DEF row
  <2> QED
    BY <1>1, <1>2 DEF OwnRow, IsRow, SoundRow, HadRole, Holding
<1> QED
  BY <1>1, <1>3

\* States that no hold, who or list is needed for.
LEMMA IdleIsOwn ==
    ASSUME NEW a
    PROVE  IsRow(IdleRow) /\ OwnRow(a, IdleRow)
<1>1. "IDLE" \notin EventBound \cup DOMAIN Following \cup DOMAIN Sending
  BY DEF EventBound, EditStates, Scheduling, LeaderStates, RosterStates, Following, Sending
<1>2. IsRow(IdleRow)
  BY <1>1, IdleRowFields DEF IsRow, SoundRow, Optional, Role
<1> QED
  BY <1>2, IdleRowFields DEF OwnRow, HadRole, Holding

(***************************************************************************)
(* A step that changes nothing but the turn                                *)
(***************************************************************************)
LEMMA TurnStep ==
    ASSUME IInv, NEW a \in Masters, pending[a] # {}, NEW t, turn' = [turn EXCEPT ![a] = t],
           UNCHANGED <<roles, granted, told, rows, pending, keyboard, heard, changed, refused, sent>>,
           GamesOK', leaders' \in [Games -> SUBSET Profiles],
           Queues', TokenConfirmsItsTarget',
           IsTurn(t), OwnRow(a, t.row), IF t.busy THEN TurnOK(a, t) ELSE t = FreeTurn
    PROVE  IInv'
<1>1. Shapes /\ ActorInv(a)
  BY DEF IInv
<1>2. turn'[a] = t /\ (\A b \in Masters \ {a} : turn'[b] = turn[b]) /\ DOMAIN turn' = Masters
  BY <1>1 DEF Shapes
<1>3. Shapes'
  BY <1>1, <1>2 DEF Shapes
<1>4. Received(a)' = Received(a)
  BY DEF Received
<1>5. OwnStep(a)
  BY <1>2 DEF OwnStep, IInv, Past
<1>6. Beside(a)
  BY <1>1 DEF Beside, Shapes
<1>7. /\ IsRow(rows[a]) /\ MessageOK(a) /\ ListsOK(a) /\ Records(a) /\ IsTurn(turn[a])
  BY <1>1 DEF ActorInv
<1>8. RolesOnRecord
  BY DEF RolesOnRecord
<1>9. ListsOK(a)' /\ MessageOK(a)'
  <2>1. OwnRow(a, rows'[a]) /\ OwnRow(a, turn'[a].row)
    BY <1>2, <1>7, OwnRowsNow
  <2> QED
    BY <1>1, <1>4, <1>5, <1>7, <1>8, <2>1, OwnKeepsLists DEF Shapes
<1>10. Records(a)'
  BY <1>1, <1>3, <1>4, <1>6, <1>7, BesideKeepsRecords
<1>11. t.busy => TurnOK(a, t)'
  BY <1>1, <1>3, <1>4, <1>6, <1>7, BesideKeepsTurn
<1>12. t.busy => TurnOK(a, turn[a])'
  BY <1>2, <1>11
<1>13. ActorInv(a)'
  BY <1>2, <1>7, <1>9, <1>10, <1>12 DEF ActorInv
<1> QED
  BY <1>3, <1>5, <1>13, OwnKeepsInvariant

(***************************************************************************)
(* Decisions                                                               *)
(***************************************************************************)
NewTurn(a, row, todo, note) ==
    [busy |-> TRUE, row |-> row, told |-> told[a], todo |-> todo, note |-> note,
     manages |-> {g \in Games : Manages(a, g)}]

\* The gateway has decided what to do with a message, and may do that.
Decided(a) ==
    \E row, todo, note :
        /\ Plan(a, row, todo, note)
        /\ OwnRow(a, row)
        /\ TurnOK(a, NewTurn(a, row, todo, note))

Ready(a) == IInv /\ a \in Masters /\ Taken(a)

LEMMA NewTurnFields ==
    ASSUME NEW a, NEW row, NEW todo, NEW note, NEW t, t = NewTurn(a, row, todo, note)
    PROVE  /\ DOMAIN t = TurnFields /\ t.busy = TRUE /\ t.row = row /\ t.told = told[a] /\ t.todo = todo
           /\ t.note = note
           /\ \A g : g \in t.manages <=> g \in Games /\ Manages(a, g)
<1>1. t.manages = {g \in Games : Manages(a, g)}
  BY DEF NewTurn
<1> QED
  BY <1>1 DEF NewTurn, TurnFields

LEMMA ReadyMeans ==
    ASSUME NEW a, Ready(a)
    PROVE  /\ a \in Masters /\ a \in Profiles /\ Shapes /\ turn[a] = FreeTurn /\ pending[a] = {Received(a)} /\ pending[a] # {}
           /\ IsMessage(Received(a)) /\ SoundButton(Pressed(a)) /\ IsButton(Pressed(a))
           /\ IsRow(rows[a]) /\ SoundRow(rows[a]) /\ IsTurn(turn[a])
           /\ MessageOK(a) /\ ListsOK(a) /\ Records(a)
           /\ HadRole(rows[a]) /\ OwnRow(a, rows[a])
           /\ told[a] \in heard \cup {NoRequest}
           /\ Linked(a) \subseteq Profiles /\ a \in Linked(a)
<1>1. a \in Masters /\ a \in Profiles /\ pending[a] # {} /\ ~turn[a].busy
  BY RoleManagementAssumption DEF Ready, Taken
<1>2. Shapes /\ ActorInv(a) /\ Past
  BY <1>1 DEF IInv, Ready
<1>3. /\ turn[a] = FreeTurn /\ IsRow(rows[a]) /\ IsTurn(turn[a]) /\ MessageOK(a) /\ ListsOK(a) /\ Records(a)
  BY <1>1, <1>2 DEF ActorInv
<1>4. pending[a] = {Received(a)} /\ IsMessage(Received(a))
  BY <1>1, <1>3 DEF MessageOK
<1>5. IsButton(Pressed(a)) /\ SoundButton(Pressed(a))
  BY <1>4 DEF IsMessage, Pressed
<1>6. OwnRow(a, rows[a]) /\ SoundRow(rows[a]) /\ HadRole(rows[a])
  BY <1>1, <1>3, OwnRowsNow DEF IsRow, ListsOK
<1>7. told[a] \in heard \cup {NoRequest}
  BY <1>1, <1>2 DEF Past
<1> QED
  BY <1>1, <1>2, <1>3, <1>4, <1>5, <1>6, <1>7, OnePerson

LEMMA PlanStep ==
    ASSUME NEW a, Ready(a), Decided(a), UNCHANGED gameVars
    PROVE  IInv'
<1>1. PICK row, todo, note :
        Plan(a, row, todo, note) /\ OwnRow(a, row) /\ TurnOK(a, NewTurn(a, row, todo, note))
  BY DEF Decided
<1>2. PICK t : t = NewTurn(a, row, todo, note)
  OBVIOUS
<1>3. /\ DOMAIN t = TurnFields /\ t.busy = TRUE /\ t.row = row
  BY <1>2 DEF NewTurn, TurnFields
<1>4. /\ turn' = [turn EXCEPT ![a] = t]
      /\ UNCHANGED <<games, leaders, roles, granted, told, rows, pending, keyboard, heard, changed,
                     refused, sent>>
  BY <1>1, <1>2 DEF Plan, NewTurn
<1>5. a \in Masters /\ pending[a] # {} /\ IInv /\ Shapes
  BY ReadyMeans DEF Ready
<1>6. Queues' /\ TokenConfirmsItsTarget'
  BY <1>5, OrdersStay DEF gameVars
<1>7. GamesOK' /\ leaders' \in [Games -> SUBSET Profiles]
  BY <1>4, <1>5 DEF Shapes, GamesOK
<1>8. IsTurn(t) /\ OwnRow(a, t.row)
  BY <1>1, <1>3 DEF IsTurn, OwnRow
<1>9. IF t.busy THEN TurnOK(a, t) ELSE t = FreeTurn
  BY <1>1, <1>2, <1>3
<1> QED
  BY <1>4, <1>5, <1>6, <1>7, <1>8, <1>9, TurnStep

\* A row whose keyboard confirms nobody.
LEMMA SafeRow ==
    ASSUME NEW a, Ready(a), NEW row, DOMAIN row = RowFields, row.game \in Optional,
           row.role \in Role \ {"admin"}, row.marks \subseteq rows[a].marks, SafeKeys(row.buttons),
           SoundRow(row), HadRole(row),
           Holding(row) =>
             \/ row.token = Received(a).id
             \/ Holding(rows[a]) /\ rows[a].token = row.token /\ rows[a].game = row.game
    PROVE  OwnRow(a, row)
<1>1. IsRow(row)
  BY DEF IsRow, SafeKeys, Safe
<1>2. OwnRow(a, rows[a])
  BY ReadyMeans
<1> QED
  BY <1>1, <1>2 DEF OwnRow, SafeKeys, Safe

\* Turns that end where they began.
LEMMA NothingToDo ==
    ASSUME NEW a, Ready(a), NEW row, OwnRow(a, row), NEW note, Plan(a, row, <<>>, note),
           note = "refused" \/ (note = "" /\ Settled(a))
    PROVE  Decided(a)
<1>1. PICK t : t = NewTurn(a, row, <<>>, note)
  OBVIOUS
<1>2. t.todo = <<>> /\ t.note = note /\ t.told = told[a]
  BY <1>1 DEF NewTurn
<1>3. TurnOK(a, t)
  BY <1>2, ReadyMeans DEF TurnOK, EndedTurn, Revoked
<1> QED
  BY <1>1, <1>3 DEF Decided

LEMMA SayDecided ==
    ASSUME NEW a, Ready(a), Settled(a), NEW row, NEW buttons, Say(a, row, buttons),
           OwnRow(a, [row EXCEPT !.buttons = buttons])
    PROVE  Decided(a)
  BY NothingToDo DEF Say

LEMMA IdleKeys ==
    ASSUME NEW a, Ready(a), NEW buttons, SafeKeys(buttons)
    PROVE  OwnRow(a, [IdleRow EXCEPT !.buttons = buttons])
<1> DEFINE row == [IdleRow EXCEPT !.buttons = buttons]
<1>1. /\ DOMAIN row = RowFields /\ row.state = "IDLE" /\ row.game = NoGame /\ row.who = NoOne /\ row.role = "none"
      /\ row.token = 0 /\ row.marks = {} /\ row.buttons = buttons
  BY IdleRowFields DEF RowFields
<1>2. "IDLE" \notin EventBound \cup DOMAIN Following \cup DOMAIN Sending
  BY DEF EventBound, EditStates, Scheduling, LeaderStates, RosterStates, Following, Sending
<1> HIDE DEF row
<1>3. SoundRow(row) /\ HadRole(row) /\ ~Holding(row) /\ row.role \in Role \ {"admin"} /\ row.game \in Optional
  BY <1>1, <1>2 DEF SoundRow, HadRole, Holding, Role, Optional
<1>4. OwnRow(a, row)
  BY <1>1, <1>3, SafeRow
<1> QED
  BY <1>4 DEF row

LEMMA LeaveDecided ==
    ASSUME NEW a, Ready(a), Settled(a), NEW buttons, SafeKeys(buttons), Leave(a, buttons)
    PROVE  Decided(a)
  BY IdleKeys, SayDecided DEF Leave

LEMMA RefuseDecided ==
    ASSUME NEW a, Ready(a), Refuse(a)
    PROVE  Decided(a)
  BY IdleIsOwn, NothingToDo DEF Refuse

LEMMA DismissDecided ==
    ASSUME NEW a, Ready(a), NEW buttons, SafeKeys(buttons), Dismiss(a, buttons)
    PROVE  Decided(a)
  BY IdleKeys, NothingToDo DEF Dismiss

LEMMA ObjectDecided ==
    ASSUME NEW a, Ready(a), Object(a)
    PROVE  Decided(a)
<1>1. OwnRow(a, [rows[a] EXCEPT !.buttons = {}])
  BY ReadyMeans, OwnRowsNow
<1> QED
  BY <1>1, NothingToDo DEF Object

LEMMA RemarkDecided ==
    ASSUME NEW a, Ready(a), Settled(a), Remark(a)
    PROVE  Decided(a)
<1> DEFINE row == [rows[a] EXCEPT !.buttons = rows[a].buttons]
<1>1. /\ DOMAIN row = RowFields /\ row.state = rows[a].state /\ row.game = rows[a].game /\ row.who = rows[a].who
      /\ row.role = rows[a].role /\ row.token = rows[a].token /\ row.marks = rows[a].marks
      /\ row.buttons = rows[a].buttons
  BY ReadyMeans DEF IsRow, RowFields
<1> HIDE DEF row
<1>2. OwnRow(a, rows[a])
  BY ReadyMeans
<1>3. OwnRow(a, row)
  BY <1>1, <1>2 DEF OwnRow, IsRow, SoundRow, HadRole, Holding
<1> QED
  BY <1>3, SayDecided DEF Remark, row

LEMMA OutdatedDecided ==
    ASSUME NEW a, TakeOutdated(a), Ready(a)
    PROVE  Decided(a)
  BY ReadyMeans, NothingToDo DEF TakeOutdated

\* Below a question are the buttons of its game.
LEMMA KeysAreSafe ==
    ASSUME NEW state, NEW g \in Games
    PROVE  SafeKeys(Keys(state, g))
<1>1. /\ Safe(Plain("status:registration")) /\ Safe(Plain("status:confirmation")) /\ Safe(Plain("status:close"))
      /\ Safe(Plain("quick")) /\ Safe(Plain("rq:text")) /\ Safe(Bare("notification:confirm", g, NoOne))
  BY SafeButtons, ValuesOfGames DEF PersonValues
<1>2. /\ Safe(ForGame("ag:edit", g)) /\ Safe(ForGame("ag:notifications", g)) /\ Safe(ForGame("ag:manage", g))
  BY SafeButtons DEF PersonValues
<1>3. /\ SafeKeys(GameButtons({"ag:clear-registration", "ag:schedule"}, g))
      /\ SafeKeys(GameButtons({"ag:schedule-tuesday", "ag:clear-confirmation", "ag:schedule"}, g))
      /\ SafeKeys(GameButtons({"ag:schedule"}, g))
      /\ SafeKeys(GameButtons({"ag:schedule-night", "ag:clear-close", "ag:schedule"}, g))
  BY SafeGameButtons
<1>4. Keys(state, g) \in
        {{Plain("status:registration"), Plain("status:confirmation"), Plain("status:close"), ForGame("ag:edit", g)},
         {Plain("quick"), ForGame("ag:edit", g)},
         GameButtons({"ag:clear-registration", "ag:schedule"}, g),
         GameButtons({"ag:schedule-tuesday", "ag:clear-confirmation", "ag:schedule"}, g),
         GameButtons({"ag:schedule"}, g), GameButtons({"ag:schedule-night", "ag:clear-close", "ag:schedule"}, g),
         {Bare("notification:confirm", g, NoOne), ForGame("ag:notifications", g)},
         {ForGame("ag:notifications", g)}, {Plain("rq:text"), ForGame("ag:edit", g)}, {ForGame("ag:manage", g)},
         {ForGame("ag:edit", g)}}
  BY DEF Keys
<1>5. \A buttons : SafeKeys(buttons) <=> \A b \in buttons : Safe(b)
  BY DEF SafeKeys
<1> HIDE DEF Keys
<1> QED
  BY <1>1, <1>2, <1>3, <1>4, <1>5

\* Questions that are about a game, and neither about a list nor a profile.
Asked ==
    EditStates \cup Scheduling \cup DOMAIN Sending \cup DOMAIN Following
        \cup {"QUESTION_EDIT_MENU", "QUESTION_EDIT_VALUE", "REMOVE_WAITING_CONFIRM", "WAITING_PICK", "PROFILES_PICK",
              "EVENT_LEADER_ADD_PICK", "EVENT_LEADER_REMOVE", "EVENT_LEADER_LIST"}

LEMMA AskedStates ==
    ASSUME NEW row, row.state \in Asked
    PROVE  /\ ~Holding(row) /\ HadRole(row)
           /\ (row.game \in Games => SoundRow(row))
<1>1. Asked = {"STATUS_SELECT", "UPDATE_GAME_NAME", "UPDATE_GAME_DATE", "UPDATE_PLAYER_AMOUNT",
     "POST_LINK_TELEGRAM", "POST_LINK_VK", "CONFIRMATION_DEADLINE", "NOTIFICATION_MESSAGE_TEXT",
     "NOTIFICATION_CONFIRM", "ARCHIVE_NAME", "DELETE_NAME", "SCHEDULE_REGISTRATION_TIME",
     "SCHEDULE_CONFIRMATION_TIME", "SCHEDULE_CONFIRMATION_DEADLINE", "SCHEDULE_CLOSE_TIME",
     "ALL_PLAYERS_NOTIFICATION_CONFIRM", "ALL_PLAYERS_NOTIFICATION_TEXT",
     "QUESTION_EDIT_MENU", "QUESTION_EDIT_VALUE", "REMOVE_WAITING_CONFIRM", "WAITING_PICK", "PROFILES_PICK",
     "EVENT_LEADER_ADD_PICK", "EVENT_LEADER_REMOVE", "EVENT_LEADER_LIST"}
  BY DEF Asked, EditStates, Scheduling, Sending, Following
<1> QED
  BY <1>1 DEF Holding, HadRole, SoundRow

\* The row of a dialogue about a game.
LEMMA AskedRow ==
    ASSUME NEW a, Ready(a), NEW row, DOMAIN row = RowFields, row.state \in Asked, row.game \in Games,
           row.role \in Role \ {"admin"}, row.marks \subseteq rows[a].marks, SafeKeys(row.buttons)
    PROVE  OwnRow(a, row)
  BY AskedStates, SafeRow DEF Optional

LEMMA AskDecided ==
    ASSUME NEW a, Ready(a), Settled(a), NEW state \in Asked, NEW g \in Games, Ask(a, state, g)
    PROVE  Decided(a)
<1> DEFINE asking == [IdleRow EXCEPT !.state = state, !.game = g]
           row == [asking EXCEPT !.buttons = Keys(state, g)]
<1>1. /\ DOMAIN row = RowFields /\ row.state = state /\ row.game = g /\ row.role = "none" /\ row.marks = {}
      /\ row.buttons = Keys(state, g)
  BY IdleRowFields DEF RowFields
<1>2. Say(a, asking, Keys(state, g))
  BY DEF Ask
<1>3. OwnRow(a, row)
  <2> HIDE DEF row
  <2> QED
    BY <1>1, AskedRow, KeysAreSafe DEF Role
<1> HIDE DEF asking
<1> QED
  BY <1>2, <1>3, SayDecided

LEMMA OneTodo ==
    ASSUME NEW s, NEW e, s = <<e>>
    PROVE  s # <<>> /\ s[1] = e /\ Head(s) = e /\ Tail(s) = <<>>
<1>1. s # <<>>
  OBVIOUS
<1>2. s[1] = e
  OBVIOUS
<1>3. Head(s) = e
  OBVIOUS
<1>4. Tail(s) = <<>>
  OBVIOUS
<1> QED
  BY <1>1, <1>2, <1>3, <1>4

LEMMA PublishDecided ==
    ASSUME NEW a, Ready(a), ~AtWork(a), NEW op, NEW g \in Games, NEW p, NEW buttons, SafeKeys(buttons),
           op \in {"remove", "promote"} => Pressed(a).about = [game |-> g, who |-> p],
           Publishes(a, op, g, p, buttons)
    PROVE  Decided(a)
<1> DEFINE row == [IdleRow EXCEPT !.buttons = buttons]
           e == Do("publish", g, p, op)
           t == NewTurn(a, row, <<e>>, "")
<1>1. t.todo = <<e>> /\ t.note = "" /\ t.told = told[a]
  BY DEF NewTurn
<1>2. e.game = g /\ e.who = p /\ e.arg = op /\ e = Do("publish", e.game, e.who, e.arg)
  BY DEF Do
<1>3. OrderTurn(a, t)
  <2> HIDE DEF t, e
  <2>1. t.todo # <<>> /\ t.todo[1] = e
    BY <1>1, OneTodo
  <2>2. t.todo = <<Do("publish", t.todo[1].game, t.todo[1].who, t.todo[1].arg)>>
    BY <1>1, <1>2, <2>1
  <2> QED
    BY <1>1, <1>2, <2>1, <2>2 DEF OrderTurn
<1>4. TurnOK(a, t)
  <2> HIDE DEF t
  <2> QED
    BY <1>1, <1>3, ReadyMeans DEF TurnOK, Revoked
<1>5. OwnRow(a, row) /\ Plan(a, row, <<e>>, "")
  BY IdleKeys DEF Publishes
<1> HIDE DEF row, e
<1> QED
  BY <1>4, <1>5 DEF Decided

LEMMA WriteDecided ==
    ASSUME NEW a, Ready(a), ~AtWork(a), NEW kind, NEW g \in Games, Manages(a, g),
           NEW buttons, SafeKeys(buttons), Writes(a, kind, g, buttons)
    PROVE  Decided(a)
<1> DEFINE row == [IdleRow EXCEPT !.buttons = buttons]
           e == Do("write", g, NoOne, kind)
           t == NewTurn(a, row, <<e>>, "")
<1>1. t.todo = <<e>> /\ t.note = "" /\ t.told = told[a] /\ g \in t.manages
  BY DEF NewTurn
<1>2. e.game = g /\ e.who = NoOne /\ e.arg = kind /\ e = Do("write", e.game, NoOne, e.arg)
  BY DEF Do
<1>3. WriteTurn(a, t)
  <2> HIDE DEF t, e
  <2>1. t.todo # <<>> /\ t.todo[1] = e
    BY <1>1, OneTodo
  <2>2. t.todo = <<Do("write", t.todo[1].game, NoOne, t.todo[1].arg)>>
    BY <1>1, <1>2, <2>1
  <2> QED
    BY <1>1, <1>2, <2>1, <2>2 DEF WriteTurn
<1>4. TurnOK(a, t)
  <2> HIDE DEF t
  <2> QED
    BY <1>1, <1>3, ReadyMeans DEF TurnOK, Revoked
<1>5. OwnRow(a, row) /\ Plan(a, row, <<e>>, "")
  BY IdleKeys DEF Writes
<1> HIDE DEF row, e
<1> QED
  BY <1>4, <1>5 DEF Decided

\* A message that changes nobody's rights may end with any answer.
LEMMA QuietSettles ==
    ASSUME NEW a, Ready(a), ~AtWork(a)
    PROVE  Settled(a)
  BY ReadyMeans, NothingToTell

(***************************************************************************)
(* Menus                                                                   *)
(***************************************************************************)
LEMMA QuietMessages ==
    ASSUME NEW a
    PROVE  /\ Pressed(a).value \in Clearing \cup Roots => ~AtWork(a)
           /\ rows[a].state = "IDLE" /\ Pressed(a).value # "master:self-add" => ~AtWork(a)
           /\ /\ Pressed(a).value \notin RoleCallbacks
              /\ rows[a].state \notin {"GAMEMASTER_PROFILE", "EVENT_LEADER_PROFILE"}
              => ~AtWork(a)
           /\ Pressed(a).value \in RoleCallbacks \ {"mod:remove-confirm", "master:self-add", "master:add-pick",
                                                    "master:promote:yes", "master:remove-confirm"}
              => ~AtWork(a)
<1>1. Clearing \cup Roots =
        {"ag:manage", "ag:edit", "ag:files", "ag:masters", "ag:players", "ag:notifications",
         "ag:schedule", "ag:schedule-registration", "ag:schedule-confirmation", "ag:schedule-tuesday",
         "ag:schedule-close", "ag:schedule-night", "ag:clear-registration", "ag:clear-confirmation",
         "ag:clear-close", "menu", "admin", "mod:menu"}
  BY DEF Clearing, Schedules, Roots
<1>2. Pressed(a).value \in Clearing \cup Roots => ~AtWork(a)
  BY <1>1 DEF AtWork, GrantAsked, RevokeAsked, RemovalAsked, AddsSomebody, PromoteAsked, Answering
<1>3. rows[a].state = "IDLE" /\ Pressed(a).value # "master:self-add" => ~AtWork(a)
  BY DEF AtWork, GrantAsked, RevokeAsked, RemovalAsked, AddsSomebody, PromoteAsked, Answering
<1>4. /\ Pressed(a).value \notin RoleCallbacks
      /\ rows[a].state \notin {"GAMEMASTER_PROFILE", "EVENT_LEADER_PROFILE"}
      => ~AtWork(a)
  BY DEF AtWork, GrantAsked, RevokeAsked, RemovalAsked, AddsSomebody, PromoteAsked, RoleCallbacks
<1>5. Pressed(a).value \in RoleCallbacks \ {"mod:remove-confirm", "master:self-add", "master:add-pick",
                                            "master:promote:yes", "master:remove-confirm"}
      => ~AtWork(a)
  BY DEF AtWork, GrantAsked, RevokeAsked, RemovalAsked, AddsSomebody, PromoteAsked, Answering, RoleCallbacks
<1> QED
  BY <1>2, <1>3, <1>4, <1>5

LEMMA PlainSafe ==
    /\ Safe(Plain("admin")) /\ Safe(Plain("games")) /\ Safe(Plain("menu")) /\ Safe(Plain("archived"))
    /\ Safe(Plain("mod:menu")) /\ Safe(Plain("role:grant")) /\ Safe(Plain("role:revoke")) /\ Safe(Plain("role:list"))
    /\ Safe(Plain("admin:gamemaster")) /\ Safe(Plain("mod:list-page")) /\ Safe(Plain("mod:remove-page"))
    /\ Safe(Plain("admin:event-leader")) /\ Safe(Plain("master:list-page")) /\ Safe(Plain("master:remove-page"))
    /\ Safe(Plain("master:add-direct"))
  BY SafeButtons, ValuesOfGames DEF PersonValues

LEMMA KeyboardsAreSafe ==
    ASSUME NEW a, NEW g \in Games
    PROVE  /\ SafeKeys({}) /\ SafeKeys(AdminButtons(a)) /\ SafeKeys(ModeratorButtons)
           /\ SafeKeys(ManageButtons(a, g)) /\ SafeKeys(ScheduleButtons(g))
           /\ \A v \in Menus : SafeKeys(GameButtons(Menu(v, a, g), g) \cup {ForGame("ag:manage", g)})
<1>1. SafeKeys({})
  BY DEF SafeKeys
<1>2. SafeKeys(AdminButtons(a))
  BY PlainSafe DEF AdminButtons, SafeKeys
<1>3. SafeKeys(ModeratorButtons)
  BY PlainSafe DEF ModeratorButtons, SafeKeys
<1>4. SafeKeys(ManageButtons(a, g))
  <2>1. /\ SafeKeys(GameButtons({"ag:unarchive", "ag:delete"}, g))
        /\ SafeKeys(GameButtons({"ag:edit", "ag:schedule", "ag:notifications", "ag:players", "ag:files",
                                 "ag:masters"}, g))
        /\ SafeKeys(GameButtons({"stats:game"}, g))
        /\ SafeKeys(GameButtons({"ag:players", "ag:files", "master:list"}, g))
    BY SafeGameButtons
  <2>2. SafeKeys({Plain("archived")}) /\ SafeKeys({Plain("games")})
    BY PlainSafe DEF SafeKeys
  <2> QED
    BY <1>1, <2>1, <2>2, SafeUnion DEF ManageButtons
<1>5. SafeKeys(ScheduleButtons(g))
  <2>1. /\ SafeKeys(GameButtons({"ag:manage"}, g))
        /\ SafeKeys(GameButtons({"ag:schedule-registration", "ag:schedule-confirmation"}, g))
        /\ SafeKeys(GameButtons({"ag:schedule-close"}, g))
    BY SafeGameButtons
  <2> QED
    BY <1>1, <2>1, SafeUnion DEF ScheduleButtons
<1>6. ASSUME NEW v \in Menus PROVE SafeKeys(GameButtons(Menu(v, a, g), g) \cup {ForGame("ag:manage", g)})
  <2>1. Menu(v, a, g) \cap {"confirm:remove", "confirm:promote", "mod:remove-pick", "master:add-pick"} = {}
    BY DEF Menus, Menu
  <2>2. SafeKeys(GameButtons(Menu(v, a, g), g))
    BY <2>1, SafeGameButtons
  <2>3. SafeKeys({ForGame("ag:manage", g)})
    BY SafeButtons DEF SafeKeys, PersonValues
  <2> QED
    BY <2>2, <2>3, SafeUnion
<1> QED
  BY <1>1, <1>2, <1>3, <1>4, <1>5, <1>6

LEMMA GameKeySafe ==
    ASSUME NEW g \in Games, NEW v, v \notin {"confirm:remove", "confirm:promote", "mod:remove-pick", "master:add-pick"}
    PROVE  SafeKeys({ForGame(v, g)})
  BY SafeButtons DEF SafeKeys, PersonValues

LEMMA PlainKeySafe ==
    /\ SafeKeys({Plain("admin")}) /\ SafeKeys({Plain("games")}) /\ SafeKeys({Plain("games"), Plain("archived")})
    /\ SafeKeys({Plain("mod:menu")}) /\ SafeKeys({})
  BY PlainSafe DEF SafeKeys

\* "menu", "admin" and "mod:menu"
LEMMA MenuDecided ==
    ASSUME NEW a, Ready(a), TakeMenu(a)
    PROVE  Decided(a)
<1>1. Settled(a)
  BY QuietMessages, QuietSettles DEF TakeMenu, Roots
<1>2. SafeKeys(AdminButtons(a)) /\ SafeKeys(ModeratorButtons) /\ SafeKeys({Plain("admin")}) /\ SafeKeys({})
  BY PlainSafe DEF AdminButtons, ModeratorButtons, SafeKeys
<1>3. \A buttons : SafeKeys(buttons) /\ Leave(a, buttons) => Decided(a)
  BY <1>1, LeaveDecided
<1>4. CASE Leave(a, {Plain("admin")})
  BY <1>2, <1>3, <1>4
<1>5. CASE Leave(a, IF HasAdminAccess(a) THEN AdminButtons(a) ELSE {})
  BY <1>2, <1>3, <1>5
<1>6. CASE ModeratorMenu(a)
  BY <1>2, <1>3, <1>6 DEF ModeratorMenu
<1> QED
  BY <1>4, <1>5, <1>6 DEF TakeMenu

\* "ag:unarchive" and "ag:delete"
LEMMA ArchiveDecided ==
    ASSUME NEW a, Ready(a), ~AtWork(a), NEW v, NEW g \in Games, ArchiveAction(a, v, g)
    PROVE  Decided(a)
<1>1. Settled(a)
  BY QuietSettles
<1>2. CASE Refuse(a)
  BY <1>2, RefuseDecided
<1>3. CASE Leave(a, {ForGame("ag:manage", g)})
  BY <1>1, <1>3, LeaveDecided, GameKeySafe
<1>4. CASE Ask(a, "DELETE_NAME", g)
  BY <1>1, <1>4, AskDecided DEF Asked, EditStates
<1>5. CASE Publishes(a, "unarchive", g, NoOne, {Plain("games")})
  BY <1>5, PublishDecided, PlainKeySafe
<1> QED
  BY <1>2, <1>3, <1>4, <1>5 DEF ArchiveAction

\* "ag:schedule" and the buttons below it
LEMMA ScheduleDecided ==
    ASSUME NEW a, Ready(a), ~AtWork(a), NEW v, NEW g \in Games, Manages(a, g), ScheduleAction(a, v, g)
    PROVE  Decided(a)
<1>1. Settled(a) /\ SafeKeys(ScheduleButtons(g))
  BY QuietSettles, KeyboardsAreSafe
<1>2. CASE Leave(a, ScheduleButtons(g))
  BY <1>1, <1>2, LeaveDecided
<1>3. ASSUME NEW state \in Scheduling, Ask(a, state, g) PROVE Decided(a)
  BY <1>1, <1>3, AskDecided DEF Asked
<1>4. ASSUME NEW kind \in {"registration-plan", "confirmation-plan", "closing-plan"},
             Writes(a, kind, g, ScheduleButtons(g))
      PROVE  Decided(a)
  BY <1>1, <1>4, WriteDecided
<1> QED
  BY <1>2, <1>3, <1>4 DEF ScheduleAction, Scheduling

(***************************************************************************)
(* Lists of players                                                        *)
(***************************************************************************)
Modes == {"remove", "waiting", "profiles", "promote"}

LEMMA PickSafe ==
    ASSUME NEW v, v \notin GameValues \cup PersonValues \cup {"confirm:remove", "confirm:promote"},
           NEW token, NEW g, NEW p
    PROVE  Safe([ForPerson(v, g, p) EXCEPT !.token = token])
<1> DEFINE b == [ForPerson(v, g, p) EXCEPT !.token = token]
<1>1. DOMAIN b = ButtonFields /\ b.value = v /\ b.about = [game |-> g, who |-> p]
  BY DEF ForPerson, Plain, ButtonFields
<1> HIDE DEF b
<1>2. b.about = [game |-> b.about.game, who |-> b.about.who]
  BY <1>1
<1>3. Safe(b)
  BY <1>1, <1>2 DEF Safe, IsButton, SoundButton, Confirming
<1> QED
  BY <1>3 DEF b

LEMMA SelectedFields ==
    ASSUME NEW verb, NEW row
    PROVE  /\ IsButton(SelectedButton(verb, row)) /\ SelectedButton(verb, row).value = verb
           /\ SelectedButton(verb, row).token = row.token /\ SelectedButton(verb, row).who = row.who
           /\ SelectedButton(verb, row).about.game = row.game /\ SelectedButton(verb, row).about.who = row.who
<1> DEFINE b == SelectedButton(verb, row)
<1>1. /\ DOMAIN b = ButtonFields /\ b.value = verb /\ b.token = row.token /\ b.who = row.who
      /\ b.about = [game |-> row.game, who |-> row.who]
  BY DEF SelectedButton, Plain, ButtonFields
<1> HIDE DEF b
<1>2. IsButton(b) /\ b.about.game = row.game /\ b.about.who = row.who
  BY <1>1 DEF IsButton
<1> QED
  BY <1>1, <1>2 DEF b

LEMMA ListDecided ==
    ASSUME NEW a, Ready(a), Settled(a), NEW mode \in Modes, NEW g \in Games, ShowList(a, mode, g)
    PROVE  Decided(a)
<1> DEFINE token == FreshToken(a)
           shown == Listed(mode, g)
           listing == [IdleRow EXCEPT !.state = PickState(mode), !.game = g, !.token = token, !.choices = shown]
           keys == {Pick(mode, token, g, p) : p \in shown} \cup {ForGame("ag:players", g)}
           row == [listing EXCEPT !.buttons = keys]
<1>1. CASE Leave(a, {ForGame("ag:players", g)})
  BY <1>1, LeaveDecided, GameKeySafe
<1>2. CASE Say(a, listing, keys)
  <2>1. PickState(mode) \in {"REMOVE_PICK", "WAITING_PICK", "PROFILES_PICK", "RESERVE_PROMOTION_PICK"}
    BY DEF Modes, PickState
  <2>2. PickValue(mode) \in {"pick:remove", "pick:profiles", "pick:waiting", "pick:promote"}
    BY DEF Modes, PickValue
  <2>3. PickValue(mode) \notin GameValues \cup PersonValues \cup {"confirm:remove", "confirm:promote"}
    BY <2>2, ValuesOfGames DEF PersonValues
  <2>4. \A p : Safe(Pick(mode, token, g, p))
    BY <2>3, PickSafe DEF Pick
  <2>5. SafeKeys({Pick(mode, token, g, p) : p \in shown})
    BY <2>4 DEF SafeKeys
  <2>6. SafeKeys(keys)
    BY <2>5, GameKeySafe, SafeUnion
  <2>7. /\ DOMAIN row = RowFields /\ row.state = PickState(mode) /\ row.game = g /\ row.role = "none" /\ row.marks = {}
        /\ row.token = token /\ row.buttons = keys
    BY IdleRowFields DEF RowFields
  <2>8. token = Received(a).id
    BY DEF FreshToken
  <2> HIDE DEF row, keys, token
  <2>9. SoundRow(row) /\ HadRole(row)
    BY <2>1, <2>7 DEF SoundRow, HadRole
  <2>10. OwnRow(a, row)
    BY <2>6, <2>7, <2>8, <2>9, SafeRow DEF Optional, Role
  <2>11. OwnRow(a, [listing EXCEPT !.buttons = keys])
    BY <2>10 DEF row
  <2> HIDE DEF listing
  <2> QED
    BY <1>2, <2>11, SayDecided
<1> QED
  BY <1>1, <1>2 DEF ShowList

LEMMA SiftAsked ==
    ASSUME NEW a, Ready(a), Settled(a), NEW g \in Games, AskSift(a, g)
    PROVE  Decided(a)
<1> DEFINE asking == [IdleRow EXCEPT !.state = "REMOVE_WAITING_CONFIRM", !.game = g, !.token = FreshToken(a),
                                     !.count = Cardinality(Waiting(g))]
           keys == {SelectedButton("confirm:sift", asking), ForGame("ag:players", g)}
           row == [asking EXCEPT !.buttons = keys]
<1>1. CASE Leave(a, {ForGame("ag:players", g)})
  BY <1>1, LeaveDecided, GameKeySafe
<1>2. CASE Say(a, asking, keys)
  <2>1. \A s : Safe(SelectedButton("confirm:sift", s))
    BY SelectedFields, ValuesOfGames DEF Safe, SoundButton, Confirming, PersonValues
  <2>2. SafeKeys(keys)
    BY <2>1, GameKeySafe DEF SafeKeys
  <2>3. /\ DOMAIN row = RowFields /\ row.state = "REMOVE_WAITING_CONFIRM" /\ row.game = g /\ row.role = "none"
        /\ row.marks = {} /\ row.buttons = keys
    BY IdleRowFields DEF RowFields
  <2> HIDE DEF row, keys
  <2>4. OwnRow(a, row)
    BY <2>2, <2>3, AskedRow DEF Asked, Role
  <2>5. OwnRow(a, [asking EXCEPT !.buttons = keys])
    BY <2>4 DEF row
  <2> HIDE DEF asking
  <2> QED
    BY <1>2, <2>5, SayDecided
<1> QED
  BY <1>1, <1>2 DEF AskSift

LEMMA MastersMenuDecided ==
    ASSUME NEW a, Ready(a), Settled(a), NEW g \in Games, MastersMenu(a, g)
    PROVE  Decided(a)
<1>1. \A v \in {"master:list", "master:add", "master:remove", "master:self-add"} : Safe(ForGame(v, g))
  BY SafeButtons DEF PersonValues
<1>2. SafeKeys({ForGame("master:list", g)}
             \cup {ForGame(v, g) : v \in IF Manages(a, g) THEN {"master:add", "master:remove"} ELSE {}}
             \cup {ForGame(v, g) : v \in IF IsAdmin(a) /\ ~IsLeader(a, g)
                                         THEN {"master:self-add"} ELSE {}})
  BY <1>1 DEF SafeKeys
<1>3. SafeKeys({})
  BY PlainKeySafe
<1> QED
  BY <1>2, <1>3, LeaveDecided DEF MastersMenu

(***************************************************************************)
(* The buttons of a game                                                   *)
(***************************************************************************)
LEMMA ActionDecided ==
    ASSUME NEW a, Ready(a), ~AtWork(a), NEW v, NEW g \in Games, Manages(a, g) \/ v \in ViewerActions,
           ActiveAction(a, v, g)
    PROVE  Decided(a)
<1>1. Settled(a)
  BY QuietSettles
<1>2. ASSUME v \in Menus, Leave(a, GameButtons(Menu(v, a, g), g) \cup {ForGame("ag:manage", g)}) PROVE Decided(a)
  BY <1>1, <1>2, LeaveDecided, KeyboardsAreSafe
<1>3. ASSUME v \in Schedules, ScheduleAction(a, v, g) PROVE Decided(a)
  <2>1. Manages(a, g)
    BY <1>3 DEF Schedules, ViewerActions
  <2> QED
    BY <1>3, <2>1, ScheduleDecided
<1>4. ASSUME v \in DOMAIN Opening, Ask(a, Opening[v], g) PROVE Decided(a)
  <2>1. Opening[v] \in Asked
    BY <1>4 DEF Opening, Asked, EditStates, Following
  <2> QED
    BY <1>1, <1>4, <2>1, AskDecided
<1>5. ASSUME NEW state \in {"QUESTION_EDIT_MENU", "UPDATE_PLAYER_AMOUNT"}, Ask(a, state, g) PROVE Decided(a)
  BY <1>1, <1>5, AskDecided DEF Asked, EditStates
<1>6. ASSUME v \in DOMAIN Lists, ShowList(a, Lists[v], g) PROVE Decided(a)
  <2>1. Lists[v] \in Modes
    BY <1>6 DEF Lists, Modes
  <2> QED
    BY <1>1, <1>6, <2>1, ListDecided
<1>7. ASSUME AskSift(a, g) \/ MastersMenu(a, g) PROVE Decided(a)
  BY <1>1, <1>7, SiftAsked, MastersMenuDecided
<1>8. ASSUME NEW w \in {"ag:edit", "ag:notifications", "ag:files"}, Leave(a, {ForGame(w, g)}) PROVE Decided(a)
  <2>1. SafeKeys({ForGame(w, g)})
    BY GameKeySafe
  <2> QED
    BY <1>1, <1>8, <2>1, LeaveDecided
<1>9. ASSUME NEW op \in {"remind", "tables"}, NEW w \in {"ag:notifications", "ag:files"},
             Publishes(a, op, g, NoOne, {ForGame(w, g)})
      PROVE  Decided(a)
  <2>1. SafeKeys({ForGame(w, g)})
    BY GameKeySafe
  <2> QED
    BY <1>9, <2>1, PublishDecided
<1> QED
  BY <1>2, <1>3, <1>4, <1>5, <1>6, <1>7, <1>8, <1>9 DEF ActiveAction

LEMMA GameActionDecided ==
    ASSUME NEW a, Ready(a), ~AtWork(a), Pressed(a).value \in GameActions, GameAction(a)
    PROVE  Decided(a)
<1> DEFINE v == Pressed(a).value
           g == Pressed(a).game
<1>1. g \in Games
  BY ReadyMeans DEF SoundButton, GameValues
<1>2. Settled(a)
  BY QuietSettles
<1> HIDE DEF v, g
<1>3. CASE Refuse(a)
  BY <1>3, RefuseDecided
<1>4. CASE Leave(a, {Plain("games")})
  BY <1>2, <1>4, LeaveDecided, PlainKeySafe
<1>5. CASE Leave(a, ManageButtons(a, g))
  BY <1>1, <1>2, <1>5, LeaveDecided, KeyboardsAreSafe
<1>6. CASE ArchiveAction(a, v, g)
  BY <1>1, <1>6, ArchiveDecided
<1>7. CASE (Manages(a, g) \/ (ViewsUnassigned(a) /\ v \in ViewerActions)) /\ ActiveAction(a, v, g)
  BY <1>1, <1>7, ActionDecided
<1> QED
  BY <1>3, <1>4, <1>5, <1>6, <1>7 DEF GameAction, v, g

\* _statistics_action
LEMMA StatisticsDecided ==
    ASSUME NEW a, Ready(a), ~AtWork(a), Pressed(a).value \in {"stats:game", "stats:confirm"}, StatisticsAction(a)
    PROVE  Decided(a)
<1> DEFINE g == Pressed(a).game
<1>1. g \in Games
  BY ReadyMeans DEF SoundButton, GameValues
<1>2. Settled(a)
  BY QuietSettles
<1> HIDE DEF g
<1>3. SafeKeys({ForGame("stats:confirm", g), ForGame("ag:manage", g)}) /\ SafeKeys({ForGame("ag:manage", g)})
  BY <1>1, GameKeySafe DEF SafeKeys
<1>4. CASE Object(a)
  BY <1>4, ObjectDecided
<1>5. CASE \/ Leave(a, {Plain("games")}) \/ Leave(a, {ForGame("ag:manage", g)})
           \/ Leave(a, {ForGame("stats:confirm", g), ForGame("ag:manage", g)})
  BY <1>2, <1>3, <1>5, LeaveDecided, PlainKeySafe
<1>6. CASE Publishes(a, "statistics", g, NoOne, {ForGame("ag:manage", g)})
  BY <1>1, <1>3, <1>6, PublishDecided
<1> QED
  BY <1>4, <1>5, <1>6 DEF StatisticsAction, g

(***************************************************************************)
(* Dialogues that change nobody's rights                                   *)
(***************************************************************************)
\* A question about a game, or about a profile, has one.
Subject(row) ==
    /\ row.state \in EventBound \cup DOMAIN Following \cup DOMAIN Sending
                       \cup {"QUESTION_EDIT_MENU", "QUESTION_EDIT_VALUE"} => row.game \in Games
    /\ row.state \in {"MODERATOR_REMOVE_CONFIRM", "EVENT_LEADER_PROMOTE_CONFIRM",
                     "EVENT_LEADER_REMOVE_CONFIRM"} => row.who \in Profiles

\* An answer in a dialogue that goes on.
LEMMA SayOwn ==
    ASSUME NEW a, Ready(a), Settled(a), NEW row, NEW buttons, Say(a, row, buttons), DOMAIN row = RowFields,
           row.game \in Optional, row.role \in Role \ {"admin"}, row.marks \subseteq rows[a].marks,
           SafeKeys(buttons), Subject(row),
           row.state \in {"GAMEMASTER_PROFILE", "EVENT_LEADER_PROFILE"} =>
             \A b \in buttons : b.who \in Profiles \cup {NoOne},
           HadRole(row),
           Holding(row) => Holding(rows[a]) /\ rows[a].token = row.token /\ rows[a].game = row.game
    PROVE  Decided(a)
<1>1. PICK r : r = [row EXCEPT !.buttons = buttons]
  OBVIOUS
<1>2. /\ DOMAIN r = RowFields /\ r.state = row.state /\ r.game = row.game /\ r.who = row.who /\ r.role = row.role
      /\ r.token = row.token /\ r.marks = row.marks /\ r.buttons = buttons
  BY <1>1 DEF RowFields
<1>3. SoundRow(r) /\ HadRole(r)
  BY <1>2 DEF Subject, SoundRow, HadRole
<1>4. OwnRow(a, r)
  BY <1>2, <1>3, SafeRow DEF Holding
<1> QED
  BY <1>1, <1>4, SayDecided

\* An answer that leaves the dialogue where it is.
LEMMA SayHere ==
    ASSUME NEW a, Ready(a), Settled(a), NEW buttons, SafeKeys(buttons), Say(a, rows[a], buttons),
           rows[a].state \in {"GAMEMASTER_PROFILE", "EVENT_LEADER_PROFILE"} =>
             \A b \in buttons : b.who \in Profiles \cup {NoOne}
    PROVE  Decided(a)
  BY ReadyMeans, SayOwn DEF IsRow, Subject, SoundRow

\* Dialogues of the roles of the bot, of no game.
LEMMA RoleStates ==
    ASSUME NEW row, row.state \in {"MODERATOR_REMOVE", "MODERATOR_LIST", "GAMEMASTER_PLATFORM"}
    PROVE  Subject(row) /\ HadRole(row) /\ ~Holding(row)
  BY DEF Subject, HadRole, Holding, EventBound, EditStates, Scheduling, LeaderStates, RosterStates, Following, Sending

LEMMA ModeratorsDecided ==
    ASSUME NEW a, Ready(a), Settled(a), NEW mode, ShowModerators(a, mode)
    PROVE  Decided(a)
<1>1. CASE Object(a)
  BY <1>1, ObjectDecided
<1>2. ASSUME NEW state \in {"MODERATOR_REMOVE", "MODERATOR_LIST"}, NEW buttons, SafeKeys(buttons),
             Say(a, [IdleRow EXCEPT !.state = state], buttons)
      PROVE  Decided(a)
  <2>1. PICK row : row = [IdleRow EXCEPT !.state = state]
    OBVIOUS
  <2>2. /\ DOMAIN row = RowFields /\ row.state = state /\ row.game = NoGame /\ row.role = "none" /\ row.marks = {}
    BY <2>1, IdleRowFields DEF RowFields
  <2>3. Subject(row) /\ HadRole(row) /\ ~Holding(row)
    BY <2>2, RoleStates
  <2> QED
    BY <1>2, <2>1, <2>2, <2>3, SayOwn DEF Optional, Role
<1>3. SafeKeys({ForPerson("mod:remove-pick", NoGame, p) : p \in Removable} \cup {Plain("mod:menu")})
  <2>1. \A p \in Removable : Safe(ForPerson("mod:remove-pick", NoGame, p))
    BY SafeButtons, ValuesOfGames DEF Removable
  <2> QED
    BY <2>1, PlainSafe DEF SafeKeys
<1>4. SafeKeys({ForPerson("mod:view", NoGame, p) : p \in {q \in Profiles : RoleOf(q) # "none"}} \cup {Plain("mod:menu")})
  <2>1. \A p \in Profiles : Safe(ForPerson("mod:view", NoGame, p))
    BY SafeButtons, ValuesOfGames
  <2> QED
    BY <2>1, PlainSafe DEF SafeKeys
<1> QED
  BY <1>1, <1>2, <1>3, <1>4 DEF ShowModerators

LEMMA StartGrantDecided ==
    ASSUME NEW a, Ready(a), Settled(a), StartGrant(a)
    PROVE  Decided(a)
<1>1. CASE Object(a)
  BY <1>1, ObjectDecided
<1>2. ASSUME NEW r \in Assignable,
             Say(a, [IdleRow EXCEPT !.state = "GAMEMASTER_PLATFORM", !.role = r], {Plain("admin:gamemaster")})
      PROVE  Decided(a)
  <2>1. PICK row : row = [IdleRow EXCEPT !.state = "GAMEMASTER_PLATFORM", !.role = r]
    OBVIOUS
  <2>2. /\ DOMAIN row = RowFields /\ row.state = "GAMEMASTER_PLATFORM" /\ row.game = NoGame /\ row.role = r
        /\ row.marks = {}
    BY <2>1, IdleRowFields DEF RowFields
  <2>3. Subject(row) /\ HadRole(row) /\ ~Holding(row)
    BY <2>2, RoleStates
  <2>4. SafeKeys({Plain("admin:gamemaster")})
    BY PlainSafe DEF SafeKeys
  <2>5. row.role \in Role \ {"admin"} /\ row.game \in Optional
    BY <2>2 DEF Assignable, Optional
  <2> QED
    BY <1>2, <2>1, <2>2, <2>3, <2>4, <2>5, SayOwn
<1> QED
  BY <1>1, <1>2 DEF StartGrant

\* The labels of the menu.
LEMMA StartDecided ==
    ASSUME NEW a, Ready(a), Settled(a), AdminStart(a)
    PROVE  Decided(a)
<1>1. CASE Object(a)
  BY <1>1, ObjectDecided
<1>2. CASE StartGrant(a)
  BY <1>2, StartGrantDecided
<1>3. CASE ShowModerators(a, "remove") \/ ShowModerators(a, "list")
  BY <1>3, ModeratorsDecided
<1>4. \A S \in SUBSET Games : SafeKeys({ForGame("ag:manage", g) : g \in S})
  BY SafeButtons DEF SafeKeys, PersonValues
<1>5. SafeKeys(IF IsAdmin(a) THEN {Plain("archived")} ELSE {})
  BY PlainSafe DEF SafeKeys
<1>6. ASSUME NEW S \in SUBSET Games,
             \/ Leave(a, {ForGame("ag:manage", g) : g \in S})
             \/ Leave(a, {ForGame("ag:manage", g) : g \in S} \cup (IF IsAdmin(a) THEN {Plain("archived")} ELSE {}))
      PROVE  Decided(a)
  <2>1. SafeKeys({ForGame("ag:manage", g) : g \in S})
    BY <1>4
  <2>2. SafeKeys({ForGame("ag:manage", g) : g \in S} \cup (IF IsAdmin(a) THEN {Plain("archived")} ELSE {}))
    BY <1>5, <2>1, SafeUnion
  <2> QED
    BY <1>6, <2>1, <2>2, LeaveDecided
<1>7. CASE Leave(a, {ForGame("ag:manage", g) : g \in {g \in Games : games[g].exists /\ games[g].archived = TRUE}})
  BY <1>6, <1>7
<1>8. CASE Leave(a, {ForGame("ag:manage", g) : g \in {g \in Games : games[g].exists /\ games[g].archived = FALSE}}
                         \cup (IF IsAdmin(a) THEN {Plain("archived")} ELSE {}))
  BY <1>6, <1>8
<1> QED
  BY <1>1, <1>2, <1>3, <1>7, <1>8 DEF AdminStart

\* Rights are checked before an answer is.
LEMMA AnswersManage ==
    ASSUME NEW a, ~RightsGone(a), rows[a].state \in EventBound \ ({"DELETE_NAME", "EVENT_LEADER_REMOVE_CONFIRM"} \cup ViewOnly)
    PROVE  Manages(a, rows[a].game)
  BY DEF RightsGone, DeletesArchived, RemovingSelf

LEMMA FormDecided ==
    ASSUME NEW a, Ready(a), ~AtWork(a), ~RightsGone(a), FormStep(a)
    PROVE  Decided(a)
<1> DEFINE state == rows[a].state
           g == rows[a].game
<1>1. Settled(a)
  BY QuietSettles
<1>2. state \in DOMAIN Following \cup DOMAIN Ordering \cup DOMAIN Writing
  BY DEF FormStep
<1>3. state \in Asked
  BY <1>2 DEF Following, Ordering, Writing, Asked, EditStates, Scheduling
<1>4. g \in Games
  BY <1>2, ReadyMeans DEF SoundRow, Following, Ordering, Writing, EventBound, EditStates, Scheduling
<1>5. state \in DOMAIN Following => Following[state] \in Asked
  BY DEF Following, Asked, EditStates, Scheduling, Sending
<1>6. state \in DOMAIN Ordering => Ordering[state] \notin {"remove", "promote"}
  BY DEF Ordering
<1>7. state \in DOMAIN Writing => Manages(a, g)
  BY AnswersManage DEF Writing, EventBound, EditStates, Scheduling, ViewOnly
<1>8. SafeKeys({ForGame("ag:edit", g)}) /\ SafeKeys(ScheduleButtons(g)) /\ SafeKeys({ForGame("ag:manage", g)})
  BY <1>4, GameKeySafe, KeyboardsAreSafe
<1>9. FormStep(a) =>
        \/ Ask(a, state, g)
        \/ state \in DOMAIN Following /\ Ask(a, Following[state], g)
        \/ state \in DOMAIN Ordering /\ Publishes(a, Ordering[state], g, NoOne, {ForGame("ag:edit", g)})
        \/ Leave(a, {Plain("games")}) \/ Leave(a, ScheduleButtons(g))
        \/ state \in DOMAIN Writing /\ Writes(a, Writing[state], g, {ForGame("ag:manage", g)})
  BY DEF FormStep
<1> HIDE DEF state, g
<1>10. ASSUME NEW s \in Asked, Ask(a, s, g) PROVE Decided(a)
  BY <1>1, <1>4, <1>10, AskDecided
<1>11. CASE state \in DOMAIN Ordering /\ Publishes(a, Ordering[state], g, NoOne, {ForGame("ag:edit", g)})
  BY <1>4, <1>6, <1>8, <1>11, PublishDecided
<1>12. CASE Leave(a, {Plain("games")}) \/ Leave(a, ScheduleButtons(g))
  BY <1>1, <1>8, <1>12, LeaveDecided, PlainKeySafe
<1>13. CASE state \in DOMAIN Writing /\ Writes(a, Writing[state], g, {ForGame("ag:manage", g)})
  BY <1>4, <1>7, <1>8, <1>13, WriteDecided
<1> QED
  BY <1>3, <1>5, <1>9, <1>10, <1>11, <1>12, <1>13

LEMMA ChoiceDecided ==
    ASSUME NEW a, Ready(a), ~AtWork(a), ChoiceStep(a)
    PROVE  Decided(a)
<1> DEFINE state == rows[a].state
           g == rows[a].game
           v == Pressed(a).value
<1>1. Settled(a)
  BY QuietSettles
<1>2. state \in {"STATUS_SELECT", "DELETE_NAME"} \cup DOMAIN Sending
  BY DEF ChoiceStep
<1>3. state \in Asked /\ "CONFIRMATION_DEADLINE" \in Asked
  BY <1>2 DEF Asked, EditStates
<1>4. g \in Games
  BY <1>2, ReadyMeans DEF SoundRow, EventBound, EditStates
<1>5. /\ v \in DOMAIN StatusOrders => StatusOrders[v] \notin {"remove", "promote"}
      /\ state \in DOMAIN Sending => Sending[state] \notin {"remove", "promote"}
  BY DEF StatusOrders, Sending
<1>6. /\ SafeKeys({ForGame("ag:edit", g)}) /\ SafeKeys({ForGame("ag:notifications", g)})
      /\ SafeKeys({Plain("games"), Plain("archived")})
  BY <1>4, GameKeySafe, PlainKeySafe
<1>7. ChoiceStep(a) =>
        \/ Ask(a, state, g) \/ Ask(a, "CONFIRMATION_DEADLINE", g)
        \/ v \in DOMAIN StatusOrders /\ Publishes(a, StatusOrders[v], g, NoOne, {ForGame("ag:edit", g)})
        \/ state \in DOMAIN Sending /\ Publishes(a, Sending[state], g, NoOne, {ForGame("ag:notifications", g)})
        \/ \E op \in {"delete", "archive"} : Publishes(a, op, g, NoOne, {Plain("games"), Plain("archived")})
  BY DEF ChoiceStep
<1> HIDE DEF state, g, v
<1>8. ASSUME NEW s \in Asked, Ask(a, s, g) PROVE Decided(a)
  BY <1>1, <1>4, <1>8, AskDecided
<1>9. ASSUME NEW op, op \notin {"remove", "promote"}, NEW keys, SafeKeys(keys), Publishes(a, op, g, NoOne, keys)
      PROVE  Decided(a)
  BY <1>4, <1>9, PublishDecided
<1> QED
  BY <1>3, <1>5, <1>6, <1>7, <1>8, <1>9

LEMMA QuestionStepDecided ==
    ASSUME NEW a, Ready(a), ~AtWork(a), QuestionStep(a)
    PROVE  Decided(a)
<1> DEFINE g == rows[a].game
<1>1. Settled(a)
  BY QuietSettles
<1>2. g \in Games
  BY ReadyMeans DEF SoundRow, QuestionStep
<1>3. "QUESTION_EDIT_MENU" \in Asked /\ "QUESTION_EDIT_VALUE" \in Asked
  BY DEF Asked
<1>4. SafeKeys({ForGame("ag:edit", g)}) /\ SafeKeys({})
  BY <1>2, GameKeySafe, PlainKeySafe
<1>5. QuestionStep(a) =>
        \/ Leave(a, {}) \/ Refuse(a)
        \/ \E s \in {"QUESTION_EDIT_MENU", "QUESTION_EDIT_VALUE"} : Ask(a, s, g)
        \/ Publishes(a, "question", g, NoOne, {ForGame("ag:edit", g)})
  BY DEF QuestionStep
<1> HIDE DEF g
<1>6. CASE Leave(a, {})
  BY <1>1, <1>4, <1>6, LeaveDecided
<1>7. CASE Refuse(a)
  BY <1>7, RefuseDecided
<1>8. ASSUME NEW s \in Asked, Ask(a, s, g) PROVE Decided(a)
  BY <1>1, <1>2, <1>8, AskDecided
<1>9. CASE Publishes(a, "question", g, NoOne, {ForGame("ag:edit", g)})
  BY <1>2, <1>4, <1>9, PublishDecided
<1> QED
  BY <1>3, <1>5, <1>6, <1>7, <1>8, <1>9

(***************************************************************************)
(* Dialogues about the players of a game                                   *)
(***************************************************************************)
LEMMA SameValueFields ==
    ASSUME NEW b, NEW c, IsButton(b), IsButton(c), SameValue(b, c)
    PROVE  b.value = c.value /\ b.game = c.game /\ b.who = c.who /\ b.token = c.token
<1>1. PICK x : x = [b EXCEPT !.about = NoAbout]
  OBVIOUS
<1>2. x = [c EXCEPT !.about = NoAbout]
  BY <1>1 DEF SameValue
<1>3. x.value = b.value /\ x.game = b.game /\ x.who = b.who /\ x.token = b.token
  BY <1>1 DEF IsButton, ButtonFields
<1>4. x.value = c.value /\ x.game = c.game /\ x.who = c.who /\ x.token = c.token
  BY <1>2 DEF IsButton, ButtonFields
<1> QED
  BY <1>3, <1>4

\* The question about a player of the list.
LEMMA QuestionDecided ==
    ASSUME NEW a, Ready(a), Settled(a), NEW mode \in {"remove", "promote"}, NEW row, DOMAIN row = RowFields,
           Holding(rows[a]), row.state \in {"REMOVE_CONFIRM", "RESERVE_PROMOTION_CONFIRM"},
           rows[a].game \in Games, row.game = rows[a].game, row.token = rows[a].token, row.role = rows[a].role,
           row.marks = rows[a].marks, Question(a, mode, row)
    PROVE  Decided(a)
<1> DEFINE verb == ConfirmValue(mode)
           chosen == SelectedButton(verb, row)
           back == IF mode = "remove" THEN ForGame("ag:remove", row.game)
                   ELSE [Plain("page:promote") EXCEPT !.token = row.token]
           keys == {chosen, back}
<1>1. PICK r : r = [row EXCEPT !.buttons = keys]
  OBVIOUS
<1>2. /\ DOMAIN r = RowFields /\ r.state = row.state /\ r.game = row.game /\ r.role = row.role
      /\ r.token = row.token /\ r.marks = row.marks /\ r.buttons = keys
  BY <1>1 DEF RowFields
<1>3. /\ verb \in {"confirm:remove", "confirm:promote"} /\ IsButton(chosen) /\ chosen.value = verb
      /\ chosen.token = row.token /\ chosen.about.game = row.game /\ chosen.about.who = chosen.who
  BY SelectedFields DEF ConfirmValue
<1>4. Safe(back)
  <2>1. CASE mode = "remove"
    BY <2>1, SafeButtons DEF PersonValues
  <2>2. CASE mode # "remove"
    <3>1. DOMAIN [Plain("page:promote") EXCEPT !.token = row.token] = ButtonFields
          /\ [Plain("page:promote") EXCEPT !.token = row.token].value = "page:promote"
          /\ [Plain("page:promote") EXCEPT !.token = row.token].about = [game |-> NoGame, who |-> NoOne]
      BY DEF Plain, ButtonFields, NoAbout
    <3>2. PICK b : b = back
      OBVIOUS
    <3>3. DOMAIN b = ButtonFields /\ b.value = "page:promote" /\ b.about = [game |-> NoGame, who |-> NoOne]
      BY <2>2, <3>1, <3>2
    <3>4. b.about = [game |-> b.about.game, who |-> b.about.who]
      BY <3>3
    <3>5. "page:promote" \notin GameValues \cup PersonValues
      BY ValuesOfGames DEF PersonValues
    <3>6. Safe(b)
      BY <3>3, <3>4, <3>5 DEF Safe, IsButton, SoundButton, Confirming
    <3> QED
      BY <3>2, <3>6
  <2> QED
    BY <2>1, <2>2
<1>5. Say(a, row, keys)
  BY DEF Question
<1> HIDE DEF verb, chosen, back
<1>6. SoundButton(chosen)
  BY <1>3, ValuesOfGames DEF SoundButton, PersonValues
<1>7. SoundRow(r) /\ HadRole(r) /\ IsRow(r)
  <2>1. SoundRow(r) /\ HadRole(r)
    BY <1>2 DEF SoundRow, HadRole
  <2>2. rows[a].role \in Role \ {"admin"}
    BY ReadyMeans DEF IsRow
  <2>3. \A b \in r.buttons : IsButton(b) /\ SoundButton(b)
    BY <1>2, <1>3, <1>4, <1>6 DEF Safe
  <2> QED
    BY <1>2, <2>1, <2>2, <2>3 DEF IsRow, Optional
<1>8. OwnRow(a, r)
  <2>1. turn[a] = FreeTurn /\ OwnRow(a, rows[a])
    BY ReadyMeans
  <2>2. \A b \in r.buttons : Confirming(b) => b.token = rows[a].token /\ b.about.game = rows[a].game
    BY <1>2, <1>3, <1>4 DEF Safe
  <2> QED
    BY <1>2, <1>7, <2>1, <2>2 DEF OwnRow
<1> QED
  BY <1>1, <1>5, <1>8, SayDecided

\* A confirmation of the list in hand was about that list and that player.
LEMMA ConfirmedIsMeant ==
    ASSUME NEW a, Ready(a), Holding(rows[a]), NEW verb \in {"confirm:remove", "confirm:promote"},
           SameValue(Pressed(a), SelectedButton(verb, rows[a]))
    PROVE  Pressed(a).about = [game |-> rows[a].game, who |-> rows[a].who]
<1> DEFINE b == Pressed(a)
<1>1. IsButton(b) /\ SoundButton(b) /\ MessageOK(a) /\ ListsOK(a) /\ pending[a] # {}
  BY ReadyMeans
<1>2. b.value = verb /\ b.token = rows[a].token /\ b.who = rows[a].who
  BY <1>1, SelectedFields, SameValueFields
<1>3. Confirming(b)
  BY <1>2 DEF Confirming
<1>4. b \in keyboard[a]
  BY <1>1, <1>3 DEF MessageOK, Pressed
<1>5. b.about.game = rows[a].game
  BY <1>1, <1>2, <1>3, <1>4 DEF ListsOK, SameList, Buttons
<1>6. b.about.who = b.who
  BY <1>1, <1>3 DEF SoundButton
<1> QED
  BY <1>1, <1>2, <1>5, <1>6 DEF IsButton

LEMMA PickDecided ==
    ASSUME NEW a, Ready(a), ~AtWork(a), NEW mode \in Modes, rows[a].state = PickState(mode), PickStep(a, mode)
    PROVE  Decided(a)
<1> DEFINE row == rows[a]
           g == rows[a].game
           p == Pressed(a).who
           asking == [rows[a] EXCEPT !.state = ConfirmState(mode), !.who = p]
<1>1. Settled(a) /\ IsRow(rows[a])
  BY QuietSettles, ReadyMeans
<1>2. rows[a].state \in {"REMOVE_PICK", "WAITING_PICK", "PROFILES_PICK", "RESERVE_PROMOTION_PICK"}
  BY DEF Modes, PickState
<1>3. g \in Games
  BY <1>2, ReadyMeans DEF SoundRow, EventBound, RosterStates
<1>4. PickStep(a, mode) =>
        \/ Leave(a, {Plain("games")}) \/ ShowList(a, mode, g)
        \/ mode \in {"remove", "promote"} /\ Question(a, mode, asking)
        \/ \E v \in {"ag:waiting", "ag:profiles"} : Say(a, rows[a], GameButtons({v, "ag:players"}, g))
  BY DEF PickStep
<1>5. CASE Leave(a, {Plain("games")})
  BY <1>1, <1>5, LeaveDecided, PlainKeySafe
<1>6. CASE ShowList(a, mode, g)
  BY <1>1, <1>3, <1>6, ListDecided
<1>7. CASE mode \in {"remove", "promote"} /\ Question(a, mode, asking)
  <2>1. Holding(rows[a])
    BY <1>7 DEF Holding, PickState
  <2>2. PICK r : r = asking
    OBVIOUS
  <2>3. /\ DOMAIN r = RowFields /\ r.state = ConfirmState(mode) /\ r.game = g /\ r.token = rows[a].token
        /\ r.role = rows[a].role /\ r.marks = rows[a].marks
    BY <1>1, <2>2 DEF IsRow, RowFields
  <2>4. r.state \in {"REMOVE_CONFIRM", "RESERVE_PROMOTION_CONFIRM"}
    BY <2>3 DEF ConfirmState
  <2>5. Question(a, mode, r)
    BY <1>7, <2>2
  <2> QED
    BY <1>1, <1>3, <1>7, <2>1, <2>3, <2>4, <2>5, QuestionDecided
<1>8. ASSUME NEW v \in {"ag:waiting", "ag:profiles"}, Say(a, rows[a], GameButtons({v, "ag:players"}, g))
      PROVE  Decided(a)
  <2>1. SafeKeys(GameButtons({v, "ag:players"}, g))
    BY <1>3, SafeGameButtons
  <2> QED
    BY <1>1, <1>2, <1>8, <2>1, SayHere
<1> QED
  BY <1>4, <1>5, <1>6, <1>7, <1>8

LEMMA ConfirmDecided ==
    ASSUME NEW a, Ready(a), ~AtWork(a), NEW mode \in {"remove", "promote"}, rows[a].state = ConfirmState(mode),
           ConfirmStep(a, mode)
    PROVE  Decided(a)
<1> DEFINE g == rows[a].game
           p == rows[a].who
<1>1. Settled(a) /\ IsRow(rows[a])
  BY QuietSettles, ReadyMeans
<1>2. rows[a].state \in {"REMOVE_CONFIRM", "RESERVE_PROMOTION_CONFIRM"} /\ Holding(rows[a])
  BY DEF ConfirmState, Holding
<1>3. g \in Games
  BY <1>2, ReadyMeans DEF SoundRow, EventBound, RosterStates
<1>4. ConfirmStep(a, mode) =>
        \/ Leave(a, {Plain("games")}) \/ ShowList(a, mode, g) \/ Question(a, mode, rows[a])
        \/ /\ SameValue(Pressed(a), SelectedButton(ConfirmValue(mode), rows[a]))
           /\ Publishes(a, mode, g, p, {ForGame("ag:players", g)})
  BY DEF ConfirmStep
<1>5. CASE Leave(a, {Plain("games")})
  BY <1>1, <1>5, LeaveDecided, PlainKeySafe
<1>6. CASE ShowList(a, mode, g)
  BY <1>1, <1>3, <1>6, ListDecided DEF Modes
<1>7. CASE Question(a, mode, rows[a])
  BY <1>1, <1>2, <1>3, <1>7, QuestionDecided DEF IsRow
<1>8. CASE /\ SameValue(Pressed(a), SelectedButton(ConfirmValue(mode), rows[a]))
           /\ Publishes(a, mode, g, p, {ForGame("ag:players", g)})
  <2>1. ConfirmValue(mode) \in {"confirm:remove", "confirm:promote"}
    BY DEF ConfirmValue
  <2>2. Pressed(a).about = [game |-> g, who |-> p]
    BY <1>2, <1>8, <2>1, ConfirmedIsMeant
  <2>3. SafeKeys({ForGame("ag:players", g)})
    BY <1>3, GameKeySafe
  <2> QED
    BY <1>3, <1>8, <2>2, <2>3, PublishDecided
<1> QED
  BY <1>4, <1>5, <1>6, <1>7, <1>8

LEMMA SiftDecided ==
    ASSUME NEW a, Ready(a), ~AtWork(a), rows[a].state = "REMOVE_WAITING_CONFIRM", SiftStep(a)
    PROVE  Decided(a)
<1> DEFINE g == rows[a].game
<1>1. Settled(a)
  BY QuietSettles
<1>2. g \in Games
  BY ReadyMeans DEF SoundRow, EventBound, RosterStates
<1>3. SafeKeys({ForGame("ag:players", g)})
  BY <1>2, GameKeySafe
<1>4. SiftStep(a) =>
        \/ Leave(a, {Plain("games")}) \/ AskSift(a, g)
        \/ Publishes(a, "sift", g, NoOne, {ForGame("ag:players", g)})
  BY DEF SiftStep
<1>5. CASE Leave(a, {Plain("games")})
  BY <1>1, <1>5, LeaveDecided, PlainKeySafe
<1>6. CASE AskSift(a, g)
  BY <1>1, <1>2, <1>6, SiftAsked
<1>7. CASE Publishes(a, "sift", g, NoOne, {ForGame("ag:players", g)})
  BY <1>2, <1>3, <1>7, PublishDecided
<1> QED
  BY <1>4, <1>5, <1>6, <1>7

LEMMA RosterDecided ==
    ASSUME NEW a, Ready(a), ~AtWork(a), RosterStep(a)
    PROVE  Decided(a)
<1>1. ASSUME NEW mode \in Modes, rows[a].state = PickState(mode), PickStep(a, mode) PROVE Decided(a)
  BY <1>1, PickDecided
<1>2. ASSUME NEW mode \in {"remove", "promote"}, rows[a].state = ConfirmState(mode), ConfirmStep(a, mode)
      PROVE  Decided(a)
  BY <1>2, ConfirmDecided
<1>3. CASE rows[a].state = "REMOVE_WAITING_CONFIRM" /\ SiftStep(a)
  BY <1>3, SiftDecided
<1> QED
  BY <1>1, <1>2, <1>3 DEF RosterStep, Modes

(***************************************************************************)
(* Plans of several steps                                                  *)
(***************************************************************************)
LEMMA TwoAndOne ==
    ASSUME NEW x, NEW y, NEW z
    PROVE  <<x, y>> \o <<z>> = <<x, y, z>>
<1> DEFINE T == {x, y, z}
           s == <<x, y>> \o <<z>>
<1>1. /\ <<x, y>> \in Seq(T) /\ <<z>> \in Seq(T) /\ <<x, y, z>> \in Seq(T)
      /\ Len(<<x, y>>) = 2 /\ Len(<<z>>) = 1 /\ Len(<<x, y, z>>) = 3
  OBVIOUS
<1>2. s \in Seq(T) /\ Len(s) = 3 /\ \A i \in 1 .. 3 : s[i] = IF i <= 2 THEN <<x, y>>[i] ELSE <<z>>[i - 2]
  BY <1>1, ConcatProperties
<1> HIDE DEF s
<1>3. s[1] = x /\ s[2] = y /\ s[3] = z
  BY <1>2
<1>4. s = <<x, y, z>>
  BY <1>1, <1>2, <1>3, SeqEqual
<1> QED
  BY <1>4 DEF s

LEMMA ThenTold ==
    ASSUME NEW S, NEW s \in Seq(S), NEW x, NEW y, NEW z
    PROVE  (s \o <<x, y>>) \o <<z>> = s \o <<x, y, z>>
<1> DEFINE T == S \cup {x, y, z}
<1>1. s \in Seq(T) /\ <<x, y>> \in Seq(T) /\ <<z>> \in Seq(T)
  OBVIOUS
<1>2. (s \o <<x, y>>) \o <<z>> = s \o (<<x, y>> \o <<z>>)
  BY <1>1, ConcatAssociative
<1> QED
  BY <1>2, TwoAndOne

\* The notice of a request, after a plan or alone.
LEMMA ToldLast ==
    ASSUME NEW kind, NEW g, NEW p
    PROVE  /\ Notice(kind, g, p) \o <<Do("clear", NoGame, NoOne, "")>> = Telling(kind, g, p)
           /\ \A S : \A s \in Seq(S) :
                (s \o Notice(kind, g, p)) \o <<Do("clear", NoGame, NoOne, "")>> = s \o Telling(kind, g, p)
<1> DEFINE x == Do("tell", g, p, kind)
           y == Do("claim", g, p, kind)
           z == Do("clear", NoGame, NoOne, "")
<1>1. Notice(kind, g, p) = <<x, y>> /\ Telling(kind, g, p) = <<x, y, z>>
  BY DEF Notice, Telling
<1> HIDE DEF x, y, z
<1>2. <<x, y>> \o <<z>> = <<x, y, z>>
  BY TwoAndOne
<1>3. \A S : \A s \in Seq(S) : (s \o <<x, y>>) \o <<z>> = s \o <<x, y, z>>
  BY ThenTold
<1> QED
  BY <1>1, <1>2, <1>3 DEF z

\* Some steps, a check, and the notice.
LEMMA ToldNow ==
    ASSUME NEW S, NEW s \in Seq(S), NEW kind, NEW g, NEW p
    PROVE  (s \o Notice(kind, g, p)) \o Ending = s \o Telling(kind, g, p)
  BY ToldLast DEF Ending

LEMMA TellingIsSeq ==
    ASSUME NEW kind, NEW g, NEW p
    PROVE  \E T : Telling(kind, g, p) \in Seq(T)
<1>1. PICK x, y, z : x = Do("tell", g, p, kind) /\ y = Do("claim", g, p, kind) /\ z = Do("clear", NoGame, NoOne, "")
  OBVIOUS
<1>2. Telling(kind, g, p) = <<x, y, z>>
  BY <1>1 DEF Telling
<1>3. <<x, y, z>> \in Seq({x, y, z})
  OBVIOUS
<1> QED
  BY <1>2, <1>3

LEMMA TellingAlone ==
    ASSUME NEW kind, NEW g, NEW p
    PROVE  <<>> \o Telling(kind, g, p) = Telling(kind, g, p)
  BY TellingIsSeq, ConcatEmptySeq

LEMMA CheckedAndTold ==
    ASSUME NEW S, NEW s \in Seq(S), NEW C, NEW check \in Seq(C), NEW kind, NEW g, NEW p
    PROVE  (s \o check) \o Telling(kind, g, p) = s \o (check \o Telling(kind, g, p))
<1>1. PICK D : Telling(kind, g, p) \in Seq(D)
  BY TellingIsSeq
<1> DEFINE T == S \cup C \cup D
<1>2. s \in Seq(T) /\ check \in Seq(T) /\ Telling(kind, g, p) \in Seq(T)
  BY <1>1
<1> HIDE DEF T
<1> QED
  BY <1>2, ConcatAssociative

(***************************************************************************)
(* What a message has already done                                         *)
(***************************************************************************)
\* A grant that came with an addition is the promotion of its master.
LEMMA PromotedHeard ==
    ASSUME NEW a \in Masters, pending[a] # {}, Records(a), NEW g, NEW p, AdditionAsked(a, g, p),
           PromoteAsked(a) /\ granted[p] = Grants(a, p) => Grants(a, p) \in heard,
           NEW q \in Profiles, By(Received(a).id, granted[q])
    PROVE  granted[q] \in heard
<1>1. ~GrantAsked(a) /\ ~RevokeAsked(a) /\ ~RemovalAsked(a)
  BY Alone
<1>2. PromoteAsked(a) /\ q = rows[a].who /\ granted[q] = Grants(a, q)
  BY <1>1 DEF Records, RoleRecord
<1>3. AdditionAsked(a, rows[a].game, rows[a].who)
  BY <1>2 DEF AdditionAsked
<1>4. q = p
  BY <1>2, <1>3, Alone
<1> QED
  BY <1>2, <1>4

\* An addition that has not been marked has changed nothing.
LEMMA UnmarkedSettles ==
    ASSUME NEW a \in Masters, pending[a] # {}, Records(a), NEW g, NEW p, AdditionAsked(a, g, p),
           PromoteAsked(a) /\ granted[p] = Grants(a, p) => Grants(a, p) \in heard,
           Requested(a, "leader-grant", g, p) \notin rows[a].marks
    PROVE  Settled(a)
<1>1. ~GrantAsked(a) /\ ~RevokeAsked(a) /\ ~RemovalAsked(a)
  BY Alone
<1>2. ASSUME NEW q \in Profiles, By(Received(a).id, granted[q]) PROVE granted[q] \in heard
  BY <1>2, PromotedHeard
<1>3. ASSUME NEW h \in Games, NEW q \in Profiles, By(Received(a).id, changed[h][q]) PROVE FALSE
  <2>1. LeaderRecord(a, h, q)
    BY <1>3 DEF Records
  <2>2. AdditionAsked(a, h, q) /\ Requested(a, "leader-grant", h, q) \in rows[a].marks
    BY <1>1, <2>1 DEF LeaderRecord
  <2> QED
    BY <2>2, Alone
<1> QED
  BY <1>2, <1>3 DEF Settled

\* Whoever was made a master could use the dialogues; if he cannot any more,
\* somebody else has taken that away.
LEMMA LostAccessSettles ==
    ASSUME NEW a \in Masters, pending[a] # {}, Records(a), NEW g, NEW p \in Profiles, AdditionAsked(a, g, p),
           ~HasAdminAccess(p), PromoteAsked(a) /\ granted[p] = Grants(a, p) => Grants(a, p) \in heard
    PROVE  Settled(a)
<1>1. ~GrantAsked(a) /\ ~RevokeAsked(a) /\ ~RemovalAsked(a)
  BY Alone
<1>2. ASSUME NEW q \in Profiles, By(Received(a).id, granted[q]) PROVE granted[q] \in heard
  BY <1>2, PromotedHeard
<1>3. ASSUME NEW h \in Games, NEW q \in Profiles, By(Received(a).id, changed[h][q])
      PROVE  Disputed(Received(a).id, q)
  <2>1. LeaderRecord(a, h, q)
    BY <1>3 DEF Records
  <2>2. AdditionAsked(a, h, q) /\ KeepsAccess(a, q)
    BY <1>1, <2>1 DEF LeaderRecord
  <2>3. q = p
    BY <2>2, Alone
  <2> QED
    BY <2>2, <2>3 DEF KeepsAccess, Disputed
<1> QED
  BY <1>2, <1>3 DEF Settled

\* A message that names nobody has changed nobody's rights.
LEMMA NobodyNamed ==
    ASSUME NEW a, Ready(a), rows[a].state \in {"GAMEMASTER_PROFILE", "EVENT_LEADER_PROFILE"}, Answering(a),
           Pressed(a).value \notin RoleCallbacks, Pressed(a).who = NoOne
    PROVE  Settled(a)
<1>1. Records(a) /\ pending[a] # {} /\ NoOne \notin Profiles
  BY ReadyMeans, RoleManagementAssumption
<1>2. ~RevokeAsked(a) /\ ~RemovalAsked(a) /\ ~PromoteAsked(a) /\ Pressed(a).value # "master:self-add"
  BY DEF RevokeAsked, RemovalAsked, PromoteAsked, RoleCallbacks
<1>3. ASSUME NEW q \in Profiles, By(Received(a).id, granted[q]) PROVE FALSE
  BY <1>1, <1>2, <1>3 DEF Records, RoleRecord
<1>4. ASSUME NEW h \in Games, NEW q \in Profiles, By(Received(a).id, changed[h][q]) PROVE FALSE
  <2>1. AdditionAsked(a, h, q)
    BY <1>1, <1>2, <1>4 DEF Records, LeaderRecord
  <2> QED
    BY <1>1, <1>2, <2>1 DEF AdditionAsked
<1> QED
  BY <1>3, <1>4 DEF Settled

\* Who is named with a current keyboard, or by a text, is a profile.
LEMMA NamedIsKnown ==
    ASSUME NEW a, Ready(a), ~Outdated(a), rows[a].state \in {"GAMEMASTER_PROFILE", "EVENT_LEADER_PROFILE"},
           Pressed(a).value \notin {"menu", "admin"}
    PROVE  Pressed(a).who \in Profiles \cup {NoOne}
<1>1. IsMessage(Received(a)) /\ SoundRow(rows[a]) /\ IsRow(rows[a]) /\ IsButton(Pressed(a))
  BY ReadyMeans
<1>2. CASE ~Received(a).pressed
  BY <1>1, <1>2 DEF IsMessage, Pressed
<1>3. CASE Received(a).pressed
  <2>1. rows[a].state \in FreeText
    BY DEF FreeText, EventBound, LeaderStates
  <2>2. PICK b \in rows[a].buttons : SameValue(b, Pressed(a))
    BY <1>3, <2>1 DEF Outdated
  <2>3. b.who = Pressed(a).who
    BY <1>1, <2>2, SameValueFields DEF IsRow
  <2> QED
    BY <1>1, <2>2, <2>3 DEF SoundRow
<1> QED
  BY <1>1, <1>2, <1>3 DEF IsMessage

(***************************************************************************)
(* Masters of a game                                                       *)
(***************************************************************************)
LEMMA PresentDecided ==
    ASSUME NEW a, Ready(a), Settled(a), NEW row, OwnRow(a, row), Present(a, row)
    PROVE  Decided(a)
  BY NothingToDo DEF Present

\* The lists of the masters, and of who may be one.
LEMMA CandidatesDecided ==
    ASSUME NEW a, Ready(a), Settled(a), NEW row, NEW g \in Games, Present(a, CandidatesShown(row, g))
    PROVE  Decided(a)
<1>1. PICK r : r = CandidatesShown(row, g)
  OBVIOUS
<1>2. /\ DOMAIN r = RowFields /\ r.state = "EVENT_LEADER_ADD_PICK" /\ r.game = g /\ r.role = "none" /\ r.marks = {}
      /\ r.buttons = {ForPerson("master:add-pick", g, p) : p \in Candidates(g)}
                        \cup {Plain("master:add-direct"), ForGame("ag:masters", g)}
  BY <1>1, IdleRowFields DEF CandidatesShown, RowFields
<1>3. \A p \in Candidates(g) : Safe(ForPerson("master:add-pick", g, p))
  BY SafeButtons, ValuesOfGames DEF Candidates
<1>4. Safe(Plain("master:add-direct")) /\ Safe(ForGame("ag:masters", g))
  BY PlainSafe, SafeButtons DEF PersonValues
<1>5. SafeKeys(r.buttons)
  BY <1>2, <1>3, <1>4 DEF SafeKeys
<1>6. OwnRow(a, r)
  BY <1>2, <1>5, AskedRow DEF Asked, Role
<1> QED
  BY <1>1, <1>6, PresentDecided

LEMMA MastersDecided ==
    ASSUME NEW a, Ready(a), Settled(a), NEW mode, NEW g \in Games, Present(a, MastersShown(mode, g))
    PROVE  Decided(a)
<1>1. PICK r : r = MastersShown(mode, g)
  OBVIOUS
<1>2. PICK v \in {"master:remove-pick", "master:view"} : v = IF mode = "remove" THEN "master:remove-pick" ELSE "master:view"
  OBVIOUS
<1>3. /\ DOMAIN r = RowFields /\ r.state \in {"EVENT_LEADER_REMOVE", "EVENT_LEADER_LIST"} /\ r.game = g
      /\ r.role = "none" /\ r.marks = {}
      /\ r.buttons = {ForPerson(v, g, p) : p \in leaders[g]} \cup {ForGame("ag:masters", g)}
  BY <1>1, <1>2, IdleRowFields DEF MastersShown, RowFields
<1>4. \A p \in leaders[g] : Safe(ForPerson(v, g, p))
  BY SafeButtons, ValuesOfGames DEF PersonValues
<1>5. Safe(ForGame("ag:masters", g))
  BY SafeButtons DEF PersonValues
<1>6. SafeKeys(r.buttons)
  BY <1>3, <1>4, <1>5 DEF SafeKeys
<1>7. OwnRow(a, r)
  BY <1>3, <1>6, AskedRow DEF Asked, Role
<1> QED
  BY <1>1, <1>7, PresentDecided

\* The question whether to promote somebody.
LEMMA PromotionDecided ==
    ASSUME NEW a, NEW row, OwnRow(a, row), NEW g \in Games, NEW p \in Profiles,
           NEW r, r = PromotionQuestion(row, g, p)
    PROVE  OwnRow(a, r)
<1>1. /\ DOMAIN r = RowFields /\ r.state = "EVENT_LEADER_PROMOTE_CONFIRM" /\ r.game = g /\ r.who = p
      /\ r.role = row.role /\ r.marks = row.marks
      /\ r.buttons = {Bare("master:promote:yes", g, p), Bare("master:promote:no", g, p)}
  BY DEF PromotionQuestion, OwnRow, IsRow, RowFields
<1>2. Safe(Bare("master:promote:yes", g, p)) /\ Safe(Bare("master:promote:no", g, p))
  BY SafeButtons, ValuesOfGames DEF PersonValues
<1>3. \A b \in r.buttons : Safe(b)
  BY <1>1, <1>2
<1>4. SoundRow(r) /\ HadRole(r) /\ ~Holding(r)
  BY <1>1 DEF SoundRow, HadRole, Holding
<1> QED
  BY <1>1, <1>3, <1>4 DEF OwnRow, IsRow, Safe, Optional

LEMMA AdditionDecided ==
    ASSUME NEW a, Ready(a), NEW g \in Games, NEW p \in Profiles, AdditionAsked(a, g, p), ~PromoteAsked(a),
           NEW todo, Plan(a, rows[a], todo, ""), NEW t, t = NewTurn(a, rows[a], todo, ""), AddsAs(a, t, g, p)
    PROVE  Decided(a)
<1>1. t.note = "" /\ t.told = told[a]
  BY DEF NewTurn
<1>2. TurnOK(a, t)
  BY <1>1, ReadyMeans DEF TurnOK, Revoked, AddTurn
<1> QED
  BY <1>2, ReadyMeans DEF Decided

\* _assign_event_leader
LEMMA AssignDecided ==
    ASSUME NEW a, Ready(a), NEW g \in Games, NEW p \in Profiles, AdditionAsked(a, g, p), ~PromoteAsked(a),
           Manages(a, g), Assign(a, g, p)
    PROVE  Decided(a)
<1> DEFINE request == Requested(a, "leader-grant", g, p)
           done == <<Do("clear", NoGame, NoOne, "")>>
           steps == <<Do("mark", g, p, "leader-grant"), Do("add-leader", g, p, ""), Do("check-leader", g, p, "")>>
           notice == Notice("leader-grant", g, p)
<1>1. CASE ~HasAdminAccess(p)
  <2>1. PICK r : r = PromotionQuestion(rows[a], g, p)
    OBVIOUS
  <2>2. Plan(a, r, <<>>, "")
    BY <1>1, <2>1 DEF Assign, Assignment
  <2>3. OwnRow(a, r)
    BY <2>1, ReadyMeans, PromotionDecided
  <2>4. Settled(a)
    BY <1>1, ReadyMeans, LostAccessSettles
  <2> QED
    BY <2>2, <2>3, <2>4, NothingToDo
<1>2. CASE HasAdminAccess(p) /\ Linked(p) \cap leaders[g] # {} /\ request \in rows[a].marks
  <2>1. notice \o done = Telling("leader-grant", g, p)
    BY ToldLast
  <2>2. Plan(a, rows[a], Telling("leader-grant", g, p), "")
    BY <1>2, <2>1 DEF Assign, Assignment, GrantPending
  <2>3. PICK t : t = NewTurn(a, rows[a], Telling("leader-grant", g, p), "")
    OBVIOUS
  <2>4. t.todo = Telling("leader-grant", g, p) /\ t.note = ""
    BY <2>3 DEF NewTurn
  <2>5. AddsAs(a, t, g, p)
    BY <2>4 DEF AddsAs, Announcing
  <2> QED
    BY <2>2, <2>3, <2>5, AdditionDecided
<1>3. CASE HasAdminAccess(p) /\ Linked(p) \cap leaders[g] # {} /\ request \notin rows[a].marks
  <2>1. Plan(a, rows[a], Ending, "")
    BY <1>3 DEF Assign, Assignment, GrantPending, Ending
  <2>2. PICK t : t = NewTurn(a, rows[a], Ending, "")
    OBVIOUS
  <2>3. t.todo = Ending /\ t.note = ""
    BY <2>2 DEF NewTurn
  <2>4. Settled(a)
    BY <1>3, ReadyMeans, UnmarkedSettles
  <2>5. AddsAs(a, t, g, p)
    BY <2>3, <2>4 DEF AddsAs, Announcing
  <2> QED
    BY <2>1, <2>2, <2>5, AdditionDecided
<1>4. CASE HasAdminAccess(p) /\ Linked(p) \cap leaders[g] = {}
  <2>1. Plan(a, rows[a], (steps \o notice) \o done, "")
    BY <1>4 DEF Assign, Assignment
  <2>2. steps \in Seq({Do("mark", g, p, "leader-grant"), Do("add-leader", g, p, ""), Do("check-leader", g, p, "")})
    OBVIOUS
  <2>3. PICK todo : todo = steps \o Telling("leader-grant", g, p)
    OBVIOUS
  <2>4. (steps \o notice) \o done = todo
    <3> HIDE DEF steps
    <3> QED
      BY <2>2, <2>3, ToldLast
  <2>5. PICK t : t = NewTurn(a, rows[a], todo, "")
    OBVIOUS
  <2>6. t.todo = todo /\ t.note = "" /\ t.row = rows[a] /\ g \in t.manages
    BY <2>5 DEF NewTurn
  <2>7. KeepsAccess(a, p) /\ Alike(rows[a], rows[a])
    BY <1>4 DEF KeepsAccess, Alike
  <2>8. AddsAs(a, t, g, p)
    BY <2>3, <2>6, <2>7 DEF AddsAs
  <2> QED
    BY <2>1, <2>4, <2>5, <2>8, AdditionDecided
<1> QED
  BY <1>1, <1>2, <1>3, <1>4

LEMMA AddSelfDecided ==
    ASSUME NEW a, Ready(a), Pressed(a).value = "master:self-add", AddSelf(a)
    PROVE  Decided(a)
<1>1. Pressed(a).game \in Games /\ a \in Profiles
  BY ReadyMeans DEF SoundButton, GameValues
<1>2. CASE Object(a)
  BY <1>2, ObjectDecided
<1>3. CASE IsAdmin(a) /\ Assign(a, Pressed(a).game, a)
  <2>1. AdditionAsked(a, Pressed(a).game, a) /\ ~PromoteAsked(a)
    BY DEF AdditionAsked, PromoteAsked
  <2> QED
    BY <1>1, <1>3, <2>1, AssignDecided DEF Manages
<1> QED
  BY <1>2, <1>3 DEF AddSelf

LEMMA PickMasterDecided ==
    ASSUME NEW a, Ready(a), ~RightsGone(a), Pressed(a).value = "master:add-pick", PickMaster(a)
    PROVE  Decided(a)
<1>1. CASE Object(a)
  BY <1>1, ObjectDecided
<1>2. CASE rows[a].state = "EVENT_LEADER_ADD_PICK" /\ Assign(a, rows[a].game, Pressed(a).who)
  <2>1. Pressed(a).who \in Profiles
    BY ReadyMeans DEF SoundButton, PersonValues
  <2>2. rows[a].game \in Games
    BY <1>2, ReadyMeans DEF SoundRow, EventBound, LeaderStates
  <2>3. Manages(a, rows[a].game)
    BY <1>2, AnswersManage DEF EventBound, LeaderStates, ViewOnly
  <2>4. AdditionAsked(a, rows[a].game, Pressed(a).who) /\ ~PromoteAsked(a)
    BY <1>2 DEF AdditionAsked, PromoteAsked
  <2> QED
    BY <1>2, <2>1, <2>2, <2>3, <2>4, AssignDecided
<1> QED
  BY <1>1, <1>2 DEF PickMaster

LEMMA LeaderProfileDecided ==
    ASSUME NEW a, Ready(a), ~Outdated(a), ~RightsGone(a), rows[a].state = "EVENT_LEADER_PROFILE",
           Pressed(a).value \notin Clearing \cup Roots, Pressed(a).value \notin RoleCallbacks, LeaderProfile(a)
    PROVE  Decided(a)
<1>1. Answering(a)
  BY DEF Answering
<1>2. CASE (Pressed(a).who = NoOne \/ ~Received(a).good) /\ Remark(a)
  <2>1. Pressed(a).who = NoOne
    BY <1>2, ReadyMeans DEF IsMessage, Pressed
  <2> QED
    BY <1>1, <1>2, <2>1, NobodyNamed, RemarkDecided
<1>3. CASE Dismiss(a, {})
  BY <1>3, DismissDecided, PlainKeySafe
<1>4. CASE Pressed(a).who # NoOne /\ Assign(a, rows[a].game, Pressed(a).who)
  <2>1. Pressed(a).who \in Profiles
    BY <1>4, NamedIsKnown DEF Roots
  <2>2. rows[a].game \in Games
    BY ReadyMeans DEF SoundRow, EventBound, LeaderStates
  <2>3. Manages(a, rows[a].game)
    BY AnswersManage DEF EventBound, LeaderStates, ViewOnly
  <2>4. AdditionAsked(a, rows[a].game, Pressed(a).who) /\ ~PromoteAsked(a)
    BY <1>1 DEF AdditionAsked, PromoteAsked
  <2> QED
    BY <1>4, <2>1, <2>2, <2>3, <2>4, AssignDecided
<1> QED
  BY <1>2, <1>3, <1>4 DEF LeaderProfile

\* One step after another, written out.
LEMMA OneAndOne ==
    ASSUME NEW u, NEW v
    PROVE  <<u>> \o <<v>> = <<u, v>>
<1> DEFINE T == {u, v}
           s == <<u>> \o <<v>>
<1>1. /\ <<u>> \in Seq(T) /\ <<v>> \in Seq(T) /\ <<u, v>> \in Seq(T)
      /\ Len(<<u>>) = 1 /\ Len(<<v>>) = 1 /\ Len(<<u, v>>) = 2
  OBVIOUS
<1>2. /\ s \in Seq(T) /\ Len(s) = 2
      /\ \A i \in 1 .. 2 : s[i] = IF i <= 1 THEN <<u>>[i] ELSE <<v>>[i - 1]
  BY <1>1, ConcatProperties
<1> HIDE DEF s
<1>3. s[1] = u /\ s[2] = v
  BY <1>2
<1>4. s = <<u, v>>
  BY <1>1, <1>2, <1>3, SeqEqual
<1> QED
  BY <1>4 DEF s

LEMMA OneAndTwo ==
    ASSUME NEW u, NEW v, NEW x
    PROVE  <<u>> \o <<v, x>> = <<u, v, x>>
<1> DEFINE T == {u, v, x}
           s == <<u>> \o <<v, x>>
<1>1. /\ <<u>> \in Seq(T) /\ <<v, x>> \in Seq(T) /\ <<u, v, x>> \in Seq(T)
      /\ Len(<<u>>) = 1 /\ Len(<<v, x>>) = 2 /\ Len(<<u, v, x>>) = 3
  OBVIOUS
<1>2. /\ s \in Seq(T) /\ Len(s) = 3
      /\ \A i \in 1 .. 3 : s[i] = IF i <= 1 THEN <<u>>[i] ELSE <<v, x>>[i - 1]
  BY <1>1, ConcatProperties
<1> HIDE DEF s
<1>3. s[1] = u /\ s[2] = v /\ s[3] = x
  BY <1>2
<1>4. s = <<u, v, x>>
  BY <1>1, <1>2, <1>3, SeqEqual
<1> QED
  BY <1>4 DEF s

LEMMA TwoAndTwo ==
    ASSUME NEW u, NEW v, NEW x, NEW y
    PROVE  <<u, v>> \o <<x, y>> = <<u, v, x, y>>
<1> DEFINE T == {u, v, x, y}
           s == <<u, v>> \o <<x, y>>
<1>1. /\ <<u, v>> \in Seq(T) /\ <<x, y>> \in Seq(T) /\ <<u, v, x, y>> \in Seq(T)
      /\ Len(<<u, v>>) = 2 /\ Len(<<x, y>>) = 2 /\ Len(<<u, v, x, y>>) = 4
  OBVIOUS
<1>2. /\ s \in Seq(T) /\ Len(s) = 4
      /\ \A i \in 1 .. 4 : s[i] = IF i <= 2 THEN <<u, v>>[i] ELSE <<x, y>>[i - 2]
  BY <1>1, ConcatProperties
<1> HIDE DEF s
<1>3. s[1] = u /\ s[2] = v /\ s[3] = x /\ s[4] = y
  BY <1>2
<1>4. s = <<u, v, x, y>>
  BY <1>1, <1>2, <1>3, SeqEqual
<1> QED
  BY <1>4 DEF s

LEMMA ThreeAndOne ==
    ASSUME NEW u, NEW v, NEW x, NEW y
    PROVE  <<u, v, x>> \o <<y>> = <<u, v, x, y>>
<1> DEFINE T == {u, v, x, y}
           s == <<u, v, x>> \o <<y>>
<1>1. /\ <<u, v, x>> \in Seq(T) /\ <<y>> \in Seq(T) /\ <<u, v, x, y>> \in Seq(T)
      /\ Len(<<u, v, x>>) = 3 /\ Len(<<y>>) = 1 /\ Len(<<u, v, x, y>>) = 4
  OBVIOUS
<1>2. /\ s \in Seq(T) /\ Len(s) = 4
      /\ \A i \in 1 .. 4 : s[i] = IF i <= 3 THEN <<u, v, x>>[i] ELSE <<y>>[i - 3]
  BY <1>1, ConcatProperties
<1> HIDE DEF s
<1>3. s[1] = u /\ s[2] = v /\ s[3] = x /\ s[4] = y
  BY <1>2
<1>4. s = <<u, v, x, y>>
  BY <1>1, <1>2, <1>3, SeqEqual
<1> QED
  BY <1>4 DEF s

LEMMA FourAndOne ==
    ASSUME NEW u, NEW v, NEW x, NEW y, NEW z
    PROVE  <<u, v, x, y>> \o <<z>> = <<u, v, x, y, z>>
<1> DEFINE T == {u, v, x, y, z}
           s == <<u, v, x, y>> \o <<z>>
<1>1. /\ <<u, v, x, y>> \in Seq(T) /\ <<z>> \in Seq(T) /\ <<u, v, x, y, z>> \in Seq(T)
      /\ Len(<<u, v, x, y>>) = 4 /\ Len(<<z>>) = 1 /\ Len(<<u, v, x, y, z>>) = 5
  OBVIOUS
<1>2. /\ s \in Seq(T) /\ Len(s) = 5
      /\ \A i \in 1 .. 5 : s[i] = IF i <= 4 THEN <<u, v, x, y>>[i] ELSE <<z>>[i - 4]
  BY <1>1, ConcatProperties
<1> HIDE DEF s
<1>3. s[1] = u /\ s[2] = v /\ s[3] = x /\ s[4] = y /\ s[5] = z
  BY <1>2
<1>4. s = <<u, v, x, y, z>>
  BY <1>1, <1>2, <1>3, SeqEqual
<1> QED
  BY <1>4 DEF s

LEMMA FiveAndOne ==
    ASSUME NEW u, NEW v, NEW x, NEW y, NEW z, NEW w
    PROVE  <<u, v, x, y, z>> \o <<w>> = <<u, v, x, y, z, w>>
<1> DEFINE T == {u, v, x, y, z, w}
           s == <<u, v, x, y, z>> \o <<w>>
<1>1. /\ <<u, v, x, y, z>> \in Seq(T) /\ <<w>> \in Seq(T) /\ <<u, v, x, y, z, w>> \in Seq(T)
      /\ Len(<<u, v, x, y, z>>) = 5 /\ Len(<<w>>) = 1 /\ Len(<<u, v, x, y, z, w>>) = 6
  OBVIOUS
<1>2. /\ s \in Seq(T) /\ Len(s) = 6
      /\ \A i \in 1 .. 6 : s[i] = IF i <= 5 THEN <<u, v, x, y, z>>[i] ELSE <<w>>[i - 5]
  BY <1>1, ConcatProperties
<1> HIDE DEF s
<1>3. s[1] = u /\ s[2] = v /\ s[3] = x /\ s[4] = y /\ s[5] = z /\ s[6] = w
  BY <1>2
<1>4. s = <<u, v, x, y, z, w>>
  BY <1>1, <1>2, <1>3, SeqEqual
<1> QED
  BY <1>4 DEF s

LEMMA AfterNothing ==
    ASSUME NEW x
    PROVE  <<>> \o <<x>> = <<x>>
<1>1. <<x>> \in Seq({x})
  OBVIOUS
<1> QED
  BY <1>1, ConcatEmptySeq

LEMMA JoinedSteps ==
    ASSUME NEW u, NEW v, NEW x, NEW y, NEW z, NEW w
    PROVE  /\ (((<<u>> \o <<v>>) \o <<x, y>>) \o <<z>>) \o <<w>> = <<u, v, x, y, z, w>>
           /\ (((<<>> \o <<v>>) \o <<x, y>>) \o <<z>>) \o <<w>> = <<v, x, y, z, w>>
<1>1. PICK s1 : s1 = <<u>> \o <<v>>
  OBVIOUS
<1>2. s1 = <<u, v>>
  BY <1>1, OneAndOne
<1>3. PICK s2 : s2 = s1 \o <<x, y>>
  OBVIOUS
<1>4. s2 = <<u, v, x, y>>
  BY <1>2, <1>3, TwoAndTwo
<1>5. PICK s3 : s3 = s2 \o <<z>>
  OBVIOUS
<1>6. s3 = <<u, v, x, y, z>>
  BY <1>4, <1>5, FourAndOne
<1>7. s3 \o <<w>> = <<u, v, x, y, z, w>>
  BY <1>6, FiveAndOne
<1>8. PICK t1 : t1 = <<>> \o <<v>>
  OBVIOUS
<1>9. t1 = <<v>>
  BY <1>8, AfterNothing
<1>10. PICK t2 : t2 = t1 \o <<x, y>>
  OBVIOUS
<1>11. t2 = <<v, x, y>>
  BY <1>9, <1>10, OneAndTwo
<1>12. PICK t3 : t3 = t2 \o <<z>>
  OBVIOUS
<1>13. t3 = <<v, x, y, z>>
  BY <1>11, <1>12, ThreeAndOne
<1>14. t3 \o <<w>> = <<v, x, y, z, w>>
  BY <1>13, FourAndOne
<1> QED
  BY <1>1, <1>3, <1>5, <1>7, <1>8, <1>10, <1>12, <1>14

(***************************************************************************)
(* Menus and questions of roles and masters                                *)
(***************************************************************************)
\* A dialogue that goes on about the same game.
LEMMA StepOn ==
    ASSUME NEW a, Ready(a), Settled(a), NEW state, NEW buttons, SafeKeys(buttons),
           Say(a, [rows[a] EXCEPT !.state = state], buttons),
           \/ rows[a].game \in Games /\ state = "EVENT_LEADER_PLATFORM"
           \/ /\ rows[a].game \in Games /\ state = "EVENT_LEADER_PROFILE"
              /\ \A b \in buttons : b.who = NoOne
           \/ state = "GAMEMASTER_PROFILE" /\ \A b \in buttons : b.who = NoOne
    PROVE  Decided(a)
<1>1. IsRow(rows[a])
  BY ReadyMeans
<1>2. PICK row : row = [rows[a] EXCEPT !.state = state]
  OBVIOUS
<1>3. /\ DOMAIN row = RowFields /\ row.state = state /\ row.game = rows[a].game /\ row.role = rows[a].role
      /\ row.marks = rows[a].marks
  BY <1>1, <1>2 DEF IsRow, RowFields
<1>4. "GAMEMASTER_PROFILE" \notin EventBound \cup DOMAIN Following \cup DOMAIN Sending
  BY DEF EventBound, EditStates, Scheduling, LeaderStates, RosterStates, Following, Sending
<1>5. Subject(row) /\ HadRole(row) /\ ~Holding(row)
  BY <1>3, <1>4 DEF Subject, HadRole, Holding
<1>6. /\ row.state \in {"GAMEMASTER_PROFILE", "EVENT_LEADER_PROFILE"} =>
             \A b \in buttons : b.who \in Profiles \cup {NoOne}
  BY <1>3
<1>7. row.game \in Optional /\ row.role \in Role \ {"admin"} /\ row.marks \subseteq rows[a].marks
  BY <1>1, <1>3 DEF IsRow
<1> QED
  BY <1>2, <1>3, <1>5, <1>6, <1>7, SayOwn

\* A question about somebody.
LEMMA AskAbout ==
    ASSUME NEW a, Ready(a), Settled(a), NEW row, DOMAIN row = RowFields, row.game \in Optional,
           row.role \in Role \ {"admin"}, row.marks = rows[a].marks, row.who \in Profiles,
           \/ row.state = "EVENT_LEADER_REMOVE_CONFIRM" /\ row.game \in Games
           \/ row.state = "MODERATOR_REMOVE_CONFIRM" /\ roles[row.who] # "none",
           NEW buttons, SafeKeys(buttons), Say(a, row, buttons)
    PROVE  Decided(a)
<1>1. "MODERATOR_REMOVE_CONFIRM" \notin EventBound \cup DOMAIN Following \cup DOMAIN Sending
  BY DEF EventBound, EditStates, Scheduling, LeaderStates, RosterStates, Following, Sending
<1>2. Subject(row) /\ HadRole(row) /\ ~Holding(row)
  BY <1>1 DEF Subject, HadRole, Holding
<1> QED
  BY <1>2, SayOwn

LEMMA OpenMastersDecided ==
    ASSUME NEW a, Ready(a), Settled(a), Pressed(a).value \in {"master:add", "master:remove", "master:list"},
           NEW mode, OpenMasters(a, mode)
    PROVE  Decided(a)
<1>1. Pressed(a).game \in Games
  BY ReadyMeans DEF SoundButton, GameValues
<1>2. CASE Object(a)
  BY <1>2, ObjectDecided
<1>3. CASE Leave(a, {})
  BY <1>3, LeaveDecided, PlainKeySafe
<1>4. ASSUME NEW how, Present(a, MastersShown(how, Pressed(a).game)) PROVE Decided(a)
  BY <1>1, <1>4, MastersDecided
<1>5. CASE Present(a, CandidatesShown(rows[a], Pressed(a).game))
  BY <1>1, <1>5, CandidatesDecided
<1> QED
  BY <1>2, <1>3, <1>4, <1>5 DEF OpenMasters

LEMMA DeclineDecided ==
    ASSUME NEW a, Ready(a), Settled(a), DeclinePromotion(a)
    PROVE  Decided(a)
<1>1. CASE Object(a) \/ Dismiss(a, {})
  BY <1>1, ObjectDecided, DismissDecided, PlainKeySafe
<1>2. CASE rows[a].state = "EVENT_LEADER_PROMOTE_CONFIRM" /\ Present(a, CandidatesShown(rows[a], rows[a].game))
  <2>1. rows[a].game \in Games
    BY <1>2, ReadyMeans DEF SoundRow, EventBound, LeaderStates
  <2> QED
    BY <1>2, <2>1, CandidatesDecided
<1> QED
  BY <1>1, <1>2 DEF DeclinePromotion

LEMMA AddDirectlyDecided ==
    ASSUME NEW a, Ready(a), Settled(a), AddDirectly(a)
    PROVE  Decided(a)
<1>1. CASE Object(a)
  BY <1>1, ObjectDecided
<1>2. CASE /\ rows[a].state = "EVENT_LEADER_ADD_PICK"
           /\ Say(a, [rows[a] EXCEPT !.state = "EVENT_LEADER_PLATFORM"],
                  {Plain("admin:event-leader"), ForGame("ag:masters", rows[a].game)})
  <2>1. rows[a].game \in Games
    BY <1>2, ReadyMeans DEF SoundRow, EventBound, LeaderStates
  <2>2. SafeKeys({Plain("admin:event-leader"), ForGame("ag:masters", rows[a].game)})
    BY <2>1, PlainSafe, SafeButtons DEF SafeKeys, PersonValues
  <2> QED
    BY <1>2, <2>1, <2>2, StepOn
<1> QED
  BY <1>1, <1>2 DEF AddDirectly

LEMMA LeaderPlatformDecided ==
    ASSUME NEW a, Ready(a), Settled(a), rows[a].state = "EVENT_LEADER_PLATFORM", LeaderPlatform(a)
    PROVE  Decided(a)
<1>1. CASE Remark(a)
  BY <1>1, RemarkDecided
<1>2. CASE Say(a, [rows[a] EXCEPT !.state = "EVENT_LEADER_PROFILE"], {ForGame("ag:masters", rows[a].game)})
  <2>1. rows[a].game \in Games
    BY ReadyMeans DEF SoundRow, EventBound, LeaderStates
  <2>2. SafeKeys({ForGame("ag:masters", rows[a].game)}) /\ ForGame("ag:masters", rows[a].game).who = NoOne
    BY <2>1, GameKeySafe, ForGameFields
  <2>3. \A b \in {ForGame("ag:masters", rows[a].game)} : b.who = NoOne
    BY <2>2
  <2> QED
    BY <1>2, <2>1, <2>2, <2>3, StepOn
<1> QED
  BY <1>1, <1>2 DEF LeaderPlatform

LEMMA GrantPlatformDecided ==
    ASSUME NEW a, Ready(a), Settled(a), rows[a].state = "GAMEMASTER_PLATFORM", GrantPlatform(a)
    PROVE  Decided(a)
<1>1. CASE Refuse(a)
  BY <1>1, RefuseDecided
<1>2. CASE Remark(a)
  BY <1>2, RemarkDecided
<1>3. CASE Say(a, [rows[a] EXCEPT !.state = "GAMEMASTER_PROFILE"], {Plain("mod:menu")})
  <2>1. SafeKeys({Plain("mod:menu")}) /\ Plain("mod:menu").who = NoOne
    BY PlainKeySafe, PlainFields
  <2>2. \A b \in {Plain("mod:menu")} : b.who = NoOne
    BY <2>1
  <2> QED
    BY <1>3, <2>1, <2>2, StepOn
<1> QED
  BY <1>1, <1>2, <1>3 DEF GrantPlatform

LEMMA ViewDecided ==
    ASSUME NEW a, Ready(a), Settled(a), ViewMaster(a) \/ ViewModerator(a)
    PROVE  Decided(a)
<1>1. CASE Object(a)
  BY <1>1, ObjectDecided
<1>2. ASSUME NEW v \in {"master:list-page", "mod:list-page"},
             rows[a].state \in {"EVENT_LEADER_LIST", "MODERATOR_LIST"}, Say(a, rows[a], {Plain(v)})
      PROVE  Decided(a)
  <2>1. SafeKeys({Plain(v)})
    BY PlainSafe DEF SafeKeys
  <2> QED
    BY <1>2, <2>1, SayHere
<1> QED
  BY <1>1, <1>2 DEF ViewMaster, ViewModerator

LEMMA PageDecided ==
    ASSUME NEW a, Ready(a), Settled(a), NEW mode, PageMasters(a, mode)
    PROVE  Decided(a)
<1>1. CASE Object(a)
  BY <1>1, ObjectDecided
<1>2. CASE rows[a].game # NoGame /\ Present(a, MastersShown(mode, rows[a].game))
  <2>1. rows[a].game \in Games
    BY <1>2, ReadyMeans DEF IsRow, Optional
  <2> QED
    BY <1>2, <2>1, MastersDecided
<1> QED
  BY <1>1, <1>2 DEF PageMasters

LEMMA PickRemovedDecided ==
    ASSUME NEW a, Ready(a), Settled(a), PickRemoved(a)
    PROVE  Decided(a)
<1> DEFINE g == rows[a].game
           p == Pressed(a).who
<1>1. CASE Object(a)
  BY <1>1, ObjectDecided
<1>2. ASSUME rows[a].state = "EVENT_LEADER_REMOVE" PROVE g \in Games
  BY <1>2, ReadyMeans DEF SoundRow, EventBound, LeaderStates
<1>3. CASE rows[a].state = "EVENT_LEADER_REMOVE" /\ Present(a, MastersShown("remove", g))
  BY <1>2, <1>3, MastersDecided
<1>4. CASE /\ rows[a].state = "EVENT_LEADER_REMOVE" /\ p \in leaders[g]
           /\ Say(a, [rows[a] EXCEPT !.state = "EVENT_LEADER_REMOVE_CONFIRM", !.who = p],
                  {Bare("master:remove-confirm", g, p), Plain("master:remove-page")})
  <2>1. g \in Games /\ p \in Profiles /\ IsRow(rows[a])
    BY <1>2, <1>4, ReadyMeans DEF Shapes
  <2>2. PICK row : row = [rows[a] EXCEPT !.state = "EVENT_LEADER_REMOVE_CONFIRM", !.who = p]
    OBVIOUS
  <2>3. /\ DOMAIN row = RowFields /\ row.state = "EVENT_LEADER_REMOVE_CONFIRM" /\ row.game = g /\ row.who = p
        /\ row.role = rows[a].role /\ row.marks = rows[a].marks
    BY <2>1, <2>2 DEF IsRow, RowFields
  <2>4. SafeKeys({Bare("master:remove-confirm", g, p), Plain("master:remove-page")})
    BY SafeButtons, ValuesOfGames, PlainSafe DEF SafeKeys, PersonValues
  <2>5. row.game \in Optional /\ row.role \in Role \ {"admin"}
    BY <2>1, <2>3 DEF IsRow
  <2> QED
    BY <1>4, <2>1, <2>2, <2>3, <2>4, <2>5, AskAbout
<1> QED
  BY <1>1, <1>3, <1>4 DEF PickRemoved

LEMMA PickModeratorDecided ==
    ASSUME NEW a, Ready(a), Settled(a), Pressed(a).value = "mod:remove-pick", PickModerator(a)
    PROVE  Decided(a)
<1> DEFINE p == Pressed(a).who
<1>1. CASE Object(a)
  BY <1>1, ObjectDecided
<1>2. CASE ShowModerators(a, "remove")
  BY <1>2, ModeratorsDecided
<1>3. CASE /\ roles[p] # "none"
           /\ Say(a, [rows[a] EXCEPT !.state = "MODERATOR_REMOVE_CONFIRM", !.who = p, !.role = roles[p]],
                  {Bare("mod:remove-confirm", NoGame, p), Plain("mod:remove-page")})
  <2>1. p \in Profiles /\ IsRow(rows[a]) /\ roles[p] \in Role \ {"admin"}
    BY ReadyMeans DEF Shapes, SoundButton, PersonValues
  <2>2. PICK row : row = [rows[a] EXCEPT !.state = "MODERATOR_REMOVE_CONFIRM", !.who = p, !.role = roles[p]]
    OBVIOUS
  <2>3. /\ DOMAIN row = RowFields /\ row.state = "MODERATOR_REMOVE_CONFIRM" /\ row.game = rows[a].game /\ row.who = p
        /\ row.role = roles[p] /\ row.marks = rows[a].marks
    BY <2>1, <2>2 DEF IsRow, RowFields
  <2>4. SafeKeys({Bare("mod:remove-confirm", NoGame, p), Plain("mod:remove-page")})
    BY SafeButtons, ValuesOfGames, PlainSafe DEF SafeKeys, PersonValues
  <2>5. row.game \in Optional /\ row.role \in Role \ {"admin"} /\ roles[row.who] # "none"
    BY <1>3, <2>1, <2>3 DEF IsRow
  <2> QED
    BY <1>3, <2>1, <2>2, <2>3, <2>4, <2>5, AskAbout
<1> QED
  BY <1>1, <1>2, <1>3 DEF PickModerator

(***************************************************************************)
(* Messages that change rights                                             *)
(***************************************************************************)
LEMMA TurnDecided ==
    ASSUME NEW a, Ready(a), NEW row, OwnRow(a, row), NEW todo, Plan(a, row, todo, ""),
           NEW t, t = NewTurn(a, row, todo, ""), GrantTurn(a, t) \/ PromoteTurn(a, t) \/ RemoveTurn(a, t)
    PROVE  Decided(a)
<1>1. t.note = "" /\ t.told = told[a]
  BY DEF NewTurn
<1>2. TurnOK(a, t)
  BY <1>1, ReadyMeans DEF TurnOK, Revoked
<1> QED
  BY <1>2 DEF Decided

\* A removal that has not been marked has changed nothing.
LEMMA UnmarkedRemoval ==
    ASSUME NEW a, Ready(a), RemovalAsked(a),
           Requested(a, "leader-revoke", rows[a].game, rows[a].who) \notin rows[a].marks
    PROVE  Settled(a)
<1>1. Records(a) /\ pending[a] # {}
  BY ReadyMeans
<1>2. ~GrantAsked(a) /\ ~RevokeAsked(a) /\ ~AddsSomebody(a) /\ ~PromoteAsked(a)
  BY Alone
<1>3. ASSUME NEW q \in Profiles, By(Received(a).id, granted[q]) PROVE FALSE
  BY <1>1, <1>2, <1>3 DEF Records, RoleRecord
<1>4. ASSUME NEW h \in Games, NEW q \in Profiles, By(Received(a).id, changed[h][q]) PROVE FALSE
  <2>1. LeaderRecord(a, h, q)
    BY <1>1, <1>4 DEF Records
  <2>2. ~AdditionAsked(a, h, q)
    BY <1>2, Alone
  <2> QED
    BY <2>1, <2>2 DEF LeaderRecord
<1> QED
  BY <1>3, <1>4 DEF Settled

LEMMA RemoveMasterDecided ==
    ASSUME NEW a, Ready(a), ~RightsGone(a), Pressed(a).value = "master:remove-confirm", RemoveMaster(a)
    PROVE  Decided(a)
<1> DEFINE g == rows[a].game
           p == rows[a].who
           steps == <<Do("mark", g, p, "leader-revoke"), Do("remove-leader", g, p, "")>>
           told0 == Notice("leader-revoke", g, p) \o <<Do("clear", NoGame, NoOne, "")>>
<1>1. CASE rows[a].state # "EVENT_LEADER_REMOVE_CONFIRM"
  BY <1>1, ObjectDecided DEF RemoveMaster
<1>2. CASE rows[a].state = "EVENT_LEADER_REMOVE_CONFIRM"
  <2>1. RemovalAsked(a)
    BY <1>2 DEF RemovalAsked
  <2>2. g \in Games /\ p \in Profiles
    BY <1>2, ReadyMeans DEF SoundRow, EventBound, LeaderStates
  <2>3. told0 = Telling("leader-revoke", g, p)
    BY ToldLast
  <2>4. RemoveMaster(a) =>
          \/ Dismiss(a, {})
          \/ p \in leaders[g] /\ Plan(a, rows[a], steps \o told0, "")
          \/ Plan(a, rows[a], told0, "")
          \/ Requested(a, "leader-revoke", g, p) \notin rows[a].marks /\ Leave(a, {})
    BY <1>2 DEF RemoveMaster
  <2> HIDE DEF told0
  <2>5. CASE Dismiss(a, {})
    BY <2>5, DismissDecided, PlainKeySafe
  <2>6. CASE p \in leaders[g] /\ Plan(a, rows[a], steps \o told0, "")
    <3>1. Manages(a, g)
      <4>1. CASE RemovingSelf(a)
        BY <2>6, <4>1, ReadyMeans DEF RemovingSelf, Manages, IsLeader
      <4>2. CASE ~RemovingSelf(a)
        BY <1>2, <4>2 DEF RightsGone, DeletesArchived, EventBound, LeaderStates, ViewOnly
      <4> QED
        BY <4>1, <4>2
    <3>2. PICK todo : todo = steps \o Telling("leader-revoke", g, p)
      OBVIOUS
    <3>3. Plan(a, rows[a], todo, "")
      BY <2>3, <2>6, <3>2
    <3>4. PICK t : t = NewTurn(a, rows[a], todo, "")
      OBVIOUS
    <3>5. t.todo = todo /\ t.note = "" /\ t.row = rows[a] /\ g \in t.manages
      BY <2>2, <3>1, <3>4 DEF NewTurn
    <3>6. RemoveTurn(a, t)
      BY <2>1, <2>2, <3>2, <3>5 DEF RemoveTurn, Alike
    <3> QED
      BY <3>3, <3>4, <3>6, ReadyMeans, TurnDecided
  <2>7. CASE Plan(a, rows[a], told0, "")
    <3>1. PICK todo : todo = Telling("leader-revoke", g, p)
      OBVIOUS
    <3>2. PICK t : t = NewTurn(a, rows[a], todo, "")
      OBVIOUS
    <3>3. t.todo = todo /\ t.note = ""
      BY <3>2 DEF NewTurn
    <3>4. RemoveTurn(a, t)
      BY <2>1, <2>2, <3>1, <3>3 DEF RemoveTurn, Announcing
    <3> QED
      BY <2>3, <2>7, <3>1, <3>2, <3>4, ReadyMeans, TurnDecided
  <2>8. CASE Requested(a, "leader-revoke", g, p) \notin rows[a].marks /\ Leave(a, {})
    BY <2>1, <2>8, UnmarkedRemoval, LeaveDecided, PlainKeySafe
  <2> QED
    BY <2>4, <2>5, <2>6, <2>7, <2>8
<1> QED
  BY <1>1, <1>2

\* _promote_master_target
LEMMA PromoteDecided ==
    ASSUME NEW a, Ready(a), ~RightsGone(a), Pressed(a).value = "master:promote:yes", Promote(a)
    PROVE  Decided(a)
<1> DEFINE g == rows[a].game
           p == rows[a].who
           set == Do("set-role", NoGame, p, "moderator")
           check == Do("check-promotion", NoGame, p, "")
           mark == Do("mark", NoGame, p, "grant")
           assign == Do("assign", g, p, "")
           tell == Do("tell", NoGame, p, "grant")
           claim == Do("claim", NoGame, p, "grant")
           request == Requested(a, "grant", NoGame, p)
           same == roles[p] = "moderator" /\ granted[p] = request
<1>1. CASE rows[a].state # "EVENT_LEADER_PROMOTE_CONFIRM"
  BY <1>1, ObjectDecided DEF Promote
<1>2. CASE rows[a].state = "EVENT_LEADER_PROMOTE_CONFIRM"
  <2>1. PromoteAsked(a)
    BY <1>2 DEF PromoteAsked
  <2>2. g \in Games /\ p \in Profiles
    BY <1>2, ReadyMeans DEF SoundRow, EventBound, LeaderStates
  <2>3. Manages(a, g)
    BY <1>2, AnswersManage DEF EventBound, LeaderStates, ViewOnly
  <2>4. Notice("grant", NoGame, p) = <<tell, claim>>
    BY DEF Notice
  <2>5. request = Grants(a, p)
    BY DEF Grants
  <2>6. Promote(a) =>
          \/ Dismiss(a, {})
          \/ request \in rows[a].marks /\ Plan(a, rows[a], <<>> \o <<assign>>, "")
          \/ /\ request \notin rows[a].marks /\ ~same
             /\ Plan(a, rows[a], <<mark>> \o <<assign>>, "")
          \/ /\ request \notin rows[a].marks
             /\ Plan(a, rows[a], (((<<set>> \o <<check>>) \o <<tell, claim>>) \o <<mark>>) \o <<assign>>, "")
          \/ /\ request \notin rows[a].marks
             /\ Plan(a, rows[a], (((<<>> \o <<check>>) \o <<tell, claim>>) \o <<mark>>) \o <<assign>>, "")
    BY <1>2, <2>4 DEF Promote
  <2>7. /\ <<>> \o <<assign>> = <<assign>>
        /\ <<mark>> \o <<assign>> = <<mark, assign>>
        /\ (((<<set>> \o <<check>>) \o <<tell, claim>>) \o <<mark>>) \o <<assign>>
             = <<set, check, tell, claim, mark, assign>>
        /\ (((<<>> \o <<check>>) \o <<tell, claim>>) \o <<mark>>) \o <<assign>> = <<check, tell, claim, mark, assign>>
    <3> HIDE DEF set, check, mark, assign, tell, claim
    <3> QED
      BY AfterNothing, OneAndOne, JoinedSteps
  <2>8. ASSUME ~same PROVE granted[p] # Grants(a, p)
    <3>1. SUFFICES ASSUME granted[p] = Grants(a, p) PROVE FALSE
      OBVIOUS
    <3>2. By(Received(a).id, granted[p])
      BY <3>1 DEF By, Grants, Requested, NoRequest
    <3>3. RoleRecord(a, p)
      BY <2>2, <3>2, ReadyMeans DEF Records
    <3>4. ~GrantAsked(a) /\ ~RevokeAsked(a)
      BY <2>1, Alone
    <3>5. roles[p] = "moderator"
      BY <3>3, <3>4 DEF RoleRecord
    <3> QED
      BY <2>5, <2>8, <3>1, <3>5
  <2>9. ASSUME NEW todo, Plan(a, rows[a], todo, ""),
               \/ todo = <<assign>> /\ request \in rows[a].marks
               \/ todo = <<mark, assign>> /\ ~same
               \/ todo = <<set, check, tell, claim, mark, assign>> /\ request \notin rows[a].marks
               \/ todo = <<check, tell, claim, mark, assign>>
        PROVE  Decided(a)
    <3>1. PICK t : t = NewTurn(a, rows[a], todo, "")
      OBVIOUS
    <3>2. t.todo = todo /\ t.note = "" /\ t.row = rows[a] /\ g \in t.manages
      BY <2>2, <2>3, <3>1 DEF NewTurn
    <3>3. PromoteTurn(a, t)
      BY <2>1, <2>2, <2>5, <2>8, <2>9, <3>2 DEF PromoteTurn, Alike
    <3> QED
      BY <2>9, <3>1, <3>3, ReadyMeans, TurnDecided
  <2>10. CASE Dismiss(a, {})
    BY <2>10, DismissDecided, PlainKeySafe
  <2> HIDE DEF set, check, mark, assign, tell, claim, request, same
  <2> QED
    BY <2>6, <2>7, <2>9, <2>10
<1> QED
  BY <1>1, <1>2

LEMMA HeadOfConcat ==
    ASSUME NEW S, NEW s \in Seq(S), NEW e
    PROVE  <<e>> \o s # <<>> /\ Head(<<e>> \o s) = e /\ Tail(<<e>> \o s) = s
<1> DEFINE T == S \cup {e}
           u == <<e>> \o s
<1>1. s \in Seq(T)
  OBVIOUS
<1>2. <<e>> \in Seq(T) /\ Len(<<e>>) = 1 /\ <<e>>[1] = e
  OBVIOUS
<1>3. u \in Seq(T) /\ Len(u) = 1 + Len(s) /\ \A i \in 1 .. 1 + Len(s) : u[i] = IF i <= 1 THEN e ELSE s[i - 1]
  BY <1>1, <1>2, ConcatProperties
<1> HIDE DEF u, T
<1>4. Len(s) \in Nat
  BY <1>1
<1>5. u # <<>> /\ u[1] = e
  BY <1>3, <1>4
<1>6. Head(u) = e
  BY <1>5
<1>7. Tail(u) \in Seq(T) /\ Len(Tail(u)) = Len(s) /\ \A i \in 1 .. Len(s) : Tail(u)[i] = u[i + 1]
  BY <1>3, <1>4, <1>5
<1>8. \A i \in 1 .. Len(s) : Tail(u)[i] = s[i]
  BY <1>3, <1>4, <1>7
<1>9. Tail(u) = s
  BY <1>1, <1>7, <1>8, SeqEqual
<1> QED
  BY <1>5, <1>6, <1>9 DEF u

LEMMA FirstPart ==
    ASSUME NEW S, NEW s \in Seq(S), NEW T, NEW u \in Seq(T), NEW i \in DOMAIN s
    PROVE  i \in DOMAIN (s \o u) /\ (s \o u)[i] = s[i]
<1> DEFINE U == S \cup T
           r == s \o u
<1>1. s \in Seq(U) /\ u \in Seq(U) /\ Len(s) \in Nat /\ Len(u) \in Nat /\ i \in 1 .. Len(s)
  OBVIOUS
<1>2. r \in Seq(U) /\ Len(r) = Len(s) + Len(u) /\ \A j \in 1 .. Len(s) + Len(u) : r[j] = IF j <= Len(s) THEN s[j] ELSE u[j - Len(s)]
  BY <1>1, ConcatProperties
<1> HIDE DEF r, U
<1>3. i \in 1 .. Len(s) + Len(u) /\ i <= Len(s)
  BY <1>1
<1>4. DOMAIN r = 1 .. Len(r)
  BY <1>2
<1>5. i \in DOMAIN r /\ r[i] = s[i]
  BY <1>2, <1>3, <1>4
<1> QED
  BY <1>5 DEF r

\* Somebody who has the role already was given it by another message, or is
\* told now.
LEMMA NothingGranted ==
    ASSUME NEW a, pending[a] # {}, Records(a), GrantAsked(a), NEW p \in Profiles, p = Pressed(a).who,
           IsAdmin(p) \/ ~SameOperation(a, p)
    PROVE  Settled(a)
<1>1. Records(a) /\ pending[a] # {}
  OBVIOUS
<1>2. ~RevokeAsked(a) /\ ~RemovalAsked(a) /\ ~AddsSomebody(a) /\ ~PromoteAsked(a)
  BY Alone
<1>3. ASSUME NEW h \in Games, NEW q \in Profiles, By(Received(a).id, changed[h][q]) PROVE FALSE
  <2>1. LeaderRecord(a, h, q)
    BY <1>1, <1>3 DEF Records
  <2>2. ~AdditionAsked(a, h, q)
    BY <1>2, Alone
  <2> QED
    BY <1>2, <2>1, <2>2 DEF LeaderRecord
<1>4. ASSUME NEW q \in Profiles, By(Received(a).id, granted[q]) PROVE Disputed(Received(a).id, q)
  <2>1. q \in Linked(p) /\ ~IsAdmin(p) /\ granted[p] # NoRequest
    BY <1>1, <1>2, <1>4 DEF Records, RoleRecord
  <2>2. ASSUME By(Received(a).id, granted[p]) PROVE FALSE
    <3>1. RoleRecord(a, p)
      BY <1>1, <2>2 DEF Records
    <3>2. granted[p] = Grants(a, p) /\ roles[p] = rows[a].role
      BY <1>2, <3>1 DEF RoleRecord
    <3> QED
      BY <2>1, <3>2 DEF SameOperation, Grants
  <2>3. NotBy(Received(a).id, granted[p])
    BY <2>1, <2>2 DEF By, NotBy
  <2>4. p \in Linked(q)
    BY <2>1, OnePerson
  <2> QED
    BY <2>3, <2>4 DEF Disputed
<1> QED
  BY <1>3, <1>4 DEF Settled

\* _grant_gamemaster
LEMMA GrantDecided ==
    ASSUME NEW a, Ready(a), ~Outdated(a), rows[a].state = "GAMEMASTER_PROFILE",
           Pressed(a).value \notin Clearing \cup Roots, Pressed(a).value \notin RoleCallbacks, Grant(a)
    PROVE  Decided(a)
<1> DEFINE p == Pressed(a).who
           role == rows[a].role
           others == {q \in Linked(p) \ {p} : roles[q] # role}
           own == IF roles[p] = role /\ SameOperation(a, p) THEN {} ELSE {p}
           writes(who) == SetToSeq({Do("set-role", NoGame, q, role) : q \in who})
           check == Do("check-role", NoGame, p, role)
           done == <<Do("clear", NoGame, NoOne, "")>>
           notice == Notice("grant", NoGame, p)
           told0 == <<check>> \o Telling("grant", NoGame, p)
           row == [rows[a] EXCEPT !.who = p]
<1>1. GrantAsked(a) /\ Answering(a)
  BY DEF GrantAsked, Answering
<1>2. p \in Profiles \cup {NoOne} /\ (~Received(a).good => p = NoOne)
  BY NamedIsKnown, ReadyMeans DEF Roots, IsMessage, Pressed
<1>3. CASE Refuse(a)
  BY <1>3, RefuseDecided
<1>4. CASE p = NoOne /\ Say(a, rows[a], {Plain("mod:menu")})
  <2>1. Settled(a)
    BY <1>1, <1>4, NobodyNamed
  <2>2. SafeKeys({Plain("mod:menu")}) /\ Plain("mod:menu").who = NoOne
    BY PlainKeySafe, PlainFields
  <2>3. \A b \in {Plain("mod:menu")} : b.who \in Profiles \cup {NoOne}
    BY <2>2
  <2> QED
    BY <1>4, <2>1, <2>2, <2>3, SayHere
<1>5. CASE p \in Profiles /\ (IsAdmin(p) \/ ~SameOperation(a, p)) /\ Leave(a, {})
  BY <1>1, <1>5, NothingGranted, ReadyMeans, LeaveDecided, PlainKeySafe
<1>6. CASE /\ p \in Profiles /\ ~IsAdmin(p)
           /\ Plan(a, row, (((writes(own) \o writes(others)) \o <<check>>) \o notice) \o done, "")
  <2>1. Linked(p) \subseteq Profiles /\ p \in Linked(p) /\ own \subseteq Linked(p) /\ others \subseteq Linked(p)
    BY <1>6, OnePerson
  <2>2. writes(own) \in Seq(RoleWrites(p, role)) /\ writes(others) \in Seq(RoleWrites(p, role))
    BY <1>6, <2>1, EffectsAsSequence DEF RoleWrites
  <2>3. PICK w : w = writes(own) \o writes(others)
    OBVIOUS
  <2>4. w \in Seq(RoleWrites(p, role))
    <3> HIDE DEF writes, own, others
    <3> QED
      BY <2>2, <2>3, ConcatProperties
  <2>5. Head(w).who = p \/ granted[p] # NoRequest
    <3>1. CASE own = {}
      BY <3>1 DEF SameOperation, Requested, NoRequest
    <3>2. CASE own # {}
      <4>1. PICK e : e = Do("set-role", NoGame, p, role)
        OBVIOUS
      <4>2. {Do("set-role", NoGame, q, role) : q \in own} = {e}
        BY <3>2, <4>1
      <4>3. writes(own) = <<e>>
        BY <4>2, OneEffect
      <4>4. w = <<e>> \o writes(others)
        BY <2>3, <4>3
      <4>5. Head(w) = e
        <5> HIDE DEF writes, others
        <5> QED
          BY <2>2, <4>4, HeadOfConcat
      <4> QED
        BY <4>1, <4>5 DEF Do
    <3> QED
      BY <3>1, <3>2
  <2>6. ((w \o <<check>>) \o notice) \o done = w \o told0
    <3>1. PICK S, C, u, v : S = RoleWrites(p, role) /\ C = {check} /\ u = <<check>> /\ v = w \o u
      OBVIOUS
    <3> HIDE DEF check, p, role, writes, others, own
    <3>2. w \in Seq(S) /\ u \in Seq(C)
      BY <2>4, <3>1
    <3>3. v \in Seq(S \cup C)
      <4>1. w \in Seq(S \cup C) /\ u \in Seq(S \cup C)
        BY <3>2
      <4> QED
        BY <3>1, <4>1, ConcatProperties
    <3>4. (v \o Notice("grant", NoGame, p)) \o Ending = v \o Telling("grant", NoGame, p)
      BY <3>3, ToldNow
    <3>5. (w \o u) \o Telling("grant", NoGame, p) = w \o (u \o Telling("grant", NoGame, p))
      BY <3>2, CheckedAndTold
    <3>6. done = Ending
      BY DEF Ending
    <3> HIDE DEF done
    <3> QED
      BY <3>1, <3>4, <3>5, <3>6
  <2>7. PICK todo : todo = w \o told0
    OBVIOUS
  <2>8. Plan(a, row, todo, "")
    BY <1>6, <2>3, <2>6, <2>7
  <2>9. /\ DOMAIN row = RowFields /\ row.who = p /\ row.state = "GAMEMASTER_PROFILE" /\ row.game = rows[a].game
        /\ row.role = rows[a].role /\ row.token = rows[a].token /\ row.marks = rows[a].marks
        /\ row.buttons = rows[a].buttons
    BY ReadyMeans DEF IsRow, RowFields
  <2> HIDE DEF row
  <2>10. OwnRow(a, row)
    <3>1. OwnRow(a, rows[a]) /\ SoundRow(rows[a])
      BY ReadyMeans
    <3>2. "GAMEMASTER_PROFILE" \notin EventBound \cup DOMAIN Following \cup DOMAIN Sending
      BY DEF EventBound, EditStates, Scheduling, LeaderStates, RosterStates, Following, Sending
    <3>3. SoundRow(row) /\ HadRole(row) /\ ~Holding(row)
      BY <2>9, <3>1, <3>2 DEF SoundRow, HadRole, Holding
    <3> QED
      BY <2>9, <3>1, <3>3 DEF OwnRow, IsRow
  <2>11. PICK t : t = NewTurn(a, row, todo, "")
    OBVIOUS
  <2>12. t.todo = todo /\ t.note = "" /\ t.row = row
    BY <2>11 DEF NewTurn
  <2>13. GrantTurn(a, t)
    BY <1>1, <1>6, <2>4, <2>5, <2>7, <2>9, <2>12 DEF GrantTurn
  <2> QED
    BY <2>8, <2>10, <2>11, <2>13, TurnDecided
<1>7. Grant(a) =>
        \/ Refuse(a)
        \/ p = NoOne /\ Say(a, rows[a], {Plain("mod:menu")})
        \/ p \in Profiles /\ (IsAdmin(p) \/ ~SameOperation(a, p)) /\ Leave(a, {})
        \/ /\ p \in Profiles /\ ~IsAdmin(p)
           /\ Plan(a, row, (((writes(own) \o writes(others)) \o <<check>>) \o notice) \o done, "")
  BY <1>2 DEF Grant
<1> QED
  BY <1>3, <1>4, <1>5, <1>6, <1>7

(***************************************************************************)
(* Revocations                                                             *)
(***************************************************************************)
Cleared(q) == Do("clear-role", NoGame, q, "")

Clears(H) == {Cleared(q) : q \in H}

ClearsInOrder(p, H, w) ==
    w \in Seq(RoleClears(p)) /\ \A q \in H : \E i \in DOMAIN w : w[i] = Cleared(q)

LEMMA ClearsAsSequence ==
    ASSUME NEW p \in Profiles, NEW H, H \subseteq Linked(p)
    PROVE  ClearsInOrder(p, H, SetToSeq(Clears(H)))
<1>0. PICK S : S = Clears(H)
  OBVIOUS
<1> DEFINE f == [q \in H |-> Cleared(q)]
<1>1. f \in Surjection(H, S)
  BY <1>0 DEF Surjection, Clears
<1>2. SetToSeq(S) \in Seq(S) /\ \A x \in S : \E i \in DOMAIN SetToSeq(S) : SetToSeq(S)[i] = x
  <2>1. IsFiniteSet(H)
    BY OnePerson, FS_Subset
  <2>2. IsFiniteSet(S)
    BY <1>1, <2>1, FS_Surjection
  <2> QED
    BY <2>2, SetAsSequence
<1>3. RoleClears(p) = {Cleared(q) : q \in Linked(p)}
  BY Zenon DEF RoleClears, Cleared
<1>4. S \subseteq RoleClears(p)
  BY <1>0, <1>3 DEF Clears
<1>5. SetToSeq(S) \in Seq(RoleClears(p))
  BY <1>2, <1>4
<1>6. \A q \in H : Cleared(q) \in S
  BY <1>0 DEF Clears
<1> QED
  BY <1>0, <1>2, <1>5, <1>6 DEF ClearsInOrder

\* Nobody has a role, and this message took none away.
LEMMA NothingRevoked ==
    ASSUME NEW a, Ready(a), RevokeAsked(a), NEW p \in Profiles, p = rows[a].who, \A q \in Linked(p) : roles[q] = "none",
           granted[p] # Requested(a, "revoke", NoGame, p)
    PROVE  Settled(a)
<1>1. Records(a) /\ pending[a] # {} /\ HadRole(rows[a])
  BY ReadyMeans
<1>2. ~GrantAsked(a) /\ ~RemovalAsked(a) /\ ~AddsSomebody(a) /\ ~PromoteAsked(a)
  BY Alone
<1>3. ASSUME NEW h \in Games, NEW q \in Profiles, By(Received(a).id, changed[h][q]) PROVE FALSE
  <2>1. LeaderRecord(a, h, q)
    BY <1>1, <1>3 DEF Records
  <2>2. ~AdditionAsked(a, h, q)
    BY <1>2, Alone
  <2> QED
    BY <1>2, <2>1, <2>2 DEF LeaderRecord
<1>4. granted[p] # NoRequest
  BY <1>1, OnePerson DEF HadRole, RevokeAsked
<1>5. ASSUME NEW q \in Profiles, By(Received(a).id, granted[q]) PROVE Disputed(Received(a).id, q)
  <2>1. q \in Linked(p)
    BY <1>1, <1>2, <1>5 DEF Records, RoleRecord
  <2>2. ~By(Received(a).id, granted[p])
    BY <1>1, <1>2 DEF Records, RoleRecord
  <2>3. NotBy(Received(a).id, granted[p])
    BY <1>4, <2>2 DEF By, NotBy
  <2>4. p \in Linked(q)
    BY <2>1, OnePerson
  <2> QED
    BY <2>3, <2>4 DEF Disputed
<1> QED
  BY <1>3, <1>5 DEF Settled

LEMMA RevocationDecided ==
    ASSUME NEW a, Ready(a), RevokeAsked(a), NEW todo, Plan(a, rows[a], todo, "revoked"),
           NEW t, t = NewTurn(a, rows[a], todo, "revoked"), RevokeTurn(a, t), Revoked(a, t)
    PROVE  Decided(a)
<1>1. t.told = told[a]
  BY DEF NewTurn
<1>2. TurnOK(a, t)
  BY <1>1, ReadyMeans DEF TurnOK
<1> QED
  BY <1>2, ReadyMeans DEF Decided

\* What a revocation has planned.
LEMMA RevokeMeans ==
    ASSUME NEW a, Revoke(a), RevokeAsked(a), NEW p \in Profiles, p = rows[a].who,
           NEW H, H = {q \in Linked(p) : roles[q] # "none"},
           NEW w, w = SetToSeq({Cleared(q) : q \in H}),
           NEW check, check = <<Do("check-role", NoGame, p, "none")>>
    PROVE  \/ Object(a)
           \/ H = {} /\ granted[p] # Requested(a, "revoke", NoGame, p) /\ Leave(a, {})
           \/ H = {} /\ Plan(a, rows[a], ((w \o <<>>) \o Notice("revoke", NoGame, p)) \o Ending, "revoked")
           \/ H # {} /\ Plan(a, rows[a], ((w \o check) \o Notice("revoke", NoGame, p)) \o Ending, "revoked")
<1>1. p \in Linked(p)
  BY OnePerson
<1>2. CASE H = {}
  BY <1>2, Zenon DEF Revoke, Affected, Cleared, Ending
<1>3. CASE H # {}
  BY <1>1, <1>3, Zenon DEF Revoke, Affected, Cleared, Ending
<1> QED
  BY <1>2, <1>3

LEMMA RevokeDecided ==
    ASSUME NEW a, Ready(a), Pressed(a).value = "mod:remove-confirm", Revoke(a)
    PROVE  Decided(a)
<1>1. CASE Object(a)
  BY <1>1, ObjectDecided
<1>2. CASE ~Object(a)
  <2>1. rows[a].state = "MODERATOR_REMOVE_CONFIRM"
    BY <1>2 DEF Revoke
  <2>2. RevokeAsked(a) /\ rows[a].who \in Profiles
    BY <2>1, ReadyMeans DEF RevokeAsked, SoundRow
  <2>3. PICK p \in Profiles : p = rows[a].who
    BY <2>2
  <2>4. PICK H : H = {q \in Linked(p) : roles[q] # "none"}
    OBVIOUS
  <2>5. PICK S : S = {Cleared(q) : q \in H}
    OBVIOUS
  <2>6. PICK w, check : w = SetToSeq(S) /\ check = <<Do("check-role", NoGame, p, "none")>>
    OBVIOUS
  <2>7. H \subseteq Linked(p) /\ p \in Linked(p) /\ Linked(p) \subseteq Profiles
    BY <2>4, OnePerson
  <2>8. \/ H = {} /\ granted[p] # Requested(a, "revoke", NoGame, p) /\ Leave(a, {})
        \/ H = {} /\ Plan(a, rows[a], ((w \o <<>>) \o Notice("revoke", NoGame, p)) \o Ending, "revoked")
        \/ H # {} /\ Plan(a, rows[a], ((w \o check) \o Notice("revoke", NoGame, p)) \o Ending, "revoked")
    BY <1>2, <2>2, <2>3, <2>4, <2>5, <2>6, RevokeMeans, Zenon
  <2>9. CASE H = {} /\ granted[p] # Requested(a, "revoke", NoGame, p) /\ Leave(a, {})
    <3>1. Settled(a)
      BY <2>2, <2>3, <2>4, <2>9, NothingRevoked
    <3> QED
      BY <2>9, <3>1, LeaveDecided, PlainKeySafe
  <2>10. CASE H = {} /\ Plan(a, rows[a], ((w \o <<>>) \o Notice("revoke", NoGame, p)) \o Ending, "revoked")
    <3>1. w = <<>>
      <4>1. S = {}
        BY <2>5, <2>10
      <4> QED
        BY <2>6, <4>1, NoEffect
    <3>2. PICK e : e = <<>>
      OBVIOUS
    <3>3. w \o <<>> = e
      <4>1. <<>> \in Seq({})
        OBVIOUS
      <4> QED
        BY <3>1, <3>2, <4>1, ConcatEmptySeq
    <3>4. (e \o Notice("revoke", NoGame, p)) \o Ending = e \o Telling("revoke", NoGame, p)
      <4>1. e \in Seq({})
        BY <3>2
      <4> QED
        BY <4>1, ToldNow
    <3>5. e \o Telling("revoke", NoGame, p) = Telling("revoke", NoGame, p)
      BY <3>2, TellingAlone
    <3>6. PICK todo : todo = Telling("revoke", NoGame, p)
      OBVIOUS
    <3>7. Plan(a, rows[a], todo, "revoked")
      BY <2>10, <3>3, <3>4, <3>5, <3>6
    <3>8. PICK t : t = NewTurn(a, rows[a], todo, "revoked")
      OBVIOUS
    <3>9. t.todo = todo /\ t.note = "revoked"
      BY <3>8 DEF NewTurn
    <3>10. RevokeTurn(a, t)
      BY <2>2, <2>3, <3>6, <3>9 DEF RevokeTurn, Announcing
    <3>11. Revoked(a, t)
      BY <2>3, <2>4, <2>10 DEF Revoked
    <3> QED
      BY <2>2, <3>7, <3>8, <3>10, <3>11, RevocationDecided
  <2>11. CASE H # {} /\ Plan(a, rows[a], ((w \o check) \o Notice("revoke", NoGame, p)) \o Ending, "revoked")
    <3>1. /\ w \in Seq(RoleClears(p))
          /\ \A q \in H : \E i \in DOMAIN w : w[i] = Cleared(q)
      <4>1. S = Clears(H)
        BY <2>5 DEF Clears
      <4>2. ClearsInOrder(p, H, SetToSeq(Clears(H)))
        BY <2>3, <2>7, ClearsAsSequence
      <4>3. ClearsInOrder(p, H, w)
        BY <2>6, <4>1, <4>2
      <4> QED
        BY <4>3 DEF ClearsInOrder
    <3>2. PICK R, C, v : R = RoleClears(p) /\ C = {Do("check-role", NoGame, p, "none")} /\ v = w \o check
      OBVIOUS
    <3>3. w \in Seq(R) /\ check \in Seq(C)
      BY <2>6, <3>1, <3>2
    <3>4. v \in Seq(R \cup C)
      <4>1. w \in Seq(R \cup C) /\ check \in Seq(R \cup C)
        BY <3>3
      <4> QED
        BY <3>2, <4>1, ConcatProperties
    <3>5. (v \o Notice("revoke", NoGame, p)) \o Ending = v \o Telling("revoke", NoGame, p)
      BY <3>4, ToldNow
    <3>6. (w \o check) \o Telling("revoke", NoGame, p) = w \o (check \o Telling("revoke", NoGame, p))
      BY <3>3, CheckedAndTold
    <3>7. PICK told0 : told0 = check \o Telling("revoke", NoGame, p)
      OBVIOUS
    <3>8. PICK todo : todo = w \o told0
      OBVIOUS
    <3>9. Plan(a, rows[a], todo, "revoked")
      BY <2>11, <3>2, <3>5, <3>6, <3>7, <3>8
    <3>10. PICK t : t = NewTurn(a, rows[a], todo, "revoked")
      OBVIOUS
    <3>11. t.todo = todo /\ t.note = "revoked" /\ t.row = rows[a]
      BY <3>10 DEF NewTurn
    <3>12. RevokeTurn(a, t)
      BY <2>2, <2>3, <2>6, <3>1, <3>7, <3>8, <3>11 DEF RevokeTurn
    <3>13. \A q \in H : \E i \in DOMAIN todo : todo[i] = Cleared(q)
      <4>1. \E T : told0 \in Seq(T)
        <5>1. PICK D : Telling("revoke", NoGame, p) \in Seq(D)
          BY TellingIsSeq
        <5>2. check \in Seq(C \cup D) /\ Telling("revoke", NoGame, p) \in Seq(C \cup D)
          BY <3>3, <5>1
        <5> QED
          BY <3>7, <5>2, ConcatProperties
      <4> QED
        BY <3>1, <3>3, <3>8, <4>1, FirstPart
    <3>14. Revoked(a, t)
      BY <2>3, <2>4, <3>11, <3>13 DEF Revoked, Cleared
    <3> QED
      BY <2>2, <3>9, <3>10, <3>12, <3>14, RevocationDecided
  <2> QED
    BY <2>8, <2>9, <2>10, <2>11
<1> QED
  BY <1>1, <1>2

(***************************************************************************)
(* A message is taken                                                      *)
(***************************************************************************)
LEMMA CallbackDecided ==
    ASSUME NEW a, Ready(a), ~RightsGone(a), Callback(a)
    PROVE  Decided(a)
<1> DEFINE v == Pressed(a).value
<1>1. CASE v \in RoleCallbacks \ {"mod:remove-confirm", "master:self-add", "master:add-pick",
                                  "master:promote:yes", "master:remove-confirm"}
  <2>1. Settled(a)
    BY <1>1, QuietMessages, QuietSettles
  <2>2. \/ \E mode : ShowModerators(a, mode)
        \/ ViewModerator(a) \/ ViewMaster(a)
        \/ v = "mod:remove-pick" /\ PickModerator(a)
        \/ v \in {"master:add", "master:remove", "master:list"} /\ \E mode : OpenMasters(a, mode)
        \/ \E mode : PageMasters(a, mode)
        \/ AddDirectly(a) \/ DeclinePromotion(a) \/ PickRemoved(a)
    BY <1>1 DEF Callback
  <2> QED
    BY <2>1, <2>2, ModeratorsDecided, ViewDecided, PickModeratorDecided, OpenMastersDecided, PageDecided,
       AddDirectlyDecided, DeclineDecided, PickRemovedDecided
<1>2. CASE v = "mod:remove-confirm"
  BY <1>2, RevokeDecided DEF Callback
<1>3. CASE v = "master:self-add"
  BY <1>3, AddSelfDecided DEF Callback
<1>4. CASE v = "master:add-pick"
  BY <1>4, PickMasterDecided DEF Callback
<1>5. CASE v = "master:promote:yes"
  BY <1>5, PromoteDecided DEF Callback
<1>6. CASE v = "master:remove-confirm"
  BY <1>6, RemoveMasterDecided DEF Callback
<1>7. v \in RoleCallbacks
  BY DEF Callback, RoleCallbacks
<1> QED
  BY <1>1, <1>2, <1>3, <1>4, <1>5, <1>6, <1>7

\* Nothing but a dialogue about a profile is at work on an answer.
LEMMA RoleStepDecided ==
    ASSUME NEW a, Ready(a), ~Outdated(a), ~RightsGone(a), Pressed(a).value \notin RoleCallbacks,
           Pressed(a).value \notin Clearing \cup Roots, RoleStep(a)
    PROVE  Decided(a)
<1>1. CASE rows[a].state = "GAMEMASTER_PROFILE" /\ Grant(a)
  BY <1>1, GrantDecided
<1>2. CASE rows[a].state = "EVENT_LEADER_PROFILE" /\ LeaderProfile(a)
  BY <1>2, LeaderProfileDecided
<1>3. CASE \/ rows[a].state = "GAMEMASTER_PLATFORM" /\ GrantPlatform(a)
           \/ rows[a].state = "EVENT_LEADER_PLATFORM" /\ LeaderPlatform(a)
           \/ rows[a].state = "EVENT_LEADER_PROMOTE_CONFIRM" /\ Remark(a)
  <2>1. Settled(a)
    BY <1>3, QuietMessages, QuietSettles
  <2> QED
    BY <1>3, <2>1, GrantPlatformDecided, LeaderPlatformDecided, RemarkDecided
<1> QED
  BY <1>1, <1>2, <1>3 DEF RoleStep

\* The other dialogues are not in those states.
LEMMA OtherStates ==
    ASSUME NEW a,
           \/ FormStep(a) \/ ChoiceStep(a) \/ QuestionStep(a) \/ RosterStep(a)
           \/ rows[a].state \in ListStates
    PROVE  rows[a].state \notin {"GAMEMASTER_PROFILE", "EVENT_LEADER_PROFILE"}
<1>1. ~(rows[a].state \in {"GAMEMASTER_PROFILE", "EVENT_LEADER_PROFILE"} /\ FormStep(a))
  BY DEF FormStep, Following, Ordering, Writing
<1>2. ~(rows[a].state \in {"GAMEMASTER_PROFILE", "EVENT_LEADER_PROFILE"} /\ ChoiceStep(a))
  BY DEF ChoiceStep, Sending
<1>3. ~(rows[a].state \in {"GAMEMASTER_PROFILE", "EVENT_LEADER_PROFILE"} /\ QuestionStep(a))
  BY DEF QuestionStep
<1>4. ~(rows[a].state \in {"GAMEMASTER_PROFILE", "EVENT_LEADER_PROFILE"} /\ RosterStep(a))
  BY DEF RosterStep, PickState, ConfirmState
<1> QED
  BY <1>1, <1>2, <1>3, <1>4 DEF ListStates

LEMMA AnswerDecided ==
    ASSUME NEW a, Ready(a), TakeAnswer(a)
    PROVE  Decided(a)
<1>1. ~Outdated(a) /\ Pressed(a).value \notin Clearing \cup Roots /\ AdminStep(a)
  BY DEF TakeAnswer
<1>2. CASE Refuse(a)
  BY <1>2, RefuseDecided
<1>3. CASE Dismiss(a, {Plain("games")})
  BY <1>3, DismissDecided, PlainKeySafe
<1>4. CASE ~RightsGone(a) /\ Callback(a)
  BY <1>4, CallbackDecided
<1>5. CASE ~RightsGone(a) /\ Pressed(a).value \notin RoleCallbacks /\ RoleStep(a)
  BY <1>1, <1>5, RoleStepDecided
<1>6. CASE /\ ~RightsGone(a) /\ Pressed(a).value \notin RoleCallbacks
           /\ \/ FormStep(a) \/ ChoiceStep(a) \/ QuestionStep(a) \/ RosterStep(a)
              \/ rows[a].state \in ListStates /\ Leave(a, {})
  <2>1. ~AtWork(a)
    BY <1>6, OtherStates, QuietMessages
  <2>2. Settled(a)
    BY <2>1, QuietSettles
  <2> QED
    BY <1>6, <2>1, <2>2, FormDecided, ChoiceDecided, QuestionStepDecided, RosterDecided, LeaveDecided, PlainKeySafe
<1> QED
  BY <1>1, <1>2, <1>3, <1>4, <1>5, <1>6 DEF AdminStep

LEMMA ClearingDecided ==
    ASSUME NEW a, Ready(a), TakeClearing(a)
    PROVE  Decided(a)
<1>1. Pressed(a).value \in Clearing /\ GameAction(a)
  BY DEF TakeClearing
<1>2. ~AtWork(a)
  BY <1>1, QuietMessages
<1> QED
  BY <1>1, <1>2, GameActionDecided DEF GameActions

LEMMA IdleDecided ==
    ASSUME NEW a, Ready(a), TakeIdle(a)
    PROVE  Decided(a)
<1> DEFINE v == Pressed(a).value
<1>1. rows[a].state = "IDLE"
  BY DEF TakeIdle
<1>2. ~RightsGone(a)
  BY <1>1 DEF RightsGone, EventBound, EditStates, Scheduling, LeaderStates, RosterStates
<1>3. v # "master:self-add" => ~AtWork(a) /\ Settled(a)
  BY <1>1, QuietMessages, QuietSettles
<1>4. "master:self-add" \in RoleCallbacks
      /\ "master:self-add" \notin GameActions \cup {"stats:game", "stats:confirm"} \cup StartValues
  BY DEF RoleCallbacks, GameActions, StartValues, Clearing, Schedules, Opening, Lists
<1>5. CASE v \in GameActions \ Clearing /\ GameAction(a)
  BY <1>3, <1>4, <1>5, GameActionDecided
<1>6. CASE v \in {"stats:game", "stats:confirm"} /\ StatisticsAction(a)
  BY <1>3, <1>4, <1>6, StatisticsDecided
<1>7. CASE v \in StartValues /\ AdminStart(a)
  BY <1>3, <1>4, <1>7, StartDecided
<1>8. CASE v \in RoleCallbacks /\ Callback(a)
  BY <1>2, <1>8, CallbackDecided
<1>9. CASE v \notin RoleCallbacks /\ Leave(a, {Plain("admin")})
  BY <1>3, <1>4, <1>9, LeaveDecided, PlainKeySafe
<1> QED
  BY <1>5, <1>6, <1>7, <1>8, <1>9 DEF TakeIdle

\* Whatever the gateway decides, it may do.
LEMMA TakenDecided ==
    ASSUME IInv, NEW a \in Masters,
           TakeOutdated(a) \/ TakeMenu(a) \/ TakeClearing(a) \/ TakeAnswer(a) \/ TakeIdle(a),
           UNCHANGED gameVars
    PROVE  IInv'
<1>1. Ready(a)
  BY DEF Ready, TakeOutdated, TakeMenu, TakeClearing, TakeAnswer, TakeIdle
<1>2. Decided(a)
  BY <1>1, OutdatedDecided, MenuDecided, ClearingDecided, AnswerDecided, IdleDecided
<1> QED
  BY <1>1, <1>2, PlanStep

(***************************************************************************)
(* What a turn goes on with                                                *)
(***************************************************************************)
Running(a) == IInv /\ a \in Masters /\ turn[a].busy

LEMMA RunningMeans ==
    ASSUME NEW a, Running(a)
    PROVE  /\ a \in Masters /\ a \in Profiles /\ Shapes /\ IInv /\ turn[a].busy = TRUE
           /\ pending[a] = {Received(a)} /\ pending[a] # {}
           /\ IsMessage(Received(a)) /\ Received(a).id \in 1 .. MaxMessages /\ Received(a).id <= sent
           /\ IsRow(rows[a]) /\ SoundRow(rows[a]) /\ IsTurn(turn[a]) /\ IsRow(turn[a].row)
           /\ MessageOK(a) /\ ListsOK(a) /\ Records(a) /\ TurnOK(a, turn[a])
           /\ OwnRow(a, rows[a]) /\ OwnRow(a, turn[a].row)
           /\ Received(a).id \notin Coming
<1>1. a \in Masters /\ a \in Profiles /\ turn[a].busy
  BY RoleManagementAssumption DEF Running
<1>2. Shapes /\ ActorInv(a) /\ IInv
  BY <1>1 DEF IInv, Running
<1>3. /\ pending[a] # {} /\ IsRow(rows[a]) /\ IsTurn(turn[a]) /\ MessageOK(a) /\ ListsOK(a) /\ Records(a)
      /\ TurnOK(a, turn[a])
  BY <1>1, <1>2 DEF ActorInv
<1>4. pending[a] = {Received(a)} /\ IsMessage(Received(a)) /\ Received(a).id <= sent
  BY <1>3 DEF MessageOK
<1>5. Received(a).id \in 1 .. MaxMessages /\ Received(a).id \notin Coming
  <2>1. sent \in Nat
    BY <1>2 DEF Shapes
  <2> QED
    BY <1>4, <2>1 DEF IsMessage, Coming
<1>6. OwnRow(a, rows[a]) /\ OwnRow(a, turn[a].row) /\ SoundRow(rows[a]) /\ turn[a].busy = TRUE
      /\ IsRow(turn[a].row)
  BY <1>1, <1>3, OwnRowsNow DEF IsRow, IsTurn
<1> QED
  BY <1>1, <1>2, <1>3, <1>4, <1>5, <1>6

\* The steps of a notice.
LEMMA NoticeSteps ==
    ASSUME NEW kind, NEW g, NEW p
    PROVE  /\ Telling(kind, g, p) # <<>> /\ Head(Telling(kind, g, p)) = Do("tell", g, p, kind)
           /\ Tail(Telling(kind, g, p)) = Claiming(kind, g, p)
           /\ Tail(Tail(Telling(kind, g, p))) = Ending
           /\ Claiming(kind, g, p) # <<>> /\ Head(Claiming(kind, g, p)) = Do("claim", g, p, kind)
           /\ Tail(Claiming(kind, g, p)) = Ending
           /\ Ending # <<>> /\ Head(Ending).do = "clear" /\ Tail(Ending) = <<>>
           /\ \A i \in DOMAIN Telling(kind, g, p) : Telling(kind, g, p)[i].do # "clear-role"
           /\ \A i \in DOMAIN Claiming(kind, g, p) : Claiming(kind, g, p)[i].do # "clear-role"
           /\ \A i \in DOMAIN Ending : Ending[i].do # "clear-role"
<1>1. PICK x, y, z : x = Do("tell", g, p, kind) /\ y = Do("claim", g, p, kind) /\ z = Do("clear", NoGame, NoOne, "")
  OBVIOUS
<1>2. Telling(kind, g, p) = <<x, y, z>> /\ Claiming(kind, g, p) = <<y, z>> /\ Ending = <<z>>
  BY <1>1 DEF Telling, Claiming, Ending
<1>3. x.do = "tell" /\ y.do = "claim" /\ z.do = "clear"
  BY <1>1 DEF Do
<1>4. /\ <<x, y, z>> # <<>> /\ Head(<<x, y, z>>) = x /\ Tail(<<x, y, z>>) = <<y, z>>
      /\ <<y, z>> # <<>> /\ Head(<<y, z>>) = y /\ Tail(<<y, z>>) = <<z>>
      /\ <<z>> # <<>> /\ Head(<<z>>) = z /\ Tail(<<z>>) = <<>>
  OBVIOUS
<1>5. /\ \A i \in DOMAIN <<x, y, z>> : <<x, y, z>>[i].do # "clear-role"
      /\ \A i \in DOMAIN <<y, z>> : <<y, z>>[i].do # "clear-role"
      /\ \A i \in DOMAIN <<z>> : <<z>>[i].do # "clear-role"
  BY <1>3
<1> QED
  BY <1>1, <1>2, <1>3, <1>4, <1>5

LEMMA HeadTailOfConcat ==
    ASSUME NEW R, NEW w \in Seq(R), w # <<>>, NEW rest \in Seq(R)
    PROVE  w \o rest # <<>> /\ Head(w \o rest) = Head(w) /\ Tail(w \o rest) = Tail(w) \o rest
<1> DEFINE u == w \o rest
           v == Tail(w) \o rest
<1>1. /\ Len(w) \in Nat /\ Len(w) >= 1 /\ Len(rest) \in Nat /\ Head(w) = w[1]
      /\ Tail(w) \in Seq(R) /\ Len(Tail(w)) = Len(w) - 1 /\ \A i \in 1 .. Len(w) - 1 : Tail(w)[i] = w[i + 1]
  OBVIOUS
<1>2. /\ u \in Seq(R) /\ Len(u) = Len(w) + Len(rest)
      /\ \A i \in 1 .. Len(w) + Len(rest) : u[i] = IF i <= Len(w) THEN w[i] ELSE rest[i - Len(w)]
  BY ConcatProperties
<1>3. PICK x : x = Tail(w)
  OBVIOUS
<1>4. /\ v \in Seq(R) /\ Len(v) = Len(x) + Len(rest)
      /\ \A i \in 1 .. Len(x) + Len(rest) : v[i] = IF i <= Len(x) THEN x[i] ELSE rest[i - Len(x)]
  BY <1>1, <1>3, ConcatProperties
<1> HIDE DEF u, v
<1>5. u # <<>> /\ Head(u) = Head(w)
  <2>1. u # <<>> /\ Head(u) = u[1]
    BY <1>1, <1>2
  <2>2. u[1] = w[1]
    BY <1>1, <1>2
  <2> QED
    BY <1>1, <2>1, <2>2
<1>6. Tail(u) \in Seq(R) /\ Len(Tail(u)) = Len(u) - 1 /\ \A i \in 1 .. Len(u) - 1 : Tail(u)[i] = u[i + 1]
  BY <1>2, <1>5
<1>7. Len(Tail(u)) = Len(v)
  BY <1>1, <1>2, <1>3, <1>4, <1>6
<1>8. \A i \in 1 .. Len(v) : Tail(u)[i] = v[i]
  <2> SUFFICES ASSUME NEW i \in 1 .. Len(v) PROVE Tail(u)[i] = v[i]
    OBVIOUS
  <2>1. Tail(u)[i] = u[i + 1] /\ i + 1 \in 1 .. Len(w) + Len(rest) /\ i \in 1 .. Len(x) + Len(rest)
    BY <1>1, <1>2, <1>3, <1>4, <1>6
  <2>2. CASE i + 1 <= Len(w)
    <3>1. u[i + 1] = w[i + 1] /\ v[i] = x[i] /\ x[i] = w[i + 1]
      BY <1>1, <1>2, <1>3, <1>4, <2>1, <2>2
    <3> QED
      BY <2>1, <3>1
  <2>3. CASE ~(i + 1 <= Len(w))
    <3>1. u[i + 1] = rest[i + 1 - Len(w)] /\ v[i] = rest[i - Len(x)] /\ i + 1 - Len(w) = i - Len(x)
      BY <1>1, <1>2, <1>3, <1>4, <2>1, <2>3
    <3> QED
      BY <2>1, <3>1
  <2> QED
    BY <2>2, <2>3
<1>9. Tail(u) = v
  BY <1>4, <1>6, <1>7, <1>8, SeqEqual
<1> QED
  BY <1>5, <1>9 DEF u, v

\* A plan after some steps.
LEMMA StepsThen ==
    ASSUME NEW T, NEW w \in Seq(T), NEW S, NEW rest \in Seq(S), rest # <<>>
    PROVE  /\ w \o rest # <<>>
           /\ w = <<>> => w \o rest = rest
           /\ w # <<>> => /\ Head(w \o rest) = Head(w) /\ Head(w) \in T /\ Tail(w) \in Seq(T)
                         /\ Tail(w \o rest) = Tail(w) \o rest
<1>1. CASE w = <<>>
  <2>1. w \o rest = rest
    BY <1>1, ConcatEmptySeq
  <2> QED
    BY <1>1, <2>1
<1>2. CASE w # <<>>
  <2> DEFINE R == S \cup T
  <2>1. w \in Seq(R) /\ rest \in Seq(R)
    OBVIOUS
  <2>2. Head(w) \in T /\ Tail(w) \in Seq(T)
    BY <1>2
  <2> HIDE DEF R
  <2>3. Head(w \o rest) = Head(w) /\ Tail(w \o rest) = Tail(w) \o rest /\ w \o rest # <<>>
    BY <1>2, <2>1, HeadTailOfConcat
  <2> QED
    BY <1>2, <2>2, <2>3
<1> QED
  BY <1>1, <1>2

\* A check before a notice.
LEMMA CheckFirst ==
    ASSUME NEW check, NEW kind, NEW g, NEW p
    PROVE  /\ <<check>> \o Telling(kind, g, p) # <<>>
           /\ Head(<<check>> \o Telling(kind, g, p)) = check
           /\ Tail(<<check>> \o Telling(kind, g, p)) = Telling(kind, g, p)
           /\ \E S : <<check>> \o Telling(kind, g, p) \in Seq(S)
<1>1. PICK S : Telling(kind, g, p) \in Seq(S)
  BY TellingIsSeq
<1>2. <<check>> \in Seq(S \cup {check}) /\ Telling(kind, g, p) \in Seq(S \cup {check})
  BY <1>1
<1>3. <<check>> \o Telling(kind, g, p) \in Seq(S \cup {check})
  BY <1>2, ConcatProperties
<1> QED
  BY <1>1, <1>3, HeadOfConcat

(***************************************************************************)
(* The first step of a turn                                                *)
(***************************************************************************)
LEMMA AnnouncingHead ==
    ASSUME NEW a, NEW t, NEW kind, NEW g, NEW p, Announcing(a, t, kind, g, p)
    PROVE  /\ t.todo # <<>> /\ Head(t.todo).do \in {"tell", "claim", "clear"}
           /\ \/ /\ Head(t.todo) = Do("tell", g, p, kind) /\ Tail(t.todo) = Claiming(kind, g, p)
                 /\ Tail(Tail(t.todo)) = Ending
              \/ /\ Head(t.todo) = Do("claim", g, p, kind) /\ Tail(t.todo) = Ending
                 /\ Requested(a, kind, g, p) \in heard
              \/ Head(t.todo).do = "clear" /\ Tail(t.todo) = <<>> /\ Settled(a)
           /\ \A i \in DOMAIN t.todo : t.todo[i].do # "clear-role"
<1>1. PICK tell, claim : tell = Do("tell", g, p, kind) /\ claim = Do("claim", g, p, kind)
  OBVIOUS
<1>2. tell.do = "tell" /\ claim.do = "claim"
  BY <1>1 DEF Do
<1>3. CASE t.todo = Telling(kind, g, p)
  BY <1>1, <1>2, <1>3, NoticeSteps
<1>4. CASE t.todo = Claiming(kind, g, p) /\ Requested(a, kind, g, p) \in heard
  BY <1>1, <1>2, <1>4, NoticeSteps
<1>5. CASE t.todo = Ending /\ Settled(a)
  BY <1>5, NoticeSteps
<1> QED
  BY <1>3, <1>4, <1>5 DEF Announcing

\* Another role is to be written.
GrantWriting(t, p, role) ==
    \E q \in Linked(p) :
        /\ Head(t.todo) = Do("set-role", NoGame, q, role) /\ (q = p \/ granted[p] # NoRequest)
        /\ \E v \in Seq(RoleWrites(p, role)) :
             Tail(t.todo) = v \o (<<Do("check-role", NoGame, p, role)>> \o Telling("grant", NoGame, p))

LEMMA GrantHead ==
    ASSUME NEW a, NEW t, GrantTurn(a, t), NEW p, p = Pressed(a).who, NEW role, role = rows[a].role
    PROVE  /\ GrantAsked(a) /\ t.note = "" /\ p \in Profiles /\ ~IsAdmin(p)
           /\ t.todo # <<>>
           /\ \/ /\ t.row.who = p /\ Head(t.todo).do = "set-role"
                 /\ GrantWriting(t, p, role)
              \/ /\ t.row.who = p /\ Head(t.todo).do = "check-role"
                 /\ Head(t.todo) = Do("check-role", NoGame, p, role) /\ Tail(t.todo) = Telling("grant", NoGame, p)
              \/ Announcing(a, t, "grant", NoGame, p) /\ Head(t.todo).do \in {"tell", "claim", "clear"}
<1>1. GrantAsked(a) /\ t.note = "" /\ p \in Profiles /\ ~IsAdmin(p)
  BY DEF GrantTurn
<1>2. CASE Announcing(a, t, "grant", NoGame, p)
  BY <1>1, <1>2, AnnouncingHead
<1>3. ASSUME t.row.who = p,
             NEW w \in Seq(RoleWrites(p, role)),
             t.todo = w \o (<<Do("check-role", NoGame, p, role)>> \o Telling("grant", NoGame, p)),
             w = <<>> \/ Head(w).who = p \/ granted[p] # NoRequest
      PROVE  \/ /\ t.todo # <<>> /\ Head(t.todo).do = "set-role"
                /\ GrantWriting(t, p, role)
             \/ /\ t.todo # <<>> /\ Head(t.todo).do = "check-role"
                /\ Head(t.todo) = Do("check-role", NoGame, p, role) /\ Tail(t.todo) = Telling("grant", NoGame, p)
  <2>1. PICK check : check = Do("check-role", NoGame, p, role)
    OBVIOUS
  <2>2. check.do = "check-role"
    BY <2>1 DEF Do
  <2>3. PICK rest : rest = <<check>> \o Telling("grant", NoGame, p)
    OBVIOUS
  <2>4. PICK todo : todo = w \o rest
    OBVIOUS
  <2>5. t.todo = todo
    BY <1>3, <2>1, <2>3, <2>4
  <2>6. /\ todo # <<>>
        /\ \/ w = <<>> /\ Head(todo) = check /\ Tail(todo) = Telling("grant", NoGame, p)
           \/ /\ w # <<>> /\ Head(todo) = Head(w) /\ Head(w) \in RoleWrites(p, role)
              /\ Tail(w) \in Seq(RoleWrites(p, role)) /\ Tail(todo) = Tail(w) \o rest
    <3>1. PICK T : T = RoleWrites(p, role)
      OBVIOUS
    <3>2. rest # <<>> /\ Head(rest) = check /\ Tail(rest) = Telling("grant", NoGame, p)
      BY <2>3, CheckFirst
    <3>3. PICK S : rest \in Seq(S)
      BY <2>3, CheckFirst
    <3>4. w \in Seq(T)
      BY <3>1
    <3>5. /\ w \o rest # <<>>
          /\ w = <<>> => w \o rest = rest
          /\ w # <<>> => /\ Head(w \o rest) = Head(w) /\ Head(w) \in T /\ Tail(w) \in Seq(T)
                         /\ Tail(w \o rest) = Tail(w) \o rest
      BY <3>2, <3>3, <3>4, StepsThen
    <3> QED
      BY <2>4, <3>1, <3>2, <3>5
  <2>7. CASE w = <<>> /\ Head(todo) = check /\ Tail(todo) = Telling("grant", NoGame, p)
    BY <2>1, <2>2, <2>5, <2>6, <2>7
  <2>8. CASE /\ w # <<>> /\ Head(todo) = Head(w) /\ Head(w) \in RoleWrites(p, role)
             /\ Tail(w) \in Seq(RoleWrites(p, role)) /\ Tail(todo) = Tail(w) \o rest
    <3>1. PICK q \in Linked(p) : Head(w) = Do("set-role", NoGame, q, role)
      BY <2>8 DEF RoleWrites
    <3>2. Head(w).do = "set-role" /\ Head(w).who = q
      BY <3>1 DEF Do
    <3>3. q = p \/ granted[p] # NoRequest
      BY <1>3, <2>8, <3>2
    <3>4. PICK v \in Seq(RoleWrites(p, role)) : v = Tail(w)
      BY <2>8
    <3>5. Tail(todo) = v \o (<<Do("check-role", NoGame, p, role)>> \o Telling("grant", NoGame, p))
      BY <2>1, <2>3, <2>8, <3>4
    <3>6. Head(todo) = Do("set-role", NoGame, q, role) /\ Head(todo).do = "set-role"
      BY <2>8, <3>1, <3>2
    <3> QED
      BY <2>5, <2>6, <3>3, <3>5, <3>6 DEF GrantWriting
  <2> QED
    BY <2>6, <2>7, <2>8
<1>4. \/ Announcing(a, t, "grant", NoGame, p)
      \/ /\ t.row.who = p
         /\ \E w \in Seq(RoleWrites(p, role)) :
              /\ t.todo = w \o (<<Do("check-role", NoGame, p, role)>> \o Telling("grant", NoGame, p))
              /\ w = <<>> \/ Head(w).who = p \/ granted[p] # NoRequest
  BY DEF GrantTurn
<1>5. CASE t.row.who = p /\ \E w \in Seq(RoleWrites(p, role)) :
              /\ t.todo = w \o (<<Do("check-role", NoGame, p, role)>> \o Telling("grant", NoGame, p))
              /\ w = <<>> \/ Head(w).who = p \/ granted[p] # NoRequest
  <2>1. PICK w \in Seq(RoleWrites(p, role)) :
              /\ t.todo = w \o (<<Do("check-role", NoGame, p, role)>> \o Telling("grant", NoGame, p))
              /\ w = <<>> \/ Head(w).who = p \/ granted[p] # NoRequest
    BY <1>5
  <2>2. t.row.who = p
    BY <1>5
  <2> QED
    BY <1>1, <1>3, <2>1, <2>2
<1> QED
  BY <1>2, <1>4, <1>5

\* Another role is to be cleared.
RevokeWriting(t, p) ==
    \E q \in Linked(p) :
        /\ Head(t.todo) = Cleared(q)
        /\ \E v \in Seq(RoleClears(p)) :
             Tail(t.todo) = v \o (<<Do("check-role", NoGame, p, "none")>> \o Telling("revoke", NoGame, p))

LEMMA RevokeHead ==
    ASSUME NEW a, NEW t, RevokeTurn(a, t), NEW p, p = rows[a].who
    PROVE  /\ RevokeAsked(a) /\ t.note = "revoked"
           /\ t.todo # <<>>
           /\ \/ /\ t.row.who = p /\ Head(t.todo).do = "clear-role"
                 /\ RevokeWriting(t, p)
              \/ /\ t.row.who = p /\ Head(t.todo).do = "check-role"
                 /\ Head(t.todo) = Do("check-role", NoGame, p, "none") /\ Tail(t.todo) = Telling("revoke", NoGame, p)
              \/ Announcing(a, t, "revoke", NoGame, p) /\ Head(t.todo).do \in {"tell", "claim", "clear"}
<1>1. RevokeAsked(a) /\ t.note = "revoked"
  BY DEF RevokeTurn
<1>2. CASE Announcing(a, t, "revoke", NoGame, p)
  BY <1>1, <1>2, AnnouncingHead
<1>3. ASSUME NEW w \in Seq(RoleClears(p)),
             t.todo = w \o (<<Do("check-role", NoGame, p, "none")>> \o Telling("revoke", NoGame, p))
      PROVE  \/ /\ t.todo # <<>> /\ Head(t.todo).do = "clear-role"
                /\ RevokeWriting(t, p)
             \/ /\ t.todo # <<>> /\ Head(t.todo).do = "check-role"
                /\ Head(t.todo) = Do("check-role", NoGame, p, "none") /\ Tail(t.todo) = Telling("revoke", NoGame, p)
  <2>1. PICK check : check = Do("check-role", NoGame, p, "none")
    OBVIOUS
  <2>2. check.do = "check-role"
    BY <2>1 DEF Do
  <2>3. PICK rest : rest = <<check>> \o Telling("revoke", NoGame, p)
    OBVIOUS
  <2>4. PICK todo : todo = w \o rest
    OBVIOUS
  <2>5. t.todo = todo
    BY <1>3, <2>1, <2>3, <2>4
  <2>6. /\ todo # <<>>
        /\ \/ w = <<>> /\ Head(todo) = check /\ Tail(todo) = Telling("revoke", NoGame, p)
           \/ /\ w # <<>> /\ Head(todo) = Head(w) /\ Head(w) \in RoleClears(p)
              /\ Tail(w) \in Seq(RoleClears(p)) /\ Tail(todo) = Tail(w) \o rest
    <3>1. PICK T : T = RoleClears(p)
      OBVIOUS
    <3>2. rest # <<>> /\ Head(rest) = check /\ Tail(rest) = Telling("revoke", NoGame, p)
      BY <2>3, CheckFirst
    <3>3. PICK S : rest \in Seq(S)
      BY <2>3, CheckFirst
    <3>4. w \in Seq(T)
      BY <3>1
    <3>5. /\ w \o rest # <<>>
          /\ w = <<>> => w \o rest = rest
          /\ w # <<>> => /\ Head(w \o rest) = Head(w) /\ Head(w) \in T /\ Tail(w) \in Seq(T)
                         /\ Tail(w \o rest) = Tail(w) \o rest
      BY <3>2, <3>3, <3>4, StepsThen
    <3> QED
      BY <2>4, <3>1, <3>2, <3>5
  <2>7. CASE w = <<>> /\ Head(todo) = check /\ Tail(todo) = Telling("revoke", NoGame, p)
    BY <2>1, <2>2, <2>5, <2>6, <2>7
  <2>8. CASE /\ w # <<>> /\ Head(todo) = Head(w) /\ Head(w) \in RoleClears(p)
             /\ Tail(w) \in Seq(RoleClears(p)) /\ Tail(todo) = Tail(w) \o rest
    <3>1. PICK q \in Linked(p) : Head(w) = Cleared(q)
      BY <2>8, Zenon DEF RoleClears, Cleared
    <3>2. Cleared(q).do = "clear-role"
      BY Zenon DEF Cleared, Do
    <3>4. PICK v \in Seq(RoleClears(p)) : v = Tail(w)
      BY <2>8
    <3>5. Tail(todo) = v \o (<<Do("check-role", NoGame, p, "none")>> \o Telling("revoke", NoGame, p))
      BY <2>1, <2>3, <2>8, <3>4
    <3>6. Head(todo) = Cleared(q) /\ Head(todo).do = "clear-role"
      BY <2>8, <3>1, <3>2
    <3> QED
      BY <2>5, <2>6, <3>5, <3>6 DEF RevokeWriting
  <2> QED
    BY <2>6, <2>7, <2>8
<1>4. \/ Announcing(a, t, "revoke", NoGame, p)
      \/ /\ t.row.who = p
         /\ \E w \in Seq(RoleClears(p)) :
              t.todo = w \o (<<Do("check-role", NoGame, p, "none")>> \o Telling("revoke", NoGame, p))
  BY DEF RevokeTurn
<1>5. CASE t.row.who = p /\ \E w \in Seq(RoleClears(p)) :
              t.todo = w \o (<<Do("check-role", NoGame, p, "none")>> \o Telling("revoke", NoGame, p))
  <2>1. PICK w \in Seq(RoleClears(p)) :
              t.todo = w \o (<<Do("check-role", NoGame, p, "none")>> \o Telling("revoke", NoGame, p))
    BY <1>5
  <2>2. t.row.who = p
    BY <1>5
  <2> QED
    BY <1>1, <1>3, <2>1, <2>2
<1> QED
  BY <1>2, <1>4, <1>5

\* Plans, one step after another.
LEMMA SixSteps ==
    ASSUME NEW u, NEW v, NEW w, NEW x, NEW y, NEW z, NEW s6, s6 = <<u, v, w, x, y, z>>,
           NEW s5, s5 = <<v, w, x, y, z>>, NEW s4, s4 = <<w, x, y, z>>, NEW s3, s3 = <<x, y, z>>,
           NEW s2, s2 = <<y, z>>, NEW s1, s1 = <<z>>
    PROVE  /\ s6 # <<>> /\ Head(s6) = u /\ Tail(s6) = s5
           /\ s5 # <<>> /\ Head(s5) = v /\ Tail(s5) = s4
           /\ s4 # <<>> /\ Head(s4) = w /\ Tail(s4) = s3
           /\ s3 # <<>> /\ Head(s3) = x /\ Tail(s3) = s2
           /\ s2 # <<>> /\ Head(s2) = y /\ Tail(s2) = s1
           /\ s1 # <<>> /\ Head(s1) = z /\ Tail(s1) = <<>>
<1>1. s6 # <<>> /\ Head(s6) = u /\ Tail(s6) = s5
  OBVIOUS
<1>2. s5 # <<>> /\ Head(s5) = v /\ Tail(s5) = s4
  OBVIOUS
<1>3. s4 # <<>> /\ Head(s4) = w /\ Tail(s4) = s3
  OBVIOUS
<1>4. s3 # <<>> /\ Head(s3) = x /\ Tail(s3) = s2
  OBVIOUS
<1>5. s2 # <<>> /\ Head(s2) = y /\ Tail(s2) = s1
  OBVIOUS
<1>6. s1 # <<>> /\ Head(s1) = z /\ Tail(s1) = <<>>
  OBVIOUS
<1> QED
  BY <1>1, <1>2, <1>3, <1>4, <1>5, <1>6

\* Steps before a notice.
LEMMA StepsAndTold ==
    ASSUME NEW M, NEW s \in Seq(M), s # <<>>, NEW kind, NEW g, NEW p
    PROVE  /\ s \o Telling(kind, g, p) # <<>>
           /\ Head(s \o Telling(kind, g, p)) = Head(s)
           /\ Tail(s \o Telling(kind, g, p)) = Tail(s) \o Telling(kind, g, p)
<1>1. PICK S, told0 : told0 = Telling(kind, g, p) /\ told0 \in Seq(S)
  BY TellingIsSeq
<1>2. PICK R : R = M \cup S
  OBVIOUS
<1>3. s \in Seq(R) /\ told0 \in Seq(R)
  <2>1. M \subseteq R /\ S \subseteq R
    BY <1>2
  <2> QED
    BY <1>1, <2>1
<1> QED
  BY <1>1, <1>3, HeadTailOfConcat

\* Steps of a promotion and of an addition.
PromotionSet(p) == Do("set-role", NoGame, p, "moderator")
PromotionTell(p) == Do("tell", NoGame, p, "grant")
PromotionClaim(p) == Do("claim", NoGame, p, "grant")
PromotionMark(p) == Do("mark", NoGame, p, "grant")
PromotionCheck(p) == Do("check-promotion", NoGame, p, "")
Assigning(g, p) == Do("assign", g, p, "")
Adding(g, p) == Do("add-leader", g, p, "")
LeaderCheck(g, p) == Do("check-leader", g, p, "")
Removing(g, p) == Do("remove-leader", g, p, "")

\* Where a promotion stands, and how it goes on.
PromotionStep(a, t, p) ==
    /\ PromoteAsked(a) /\ t.note = "" /\ rows[a].game \in t.manages \cap Games /\ Alike(t.row, rows[a])
    /\ t.todo # <<>>
    /\ Head(t.todo).do \in {"set-role", "check-promotion", "tell", "claim", "mark", "assign"}
    /\ \/ /\ Head(t.todo) = PromotionSet(p) /\ Head(t.todo).do = "set-role"
          /\ Tail(t.todo) = <<PromotionCheck(p), PromotionTell(p), PromotionClaim(p), PromotionMark(p),
                              Assigning(rows[a].game, p)>>
          /\ Grants(a, p) \notin rows[a].marks
       \/ /\ Head(t.todo) = PromotionCheck(p) /\ Head(t.todo).do = "check-promotion"
          /\ Tail(t.todo) = <<PromotionTell(p), PromotionClaim(p), PromotionMark(p), Assigning(rows[a].game, p)>>
          /\ Tail(Tail(Tail(t.todo))) = <<PromotionMark(p), Assigning(rows[a].game, p)>>
       \/ /\ Head(t.todo) = PromotionTell(p) /\ Head(t.todo).do = "tell"
          /\ Tail(t.todo) = <<PromotionClaim(p), PromotionMark(p), Assigning(rows[a].game, p)>>
          /\ Tail(Tail(t.todo)) = <<PromotionMark(p), Assigning(rows[a].game, p)>>
       \/ /\ Head(t.todo) = PromotionClaim(p) /\ Head(t.todo).do = "claim"
          /\ Tail(t.todo) = <<PromotionMark(p), Assigning(rows[a].game, p)>>
          /\ Grants(a, p) \in heard
       \/ /\ Head(t.todo) = PromotionMark(p) /\ Head(t.todo).do = "mark"
          /\ Tail(t.todo) = <<Assigning(rows[a].game, p)>>
          /\ (granted[p] = Grants(a, p) => Grants(a, p) \in heard)
       \/ /\ Head(t.todo) = Assigning(rows[a].game, p) /\ Head(t.todo).do = "assign" /\ Tail(t.todo) = <<>>
          /\ Grants(a, p) \in rows[a].marks

LEMMA PromoteHead ==
    ASSUME NEW a, NEW t, PromoteTurn(a, t), NEW p, p = rows[a].who
    PROVE  PromotionStep(a, t, p)
<1>0. PICK g, check, tell, claim, mark, assign, set :
        /\ g = rows[a].game /\ check = PromotionCheck(p) /\ tell = PromotionTell(p)
        /\ claim = PromotionClaim(p) /\ mark = PromotionMark(p)
        /\ assign = Assigning(g, p) /\ set = PromotionSet(p)
  OBVIOUS
<1>1. /\ set.do = "set-role" /\ check.do = "check-promotion" /\ tell.do = "tell" /\ claim.do = "claim"
      /\ mark.do = "mark" /\ assign.do = "assign"
  BY <1>0, Zenon DEF Do, PromotionCheck, PromotionTell, PromotionClaim, PromotionMark, Assigning, PromotionSet
<1>2. /\ PromoteAsked(a) /\ t.note = "" /\ g \in t.manages \cap Games /\ Alike(t.row, rows[a])
      /\ \/ /\ t.todo = <<set, check, tell, claim, mark, assign>>
            /\ Grants(a, p) \notin rows[a].marks
         \/ t.todo = <<check, tell, claim, mark, assign>>
         \/ t.todo = <<tell, claim, mark, assign>>
         \/ t.todo = <<claim, mark, assign>> /\ Grants(a, p) \in heard
         \/ t.todo = <<mark, assign>> /\ (granted[p] = Grants(a, p) => Grants(a, p) \in heard)
         \/ t.todo = <<assign>> /\ Grants(a, p) \in rows[a].marks
  BY <1>0, Zenon DEF PromoteTurn, PromotionCheck, PromotionTell, PromotionClaim, PromotionMark, Assigning, PromotionSet
<1>4. PICK s6, s5, s4, s3, s2, s1 :
        /\ s6 = <<set, check, tell, claim, mark, assign>> /\ s5 = <<check, tell, claim, mark, assign>>
        /\ s4 = <<tell, claim, mark, assign>> /\ s3 = <<claim, mark, assign>>
        /\ s2 = <<mark, assign>> /\ s1 = <<assign>>
  OBVIOUS
<1>5. /\ s6 # <<>> /\ Head(s6) = set /\ Tail(s6) = s5
      /\ s5 # <<>> /\ Head(s5) = check /\ Tail(s5) = s4
      /\ s4 # <<>> /\ Head(s4) = tell /\ Tail(s4) = s3
      /\ s3 # <<>> /\ Head(s3) = claim /\ Tail(s3) = s2
      /\ s2 # <<>> /\ Head(s2) = mark /\ Tail(s2) = s1
      /\ s1 # <<>> /\ Head(s1) = assign /\ Tail(s1) = <<>>
  BY <1>4, SixSteps
<1>6. \/ t.todo = s6 /\ Grants(a, p) \notin rows[a].marks
      \/ t.todo = s5
      \/ t.todo = s4
      \/ t.todo = s3 /\ Grants(a, p) \in heard
      \/ t.todo = s2 /\ (granted[p] = Grants(a, p) => Grants(a, p) \in heard)
      \/ t.todo = s1 /\ Grants(a, p) \in rows[a].marks
  BY <1>2, <1>4
<1>7. \/ /\ Head(t.todo) = set /\ Tail(t.todo) = s5 /\ Grants(a, p) \notin rows[a].marks
      \/ /\ Head(t.todo) = check /\ Tail(t.todo) = s4 /\ Tail(Tail(Tail(t.todo))) = s2
      \/ /\ Head(t.todo) = tell /\ Tail(t.todo) = s3 /\ Tail(Tail(t.todo)) = s2
      \/ /\ Head(t.todo) = claim /\ Tail(t.todo) = s2 /\ Grants(a, p) \in heard
      \/ /\ Head(t.todo) = mark /\ Tail(t.todo) = s1
         /\ (granted[p] = Grants(a, p) => Grants(a, p) \in heard)
      \/ /\ Head(t.todo) = assign /\ Tail(t.todo) = <<>> /\ Grants(a, p) \in rows[a].marks
  BY <1>5, <1>6
<1>8. t.todo # <<>>
  BY <1>5, <1>6
<1> QED
  BY <1>0, <1>1, <1>2, <1>4, <1>7, <1>8 DEF PromotionStep

LEMMA AddHead ==
    ASSUME NEW a, NEW t, NEW g, NEW p, AddsAs(a, t, g, p),
           NEW request, request = Requested(a, "leader-grant", g, p),
           NEW mark, mark = Do("mark", g, p, "leader-grant"),
           NEW add, add = Adding(g, p),
           NEW check, check = LeaderCheck(g, p)
    PROVE  /\ AdditionAsked(a, g, p) /\ t.note = "" /\ (PromoteAsked(a) => Grants(a, p) \in rows[a].marks)
           /\ t.todo # <<>>
           /\ \/ /\ Head(t.todo) = mark /\ mark.do = "mark"
                 /\ Tail(t.todo) = <<add, check>> \o Telling("leader-grant", g, p)
                 /\ g \in t.manages /\ Alike(t.row, rows[a]) /\ KeepsAccess(a, p)
              \/ /\ Head(t.todo) = add /\ add.do = "add-leader"
                 /\ Tail(t.todo) = <<check>> \o Telling("leader-grant", g, p)
                 /\ g \in t.manages /\ request \in rows[a].marks /\ KeepsAccess(a, p)
              \/ /\ Head(t.todo) = check /\ check.do = "check-leader"
                 /\ Tail(t.todo) = Telling("leader-grant", g, p)
              \/ Announcing(a, t, "leader-grant", g, p) /\ Head(t.todo).do \in {"tell", "claim", "clear"}
<1>1. mark.do = "mark" /\ add.do = "add-leader" /\ check.do = "check-leader"
  BY Zenon DEF Do, PromotionCheck, Assigning, Adding, LeaderCheck, Removing
<1>2. /\ AdditionAsked(a, g, p) /\ t.note = "" /\ (PromoteAsked(a) => Grants(a, p) \in rows[a].marks)
      /\ \/ /\ t.todo = <<mark, add, check>> \o Telling("leader-grant", g, p)
            /\ g \in t.manages /\ Alike(t.row, rows[a]) /\ KeepsAccess(a, p)
         \/ /\ t.todo = <<add, check>> \o Telling("leader-grant", g, p)
            /\ g \in t.manages /\ request \in rows[a].marks /\ KeepsAccess(a, p)
         \/ t.todo = <<check>> \o Telling("leader-grant", g, p)
         \/ Announcing(a, t, "leader-grant", g, p)
  BY Zenon DEF AddsAs, Adding, LeaderCheck
<1>3. CASE Announcing(a, t, "leader-grant", g, p)
  BY <1>2, <1>3, AnnouncingHead
<1>4. PICK kind : kind = "leader-grant"
  OBVIOUS
<1>5. PICK s3, s2, s1, M :
        s3 = <<mark, add, check>> /\ s2 = <<add, check>> /\ s1 = <<check>> /\ M = {mark, add, check}
  OBVIOUS
<1>6. s3 # <<>> /\ Head(s3) = mark /\ Tail(s3) = s2 /\ s2 # <<>> /\ Head(s2) = add /\ Tail(s2) = s1
  BY <1>5
<1>7. mark \in M /\ add \in M /\ check \in M
  BY <1>5
<1>8. s3 \in Seq(M) /\ s2 \in Seq(M)
  BY <1>5, <1>7
<1>9. /\ s3 \o Telling(kind, g, p) # <<>> /\ Head(s3 \o Telling(kind, g, p)) = mark
      /\ Tail(s3 \o Telling(kind, g, p)) = s2 \o Telling(kind, g, p)
      /\ s2 \o Telling(kind, g, p) # <<>> /\ Head(s2 \o Telling(kind, g, p)) = add
      /\ Tail(s2 \o Telling(kind, g, p)) = s1 \o Telling(kind, g, p)
  <2>1. ASSUME NEW s \in Seq(M), s # <<>>
        PROVE  /\ s \o Telling(kind, g, p) # <<>> /\ Head(s \o Telling(kind, g, p)) = Head(s)
               /\ Tail(s \o Telling(kind, g, p)) = Tail(s) \o Telling(kind, g, p)
    BY <2>1, StepsAndTold
  <2> QED
    BY <1>6, <1>8, <2>1
<1>10. s1 \o Telling(kind, g, p) # <<>> /\ Head(s1 \o Telling(kind, g, p)) = check
       /\ Tail(s1 \o Telling(kind, g, p)) = Telling(kind, g, p)
  BY <1>5, CheckFirst
<1>11. CASE /\ t.todo = <<mark, add, check>> \o Telling("leader-grant", g, p)
            /\ g \in t.manages /\ Alike(t.row, rows[a]) /\ KeepsAccess(a, p)
  BY <1>1, <1>2, <1>4, <1>5, <1>9, <1>10, <1>11
<1>12. CASE /\ t.todo = <<add, check>> \o Telling("leader-grant", g, p)
            /\ g \in t.manages /\ request \in rows[a].marks /\ KeepsAccess(a, p)
  BY <1>1, <1>2, <1>4, <1>5, <1>9, <1>10, <1>12
<1>13. CASE t.todo = <<check>> \o Telling("leader-grant", g, p)
  BY <1>1, <1>2, <1>4, <1>5, <1>9, <1>10, <1>13
<1> QED
  BY <1>2, <1>3, <1>11, <1>12, <1>13

LEMMA RemoveNote == ASSUME NEW a, NEW t, RemoveTurn(a, t) PROVE t.note = ""
  BY Zenon DEF RemoveTurn

Marking(kind, g, p) == Do("mark", g, p, kind)

\* Where the removal of a master stands.
RemovalStep(a, t, g, p) ==
    /\ RemovalAsked(a) /\ g \in Games /\ p \in Profiles
    /\ t.todo # <<>>
    /\ \/ /\ Head(t.todo) = Marking("leader-revoke", g, p) /\ Head(t.todo).do = "mark"
          /\ Tail(t.todo) = <<Removing(g, p)>> \o Telling("leader-revoke", g, p)
          /\ g \in t.manages /\ Alike(t.row, rows[a])
       \/ /\ Head(t.todo) = Removing(g, p) /\ Head(t.todo).do = "remove-leader"
          /\ Tail(t.todo) = Telling("leader-revoke", g, p)
          /\ g \in t.manages /\ Requested(a, "leader-revoke", g, p) \in rows[a].marks
       \/ Announcing(a, t, "leader-revoke", g, p) /\ Head(t.todo).do \in {"tell", "claim", "clear"}

LEMMA RemoveHead ==
    ASSUME NEW a, NEW t, RemoveTurn(a, t), NEW g, g = rows[a].game, NEW p, p = rows[a].who
    PROVE  RemovalStep(a, t, g, p)
<1>0. PICK request, mark, remove :
          /\ request = Requested(a, "leader-revoke", g, p) /\ mark = Do("mark", g, p, "leader-revoke")
          /\ remove = Removing(g, p)
  OBVIOUS
<1>1. mark.do = "mark" /\ remove.do = "remove-leader" /\ mark = Marking("leader-revoke", g, p)
  BY <1>0, Zenon DEF Do, Removing, Marking
<1>2. /\ RemovalAsked(a) /\ g \in Games /\ p \in Profiles
      /\ \/ /\ t.todo = <<mark, remove>> \o Telling("leader-revoke", g, p)
            /\ g \in t.manages /\ Alike(t.row, rows[a])
         \/ /\ t.todo = <<remove>> \o Telling("leader-revoke", g, p)
            /\ g \in t.manages /\ request \in rows[a].marks
         \/ Announcing(a, t, "leader-revoke", g, p)
  BY <1>0, Zenon DEF RemoveTurn, Removing
<1>3. CASE Announcing(a, t, "leader-revoke", g, p)
  BY <1>2, <1>3, AnnouncingHead DEF RemovalStep
<1>4. PICK kind : kind = "leader-revoke"
  OBVIOUS
<1>5. PICK s2, s1, M : s2 = <<mark, remove>> /\ s1 = <<remove>> /\ M = {mark, remove}
  OBVIOUS
<1>6. s2 # <<>> /\ Head(s2) = mark /\ Tail(s2) = s1
  BY <1>5
<1>7. mark \in M /\ remove \in M
  BY <1>5
<1>8. s2 \in Seq(M)
  BY <1>5, <1>7
<1>9. /\ s2 \o Telling(kind, g, p) # <<>> /\ Head(s2 \o Telling(kind, g, p)) = mark
      /\ Tail(s2 \o Telling(kind, g, p)) = s1 \o Telling(kind, g, p)
  <2>1. ASSUME NEW s \in Seq(M), s # <<>>
        PROVE  /\ s \o Telling(kind, g, p) # <<>> /\ Head(s \o Telling(kind, g, p)) = Head(s)
               /\ Tail(s \o Telling(kind, g, p)) = Tail(s) \o Telling(kind, g, p)
    BY <2>1, StepsAndTold
  <2> QED
    BY <1>6, <1>8, <2>1
<1>10. s1 \o Telling(kind, g, p) # <<>> /\ Head(s1 \o Telling(kind, g, p)) = remove
       /\ Tail(s1 \o Telling(kind, g, p)) = Telling(kind, g, p)
  BY <1>5, CheckFirst
<1>11. CASE /\ t.todo = <<mark, remove>> \o Telling("leader-revoke", g, p)
            /\ g \in t.manages /\ Alike(t.row, rows[a])
  BY <1>0, <1>1, <1>2, <1>4, <1>5, <1>9, <1>10, <1>11 DEF RemovalStep
<1>12. CASE /\ t.todo = <<remove>> \o Telling("leader-revoke", g, p)
            /\ g \in t.manages /\ request \in rows[a].marks
  BY <1>0, <1>1, <1>2, <1>4, <1>5, <1>9, <1>10, <1>12 DEF RemovalStep
<1> QED
  BY <1>2, <1>3, <1>11, <1>12

\* What the step of a turn is about.
StepAbout(e) == [game |-> e.game, who |-> e.who]

LEMMA OrderHead ==
    ASSUME NEW a, NEW t, OrderTurn(a, t), NEW e, e = Head(t.todo)
    PROVE  /\ ~AtWork(a) /\ t.note = "" /\ t.todo # <<>> /\ e.do = "publish" /\ Tail(t.todo) = <<>> /\ e.game \in Games
           /\ e.arg \in {"remove", "promote"} => Pressed(a).about = StepAbout(e)
<1>1. PICK x : x = t.todo[1]
  OBVIOUS
<1>2. PICK y : y = Do("publish", x.game, x.who, x.arg)
  OBVIOUS
<1>3. /\ ~AtWork(a) /\ t.note = "" /\ t.todo # <<>> /\ t.todo = <<y>> /\ x.game \in Games
      /\ x.arg \in {"remove", "promote"} => Pressed(a).about = [game |-> x.game, who |-> x.who]
  BY <1>1, <1>2, Zenon DEF OrderTurn
<1>4. y.do = "publish"
  BY <1>2 DEF Do
<1>5. t.todo[1] = y /\ Head(t.todo) = y /\ Tail(t.todo) = <<>>
  BY <1>3, OneTodo
<1> QED
  BY <1>1, <1>3, <1>4, <1>5 DEF StepAbout

LEMMA WriteHead ==
    ASSUME NEW a, NEW t, WriteTurn(a, t), NEW e, e = Head(t.todo)
    PROVE  /\ ~AtWork(a) /\ t.note = "" /\ t.todo # <<>> /\ e.do \in {"write", "read-back"} /\ Tail(t.todo) = <<>>
           /\ e.game \in t.manages \cap Games /\ t.todo = <<e>>
           /\ e = Do(e.do, e.game, NoOne, e.arg)
<1>1. PICK x : x = t.todo[1]
  OBVIOUS
<1>2. PICK y : (y = Do("write", x.game, NoOne, x.arg) \/ y = Do("read-back", x.game, NoOne, x.arg)) /\ t.todo = <<y>>
  BY <1>1, Zenon DEF WriteTurn
<1>3. ~AtWork(a) /\ t.note = "" /\ t.todo # <<>> /\ t.todo = <<y>> /\ x.game \in t.manages \cap Games
  BY <1>1, <1>2, Zenon DEF WriteTurn
<1>4. y.do \in {"write", "read-back"} /\ y = Do(y.do, y.game, NoOne, y.arg)
  BY <1>2 DEF Do
<1>5. t.todo[1] = y /\ Head(t.todo) = y /\ Tail(t.todo) = <<>>
  BY <1>3, OneTodo
<1> QED
  BY <1>1, <1>3, <1>4, <1>5

\* Which turns a step may belong to.
LEMMA Heads ==
    ASSUME NEW a, NEW t, t.todo # <<>>, NEW what, what = Head(t.todo).do
    PROVE  /\ OrderTurn(a, t) => what = "publish"
           /\ WriteTurn(a, t) => what \in {"write", "read-back"}
           /\ GrantTurn(a, t) => what \in {"set-role", "check-role", "tell", "claim", "clear"}
           /\ RevokeTurn(a, t) => what \in {"clear-role", "check-role", "tell", "claim", "clear"}
           /\ PromoteTurn(a, t) => what \in {"set-role", "check-promotion", "tell", "claim", "mark", "assign"}
           /\ AddTurn(a, t) => what \in {"mark", "add-leader", "check-leader", "tell", "claim", "clear"}
           /\ RemoveTurn(a, t) => what \in {"mark", "remove-leader", "tell", "claim", "clear"}
           /\ ~EndedTurn(a, t)
<1>1. OrderTurn(a, t) => what = "publish"
  BY OrderHead
<1>2. WriteTurn(a, t) => what \in {"write", "read-back"}
  BY WriteHead
<1>3. GrantTurn(a, t) => what \in {"set-role", "check-role", "tell", "claim", "clear"}
  BY GrantHead
<1>4. RevokeTurn(a, t) => what \in {"clear-role", "check-role", "tell", "claim", "clear"}
  BY RevokeHead
<1>5. PromoteTurn(a, t) => what \in {"set-role", "check-promotion", "tell", "claim", "mark", "assign"}
  <2>1. PICK p : p = rows[a].who
    OBVIOUS
  <2>2. PromoteTurn(a, t) => PromotionStep(a, t, p)
    BY <2>1, PromoteHead
  <2> QED
    BY <2>2 DEF PromotionStep
<1>6. AddTurn(a, t) => what \in {"mark", "add-leader", "check-leader", "tell", "claim", "clear"}
  <2> SUFFICES ASSUME NEW g, NEW p, AddsAs(a, t, g, p)
               PROVE  what \in {"mark", "add-leader", "check-leader", "tell", "claim", "clear"}
    BY DEF AddTurn
  <2> QED
    BY AddHead, ZenonT(30)
<1>7. RemoveTurn(a, t) => what \in {"mark", "remove-leader", "tell", "claim", "clear"}
  <2> SUFFICES ASSUME RemoveTurn(a, t) PROVE what \in {"mark", "remove-leader", "tell", "claim", "clear"}
    OBVIOUS
  <2>1. PICK g, p : g = rows[a].game /\ p = rows[a].who
    OBVIOUS
  <2> QED
    BY <2>1, RemoveHead DEF RemovalStep
<1>8. ~EndedTurn(a, t)
  BY DEF EndedTurn
<1> QED
  BY <1>1, <1>2, <1>3, <1>4, <1>5, <1>6, <1>7, <1>8

\* What is told, claimed or cleared in the end.
LEMMA AtTheEnd ==
    ASSUME NEW a, NEW t, TurnOK(a, t), t.todo # <<>>, Head(t.todo).do \in {"tell", "claim", "clear"}, ~PromoteTurn(a, t)
    PROVE  \/ GrantTurn(a, t) /\ Announcing(a, t, "grant", NoGame, Pressed(a).who)
           \/ RevokeTurn(a, t) /\ Announcing(a, t, "revoke", NoGame, rows[a].who)
           \/ \E g \in Games, p \in Profiles : AddsAs(a, t, g, p) /\ Announcing(a, t, "leader-grant", g, p)
           \/ RemoveTurn(a, t) /\ Announcing(a, t, "leader-revoke", rows[a].game, rows[a].who)
<1>1. GrantTurn(a, t) \/ RevokeTurn(a, t) \/ AddTurn(a, t) \/ RemoveTurn(a, t)
  BY Heads DEF TurnOK
<1>2. CASE GrantTurn(a, t)
  BY <1>2, GrantHead
<1>3. CASE RevokeTurn(a, t)
  BY <1>3, RevokeHead
<1>4. CASE AddTurn(a, t)
  <2>1. PICK g \in Games, p \in Profiles : AddsAs(a, t, g, p)
    BY <1>4 DEF AddTurn
  <2>2. Announcing(a, t, "leader-grant", g, p)
    BY <2>1, AddHead
  <2> QED
    BY <2>1, <2>2
<1>5. CASE RemoveTurn(a, t)
  BY <1>5, RemoveHead DEF RemovalStep
<1> QED
  BY <1>1, <1>2, <1>3, <1>4, <1>5

(***************************************************************************)
(* Steps of a turn                                                         *)
(***************************************************************************)
LEMMA InTail ==
    ASSUME NEW S, NEW s \in Seq(S), s # <<>>, NEW i \in DOMAIN s
    PROVE  s[i] = Head(s) \/ \E j \in DOMAIN Tail(s) : Tail(s)[j] = s[i]
<1>1. Len(s) \in Nat /\ DOMAIN s = 1 .. Len(s) /\ Head(s) = s[1]
  OBVIOUS
<1>2. Tail(s) \in Seq(S) /\ Len(Tail(s)) = Len(s) - 1 /\ \A j \in 1 .. Len(s) - 1 : Tail(s)[j] = s[j + 1]
  OBVIOUS
<1>3. CASE i = 1
  BY <1>1, <1>3
<1>4. CASE i # 1
  <2>1. i - 1 \in 1 .. Len(s) - 1 /\ (i - 1) + 1 = i
    BY <1>1, <1>4
  <2>2. Tail(s)[i - 1] = s[i] /\ i - 1 \in DOMAIN Tail(s)
    BY <1>2, <2>1
  <2> QED
    BY <2>2
<1> QED
  BY <1>3, <1>4

\* A turn with another plan.
LEMMA NextTodo ==
    ASSUME NEW t, IsTurn(t), NEW todo, NEW n, n = [t EXCEPT !.todo = todo]
    PROVE  /\ IsTurn(n) /\ n.busy = t.busy /\ n.row = t.row /\ n.told = t.told /\ n.todo = todo /\ n.note = t.note
           /\ n.manages = t.manages
<1>1. DOMAIN n = TurnFields /\ n.busy = t.busy /\ n.row = t.row /\ n.told = t.told /\ n.todo = todo /\ n.note = t.note
      /\ n.manages = t.manages
  BY DEF IsTurn, TurnFields
<1> QED
  BY <1>1 DEF IsTurn

\* Once the roles are cleared nobody is left out.
LEMMA NobodyLeftOut ==
    ASSUME NEW a, NEW t, TurnOK(a, t), t.note = "revoked", t.todo # <<>> => Head(t.todo).do # "clear-role",
           NEW q \in Linked(rows[a].who)
    PROVE  roles[q] = "none" \/ (granted[q] # NoRequest /\ granted[q].kind = "grant")
<1>1. PICK c : c = Cleared(q)
  OBVIOUS
<1>2. c.do = "clear-role"
  BY <1>1, Zenon DEF Cleared, Do
<1>3. \/ roles[q] = "none" \/ (granted[q] # NoRequest /\ granted[q].kind = "grant")
      \/ \E i \in DOMAIN t.todo : t.todo[i] = c
  BY <1>1, Zenon DEF TurnOK, Revoked, Cleared
<1>4. EndedTurn(a, t) \/ RevokeTurn(a, t)
  BY NotedRevoked
<1>5. \A i \in DOMAIN t.todo : t.todo[i].do # "clear-role"
  <2>1. CASE EndedTurn(a, t)
    BY <2>1 DEF EndedTurn
  <2>2. CASE RevokeTurn(a, t)
    <3>1. PICK p, x : p = rows[a].who /\ x = Do("check-role", NoGame, p, "none")
      OBVIOUS
    <3>2. x.do = "check-role"
      BY <3>1 DEF Do
    <3>3. \/ Announcing(a, t, "revoke", NoGame, p)
          \/ /\ t.row.who = p
             /\ \E w \in Seq(RoleClears(p)) : t.todo = w \o (<<x>> \o Telling("revoke", NoGame, p))
      BY <2>2, <3>1, Zenon DEF RevokeTurn
    <3>4. CASE Announcing(a, t, "revoke", NoGame, p)
      BY <3>4, AnnouncingHead
    <3>5. ASSUME NEW w \in Seq(RoleClears(p)), t.todo = w \o (<<x>> \o Telling("revoke", NoGame, p))
          PROVE  \A i \in DOMAIN t.todo : t.todo[i].do # "clear-role"
      <4>1. PICK rest : rest = <<x>> \o Telling("revoke", NoGame, p)
        OBVIOUS
      <4>2. rest # <<>> /\ Head(rest) = x /\ Tail(rest) = Telling("revoke", NoGame, p) /\ \E S : rest \in Seq(S)
        BY <4>1, CheckFirst
      <4>3. PICK S : rest \in Seq(S)
        BY <4>2
      <4>4. PICK T : T = RoleClears(p)
        OBVIOUS
      <4>5. w \in Seq(T) /\ \A y \in T : y.do = "clear-role"
        <5>1. w \in Seq(T)
          BY <4>4
        <5>2. ASSUME NEW y \in T PROVE y.do = "clear-role"
          <6>1. PICK r \in Linked(p) : y = Cleared(r)
            BY <4>4, <5>2, Zenon DEF RoleClears, Cleared
          <6>2. Cleared(r).do = "clear-role"
            BY Zenon DEF Cleared, Do
          <6> QED
            BY <6>1, <6>2
        <5> QED
          BY <5>1, <5>2
      <4>6. /\ w \o rest # <<>> /\ (w = <<>> => w \o rest = rest)
            /\ (w # <<>> => Head(w \o rest) = Head(w) /\ Head(w) \in T)
        BY <4>2, <4>3, <4>5, StepsThen
      <4>7. t.todo = w \o rest
        BY <3>5, <4>1
      <4>8. w = <<>>
        BY <4>5, <4>6, <4>7
      <4>9. t.todo = rest
        BY <4>6, <4>7, <4>8
      <4>10. \A i \in DOMAIN rest : rest[i] = x \/ \E j \in DOMAIN Tail(rest) : Tail(rest)[j] = rest[i]
        BY <4>2, <4>3, InTail
      <4>11. \A j \in DOMAIN Tail(rest) : Tail(rest)[j].do # "clear-role"
        BY <4>2, NoticeSteps
      <4> QED
        BY <3>2, <4>9, <4>10, <4>11
    <3> QED
      BY <3>3, <3>4, <3>5
  <2> QED
    BY <1>4, <2>1, <2>2
<1> QED
  BY <1>2, <1>3, <1>5

LEMMA KeptRevoked ==
    ASSUME NEW a, NEW t, TurnOK(a, t), t.todo # <<>> => Head(t.todo).do # "clear-role", NEW n, n.note = t.note
    PROVE  Revoked(a, n)
<1>1. ASSUME t.note = "revoked", NEW q \in Linked(rows[a].who)
      PROVE  roles[q] = "none" \/ (granted[q] # NoRequest /\ granted[q].kind = "grant")
  BY <1>1, NobodyLeftOut
<1> QED
  BY <1>1, Zenon DEF Revoked

\* A step that changes the turn of a and nothing else.
Others == <<games, leaders, roles, granted, told, rows, pending, keyboard, heard, changed, refused, sent,
            queue, published>>

LEMMA OtherTurn ==
    ASSUME NEW a, Running(a), NEW n, turn' = [turn EXCEPT ![a] = n], UNCHANGED Others,
           IsTurn(n), OwnRow(a, n.row), n.busy = TRUE, TurnOK(a, n)
    PROVE  IInv'
<1>1. /\ IInv /\ a \in Masters /\ pending[a] # {} /\ Shapes
  BY RunningMeans
<1>2. /\ UNCHANGED <<roles, granted, told, rows, pending, keyboard, heard, changed, refused, sent>>
      /\ GamesOK' /\ leaders' \in [Games -> SUBSET Profiles]
  BY <1>1 DEF Others, Shapes, GamesOK
<1>3. Queues' /\ TokenConfirmsItsTarget'
  BY <1>1, OrdersStay DEF Others
<1> QED
  BY <1>1, <1>2, <1>3, TurnStep

LEMMA GivenUp ==
    ASSUME NEW a, Running(a), turn' = [turn EXCEPT ![a] = FreeTurn], UNCHANGED Others
    PROVE  IInv'
<1>1. /\ IInv /\ a \in Masters /\ pending[a] # {} /\ Shapes
  BY RunningMeans
<1>2. /\ UNCHANGED <<roles, granted, told, rows, pending, keyboard, heard, changed, refused, sent>>
      /\ GamesOK' /\ leaders' \in [Games -> SUBSET Profiles]
  BY <1>1 DEF Others, Shapes, GamesOK
<1>3. Queues' /\ TokenConfirmsItsTarget'
  BY <1>1, OrdersStay DEF Others
<1>4. IsRow(IdleRow) /\ OwnRow(a, IdleRow)
  BY IdleIsOwn
<1>5. PICK n : n = FreeTurn
  OBVIOUS
<1>6. n.busy = FALSE /\ n.row = IdleRow /\ IsTurn(n) /\ turn' = [turn EXCEPT ![a] = n]
  BY <1>4, <1>5, FreeTurnFields DEF IsTurn
<1>7. OwnRow(a, n.row) /\ (IF n.busy THEN TurnOK(a, n) ELSE n = FreeTurn)
  BY <1>4, <1>5, <1>6
<1> QED
  BY <1>1, <1>2, <1>3, <1>6, <1>7, TurnStep

LEMMA DieKeeps ==
    ASSUME NEW a, Running(a), Die(a), UNCHANGED gameVars
    PROVE  IInv'
  BY GivenUp DEF Die, Others, gameVars

\* What a step makes of a turn.
LEMMA DoFields ==
    ASSUME NEW what, NEW g, NEW p, NEW arg
    PROVE  /\ Do(what, g, p, arg).do = what /\ Do(what, g, p, arg).game = g /\ Do(what, g, p, arg).who = p
           /\ Do(what, g, p, arg).arg = arg
  BY DEF Do

\* The turn of a goes on as n, with that row and that plan.
Goes(a, n, row, todo) ==
    /\ turn' = [turn EXCEPT ![a] = n] /\ IsTurn(n) /\ n.busy = TRUE /\ n.row = row /\ n.told = turn[a].told
    /\ n.todo = todo /\ n.note = turn[a].note /\ n.manages = turn[a].manages

LEMMA GoingOn ==
    ASSUME NEW a, Running(a), NEW todo, turn' = [turn EXCEPT ![a].todo = todo]
    PROVE  \E n : Goes(a, n, turn[a].row, todo)
<1>1. PICK n : n = [turn[a] EXCEPT !.todo = todo]
  OBVIOUS
<1>2. a \in Masters /\ DOMAIN turn = Masters /\ IsTurn(turn[a]) /\ turn[a].busy = TRUE
  BY RunningMeans DEF Shapes
<1>3. /\ IsTurn(n) /\ n.busy = turn[a].busy /\ n.row = turn[a].row /\ n.told = turn[a].told /\ n.todo = todo
      /\ n.note = turn[a].note /\ n.manages = turn[a].manages
  <2>1. PICK t : t = turn[a]
    OBVIOUS
  <2> QED
    BY <1>1, <1>2, <2>1, NextTodo
<1>4. turn' = [turn EXCEPT ![a] = n]
  BY <1>1, <1>2
<1>5. Goes(a, n, turn[a].row, todo)
  BY <1>2, <1>3, <1>4 DEF Goes
<1> QED
  BY <1>5

LEMMA Proceeding ==
    ASSUME NEW a, Running(a), Proceed(a)
    PROVE  \E n : Goes(a, n, turn[a].row, Tail(turn[a].todo))
<1>1. turn' = [turn EXCEPT ![a].todo = Tail(turn[a].todo)]
  <2>1. a \in DOMAIN turn
    BY RunningMeans DEF Shapes
  <2> QED
    BY <2>1 DEF Proceed
<1>2. PICK todo : todo = Tail(turn[a].todo)
  OBVIOUS
<1>3. turn' = [turn EXCEPT ![a].todo = todo]
  BY <1>1, <1>2
<1>4. \E n : Goes(a, n, turn[a].row, todo)
  BY <1>3, GoingOn
<1> QED
  BY <1>2, <1>4

LEMMA Finishing ==
    ASSUME NEW a, Running(a), NEW todo, Finish(a, todo)
    PROVE  \E n : Goes(a, n, IdleRow, todo)
<1>1. a \in Masters /\ DOMAIN turn = Masters /\ IsTurn(turn[a]) /\ turn[a].busy = TRUE
  BY RunningMeans DEF Shapes
<1>2. PICK row : row = IdleRow
  OBVIOUS
<1>3. PICK n : n = [turn[a] EXCEPT !.todo = todo, !.row = row]
  OBVIOUS
<1>4. turn' = [turn EXCEPT ![a] = n]
  <2>1. turn' = [turn EXCEPT ![a].todo = todo, ![a].row = row]
    BY <1>2 DEF Finish
  <2> QED
    BY <1>1, <1>3, <2>1
<1>5. /\ DOMAIN n = TurnFields /\ n.busy = TRUE /\ n.row = row /\ n.told = turn[a].told /\ n.todo = todo
      /\ n.note = turn[a].note /\ n.manages = turn[a].manages
  BY <1>1, <1>3 DEF IsTurn, TurnFields
<1>6. IsTurn(n)
  BY <1>2, <1>5, IdleIsOwn DEF IsTurn
<1>7. Goes(a, n, IdleRow, todo)
  BY <1>2, <1>4, <1>5, <1>6 DEF Goes
<1> QED
  BY <1>7

\* Turns as their notices go on.
LEMMA NoticeTurn ==
    ASSUME NEW a, NEW t, NEW n, n.note = t.note
    PROVE  /\ GrantTurn(a, t) /\ Announcing(a, n, "grant", NoGame, Pressed(a).who) => GrantTurn(a, n)
           /\ RevokeTurn(a, t) /\ Announcing(a, n, "revoke", NoGame, rows[a].who) => RevokeTurn(a, n)
           /\ \A g, p : AddsAs(a, t, g, p) /\ Announcing(a, n, "leader-grant", g, p) => AddsAs(a, n, g, p)
           /\ RemoveTurn(a, t) /\ Announcing(a, n, "leader-revoke", rows[a].game, rows[a].who) => RemoveTurn(a, n)
<1>1. GrantTurn(a, t) /\ Announcing(a, n, "grant", NoGame, Pressed(a).who) => GrantTurn(a, n)
  BY DEF GrantTurn
<1>2. RevokeTurn(a, t) /\ Announcing(a, n, "revoke", NoGame, rows[a].who) => RevokeTurn(a, n)
  BY DEF RevokeTurn
<1>3. \A g, p : AddsAs(a, t, g, p) /\ Announcing(a, n, "leader-grant", g, p) => AddsAs(a, n, g, p)
  BY Zenon DEF AddsAs
<1>4. RemoveTurn(a, t) /\ Announcing(a, n, "leader-revoke", rows[a].game, rows[a].who) => RemoveTurn(a, n)
  BY Zenon DEF RemoveTurn
<1> QED
  BY <1>1, <1>2, <1>3, <1>4

LEMMA PromoteTurnIs ==
    ASSUME NEW a, NEW t, NEW n, PromoteTurn(a, t), n.note = t.note, n.manages = t.manages, n.row = t.row,
           NEW p, p = rows[a].who,
           \/ n.todo = <<PromotionCheck(p), PromotionTell(p), PromotionClaim(p), PromotionMark(p),
                         Assigning(rows[a].game, p)>>
           \/ n.todo = <<PromotionTell(p), PromotionClaim(p), PromotionMark(p), Assigning(rows[a].game, p)>>
           \/ /\ n.todo = <<PromotionClaim(p), PromotionMark(p), Assigning(rows[a].game, p)>>
              /\ Grants(a, p) \in heard
           \/ /\ n.todo = <<PromotionMark(p), Assigning(rows[a].game, p)>>
              /\ (granted[p] = Grants(a, p) => Grants(a, p) \in heard)
    PROVE  PromoteTurn(a, n)
<1>1. /\ PromoteAsked(a) /\ n.note = "" /\ rows[a].game \in n.manages \cap Games /\ Alike(n.row, rows[a])
  BY Zenon DEF PromoteTurn
<1> QED
  BY <1>1, Zenon DEF PromoteTurn, PromotionCheck, PromotionTell, PromotionClaim, PromotionMark, Assigning

(***************************************************************************)
(* Steps that read, and decide what is left of a turn                      *)
(***************************************************************************)
LEMMA ClearKeeps ==
    ASSUME NEW a, Running(a), Clear(a), UNCHANGED gameVars
    PROVE  IInv'
<1>1. PICK t : t = turn[a]
  OBVIOUS
<1>2. TurnOK(a, t) /\ t.todo # <<>> /\ Head(t.todo).do = "clear" /\ Finish(a, Tail(t.todo)) /\ UNCHANGED Others
  BY <1>1, RunningMeans DEF Clear, Doing, Now, Others, gameVars
<1>3. ~PromoteTurn(a, t)
  BY <1>2, Heads
<1>4. \/ GrantTurn(a, t) /\ Announcing(a, t, "grant", NoGame, Pressed(a).who)
      \/ RevokeTurn(a, t) /\ Announcing(a, t, "revoke", NoGame, rows[a].who)
      \/ \E g \in Games, p \in Profiles : AddsAs(a, t, g, p) /\ Announcing(a, t, "leader-grant", g, p)
      \/ RemoveTurn(a, t) /\ Announcing(a, t, "leader-revoke", rows[a].game, rows[a].who)
  BY <1>2, <1>3, AtTheEnd
<1>5. \A kind, g, p : Announcing(a, t, kind, g, p) => Tail(t.todo) = <<>> /\ Settled(a)
  BY <1>2, AnnouncingHead, DoFields
<1>6. /\ Tail(t.todo) = <<>> /\ Settled(a)
      /\ t.note = "" \/ (t.note = "revoked" /\ RevokeAsked(a))
  <2>1. GrantTurn(a, t) => t.note = ""
    BY DEF GrantTurn
  <2>2. RevokeTurn(a, t) => t.note = "revoked" /\ RevokeAsked(a)
    BY DEF RevokeTurn
  <2>3. \A g, p : AddsAs(a, t, g, p) => t.note = ""
    BY Zenon DEF AddsAs
  <2>4. RemoveTurn(a, t) => t.note = ""
    BY DEF RemoveTurn
  <2> QED
    BY <1>4, <1>5, <2>1, <2>2, <2>3, <2>4
<1>7. PICK n : Goes(a, n, IdleRow, Tail(t.todo))
  BY <1>2, Finishing
<1>8. TurnOK(a, n)
  <2>1. n.told = t.told /\ n.todo = Tail(t.todo) /\ n.note = t.note
    BY <1>1, <1>7 DEF Goes
  <2>2. EndedTurn(a, n)
    BY <1>6, <2>1 DEF EndedTurn
  <2>3. Revoked(a, n)
    BY <1>2, <2>1, KeptRevoked
  <2> QED
    BY <1>2, <2>1, <2>2, <2>3 DEF TurnOK
<1>9. OwnRow(a, n.row)
  BY <1>7, IdleIsOwn DEF Goes
<1> QED
  BY <1>2, <1>7, <1>8, <1>9, OtherTurn DEF Goes

\* The role is read again before it is announced.
LEMMA CheckRoleKeeps ==
    ASSUME NEW a, Running(a), CheckRole(a), UNCHANGED gameVars
    PROVE  IInv'
<1>1. PICK t, p : t = turn[a] /\ p = Now(a).who
  OBVIOUS
<1>2. TurnOK(a, t) /\ t.todo # <<>> /\ Head(t.todo).do = "check-role" /\ UNCHANGED Others /\ Now(a) = Head(t.todo)
  BY <1>1, RunningMeans DEF CheckRole, Doing, Now, Others, gameVars
<1>3. GrantTurn(a, t) \/ RevokeTurn(a, t)
  BY <1>2, Heads DEF TurnOK
<1>4. \/ GiveUp(a)
      \/ /\ roles[p] = Now(a).arg /\ roles[p] # "none" /\ granted[p] # Grants(a, p)
         /\ Finish(a, <<>>)
      \/ (roles[p] = "none" \/ granted[p] = Grants(a, p)) /\ roles[p] = Now(a).arg /\ Proceed(a)
  BY <1>1 DEF CheckRole, Grants
<1>5. \/ /\ GrantTurn(a, t) /\ p = Pressed(a).who /\ Now(a).arg = rows[a].role
         /\ Tail(t.todo) = Telling("grant", NoGame, p)
      \/ /\ RevokeTurn(a, t) /\ p = rows[a].who /\ Now(a).arg = "none"
         /\ Tail(t.todo) = Telling("revoke", NoGame, p)
  <2>1. CASE GrantTurn(a, t)
    <3>1. PICK r, role : r = Pressed(a).who /\ role = rows[a].role
      OBVIOUS
    <3>2. PICK check : check = Do("check-role", NoGame, r, role)
      OBVIOUS
    <3>3. Head(t.todo) = check /\ Tail(t.todo) = Telling("grant", NoGame, r)
      BY <1>2, <2>1, <3>1, <3>2, GrantHead
    <3>4. check.who = r /\ check.arg = role
      BY <3>2, DoFields
    <3> QED
      BY <1>1, <1>2, <2>1, <3>1, <3>3, <3>4
  <2>2. CASE RevokeTurn(a, t)
    <3>1. PICK r : r = rows[a].who
      OBVIOUS
    <3>2. PICK check : check = Do("check-role", NoGame, r, "none")
      OBVIOUS
    <3>3. Head(t.todo) = check /\ Tail(t.todo) = Telling("revoke", NoGame, r)
      BY <1>2, <2>2, <3>1, <3>2, RevokeHead
    <3>4. check.who = r /\ check.arg = "none"
      BY <3>2, DoFields
    <3> QED
      BY <1>1, <1>2, <2>2, <3>1, <3>3, <3>4
  <2> QED
    BY <1>3, <2>1, <2>2
<1>6. CASE GiveUp(a)
  BY <1>2, <1>6, GivenUp DEF GiveUp
<1>7. CASE /\ roles[p] = Now(a).arg /\ roles[p] # "none" /\ granted[p] # Grants(a, p)
           /\ Finish(a, <<>>)
  <2>1. GrantTurn(a, t) /\ p = Pressed(a).who
    BY <1>5, <1>7
  <2>2. GrantAsked(a) /\ p \in Profiles /\ t.note = ""
    BY <2>1 DEF GrantTurn
  <2>3. Settled(a)
    <3>1. ~SameOperation(a, p)
      BY <1>7 DEF SameOperation, Grants
    <3> QED
      BY <2>1, <2>2, <3>1, RunningMeans, NothingGranted
  <2>4. PICK todo : todo = <<>>
    OBVIOUS
  <2>5. PICK n : Goes(a, n, IdleRow, todo)
    <3>1. Finish(a, todo)
      BY <1>7, <2>4
    <3> QED
      BY <3>1, Finishing
  <2>6. n.told = t.told /\ n.todo = <<>> /\ n.note = t.note /\ n.row = IdleRow
    BY <1>1, <2>4, <2>5 DEF Goes
  <2>7. TurnOK(a, n)
    <3>1. EndedTurn(a, n)
      BY <2>2, <2>3, <2>6 DEF EndedTurn
    <3>2. Revoked(a, n)
      BY <1>2, <2>6, KeptRevoked
    <3> QED
      BY <1>2, <2>6, <3>1, <3>2 DEF TurnOK
  <2>8. OwnRow(a, n.row)
    BY <2>6, IdleIsOwn
  <2> QED
    BY <1>2, <2>5, <2>7, <2>8, OtherTurn DEF Goes
<1>8. CASE Proceed(a)
  <2>1. PICK n : Goes(a, n, turn[a].row, Tail(turn[a].todo))
    BY <1>8, Proceeding
  <2>2. n.told = t.told /\ n.todo = Tail(t.todo) /\ n.note = t.note /\ n.row = t.row
    BY <1>1, <2>1 DEF Goes
  <2>3. GrantTurn(a, n) \/ RevokeTurn(a, n)
    <3>1. \/ GrantTurn(a, t) /\ Announcing(a, n, "grant", NoGame, Pressed(a).who)
          \/ RevokeTurn(a, t) /\ Announcing(a, n, "revoke", NoGame, rows[a].who)
      BY <1>5, <2>2 DEF Announcing
    <3> QED
      BY <2>2, <3>1, NoticeTurn
  <2>4. TurnOK(a, n)
    <3>1. Revoked(a, n)
      BY <1>2, <2>2, KeptRevoked
    <3> QED
      BY <1>2, <2>2, <2>3, <3>1 DEF TurnOK
  <2>5. OwnRow(a, n.row)
    BY <1>1, <2>2, RunningMeans
  <2> QED
    BY <1>2, <2>1, <2>4, <2>5, OtherTurn DEF Goes
<1> QED
  BY <1>4, <1>6, <1>7, <1>8

LEMMA CheckPromotionKeeps ==
    ASSUME NEW a, Running(a), CheckPromotion(a), UNCHANGED gameVars
    PROVE  IInv'
<1>1. PICK t, p : t = turn[a] /\ p = rows[a].who
  OBVIOUS
<1>2. /\ TurnOK(a, t) /\ t.todo # <<>> /\ Head(t.todo).do = "check-promotion" /\ UNCHANGED Others
      /\ Now(a) = Head(t.todo)
  BY <1>1, RunningMeans DEF CheckPromotion, Doing, Now, Others, gameVars
<1>3. PromoteTurn(a, t)
  BY <1>2, Heads DEF TurnOK
<1>4. /\ Head(t.todo) = PromotionCheck(p)
      /\ Tail(t.todo) = <<PromotionTell(p), PromotionClaim(p), PromotionMark(p), Assigning(rows[a].game, p)>>
      /\ Tail(Tail(Tail(t.todo))) = <<PromotionMark(p), Assigning(rows[a].game, p)>>
  <2>1. PromotionStep(a, t, p)
    BY <1>1, <1>3, PromoteHead
  <2> QED
    BY <1>2, <2>1 DEF PromotionStep
<1>5. Now(a).who = p
  <2>1. PromotionCheck(p).who = p
    BY Zenon DEF PromotionCheck, Do
  <2> QED
    BY <1>2, <1>4, <2>1
<1>6. \/ GiveUp(a)
      \/ granted[p] = Grants(a, p) /\ Proceed(a)
      \/ granted[p] # Grants(a, p) /\ turn' = [turn EXCEPT ![a].todo = Tail(Tail(Tail(@)))]
  BY <1>5 DEF CheckPromotion, Grants
<1>7. CASE GiveUp(a)
  BY <1>2, <1>7, GivenUp DEF GiveUp
<1>8. ASSUME NEW todo, NEW n, Goes(a, n, t.row, todo),
             \/ todo = Tail(t.todo)
             \/ todo = Tail(Tail(Tail(t.todo))) /\ granted[p] # Grants(a, p)
      PROVE  IInv'
  <2>1. n.told = t.told /\ n.todo = todo /\ n.note = t.note /\ n.row = t.row /\ n.manages = t.manages
    BY <1>1, <1>8 DEF Goes
  <2>2. PromoteTurn(a, n)
    <3>1. CASE todo = Tail(t.todo)
      <4>1. n.todo = <<PromotionTell(p), PromotionClaim(p), PromotionMark(p), Assigning(rows[a].game, p)>>
        BY <1>4, <2>1, <3>1
      <4> QED
        BY <1>1, <1>3, <2>1, <4>1, PromoteTurnIs
    <3>2. CASE todo = Tail(Tail(Tail(t.todo))) /\ granted[p] # Grants(a, p)
      <4>1. /\ n.todo = <<PromotionMark(p), Assigning(rows[a].game, p)>>
            /\ (granted[p] = Grants(a, p) => Grants(a, p) \in heard)
        BY <1>4, <2>1, <3>2
      <4> QED
        BY <1>1, <1>3, <2>1, <4>1, PromoteTurnIs
    <3> QED
      BY <1>8, <3>1, <3>2
  <2>3. TurnOK(a, n)
    <3>1. Revoked(a, n)
      BY <1>2, <2>1, KeptRevoked
    <3> QED
      BY <1>2, <2>1, <2>2, <3>1 DEF TurnOK
  <2>4. OwnRow(a, n.row)
    BY <1>1, <2>1, RunningMeans
  <2> QED
    BY <1>2, <1>8, <2>3, <2>4, OtherTurn DEF Goes
<1>9. CASE Proceed(a)
  BY <1>1, <1>8, <1>9, Proceeding
<1>10. CASE granted[p] # Grants(a, p) /\ turn' = [turn EXCEPT ![a].todo = Tail(Tail(Tail(@)))]
  <2>1. PICK todo : todo = Tail(Tail(Tail(t.todo)))
    OBVIOUS
  <2>2. turn' = [turn EXCEPT ![a].todo = todo]
    <3>1. a \in DOMAIN turn
      BY RunningMeans DEF Shapes
    <3> QED
      BY <1>1, <1>10, <2>1, <3>1
  <2>3. \E n : Goes(a, n, turn[a].row, todo)
    BY <2>2, GoingOn
  <2> QED
    BY <1>1, <1>8, <1>10, <2>1, <2>3
<1> QED
  BY <1>6, <1>7, <1>9, <1>10

LEMMA CheckLeaderKeeps ==
    ASSUME NEW a, Running(a), CheckLeader(a), UNCHANGED gameVars
    PROVE  IInv'
<1>1. PICK t : t = turn[a]
  OBVIOUS
<1>2. /\ TurnOK(a, t) /\ t.todo # <<>> /\ Head(t.todo).do = "check-leader" /\ UNCHANGED Others
  BY <1>1, RunningMeans DEF CheckLeader, Doing, Now, Others, gameVars
<1>3. PICK g \in Games, p \in Profiles : AddsAs(a, t, g, p)
  BY <1>2, Heads DEF TurnOK, AddTurn
<1>4. Tail(t.todo) = Telling("leader-grant", g, p)
  <2>1. PICK request, mark, add, check :
          /\ request = Requested(a, "leader-grant", g, p) /\ mark = Do("mark", g, p, "leader-grant")
          /\ add = Adding(g, p) /\ check = LeaderCheck(g, p)
    OBVIOUS
  <2> QED
    BY <1>2, <1>3, <2>1, AddHead
<1>5. CASE GiveUp(a)
  BY <1>2, <1>5, GivenUp DEF GiveUp
<1>6. CASE Proceed(a)
  <2>1. PICK n : Goes(a, n, turn[a].row, Tail(turn[a].todo))
    BY <1>6, Proceeding
  <2>2. n.told = t.told /\ n.todo = Tail(t.todo) /\ n.note = t.note /\ n.row = t.row
    BY <1>1, <2>1 DEF Goes
  <2>3. AddTurn(a, n)
    <3>1. Announcing(a, n, "leader-grant", g, p)
      BY <1>4, <2>2 DEF Announcing
    <3>2. AddsAs(a, n, g, p)
      BY <1>3, <2>2, <3>1, NoticeTurn
    <3> QED
      BY <3>2 DEF AddTurn
  <2>4. TurnOK(a, n)
    <3>1. Revoked(a, n)
      BY <1>2, <2>2, KeptRevoked
    <3> QED
      BY <1>2, <2>2, <2>3, <3>1 DEF TurnOK
  <2>5. OwnRow(a, n.row)
    BY <1>1, <2>2, RunningMeans
  <2> QED
    BY <1>2, <2>1, <2>4, <2>5, OtherTurn DEF Goes
<1> QED
  BY <1>5, <1>6 DEF CheckLeader

LEMMA TurningTo ==
    ASSUME NEW a, Running(a), NEW row, IsRow(row), NEW todo,
           turn' = [turn EXCEPT ![a].row = row, ![a].todo = todo]
    PROVE  \E n : Goes(a, n, row, todo)
<1>1. a \in Masters /\ DOMAIN turn = Masters /\ IsTurn(turn[a]) /\ turn[a].busy = TRUE
  BY RunningMeans DEF Shapes
<1>2. PICK n : n = [turn[a] EXCEPT !.row = row, !.todo = todo]
  OBVIOUS
<1>3. turn' = [turn EXCEPT ![a] = n]
  BY <1>1, <1>2
<1>4. /\ DOMAIN n = TurnFields /\ n.busy = TRUE /\ n.row = row /\ n.told = turn[a].told /\ n.todo = todo
      /\ n.note = turn[a].note /\ n.manages = turn[a].manages
  BY <1>1, <1>2 DEF IsTurn, TurnFields
<1>5. IsTurn(n)
  BY <1>4 DEF IsTurn
<1> QED
  BY <1>3, <1>4, <1>5 DEF Goes

LEMMA SameMarks ==
    ASSUME NEW r, NEW s, IsRow(r), IsRow(s), Alike(r, s)
    PROVE  /\ r.state = s.state /\ r.game = s.game /\ r.who = s.who /\ r.role = s.role /\ r.token = s.token
           /\ r.marks = s.marks
<1>1. /\ [r EXCEPT !.buttons = {}].state = r.state /\ [r EXCEPT !.buttons = {}].game = r.game
      /\ [r EXCEPT !.buttons = {}].who = r.who /\ [r EXCEPT !.buttons = {}].role = r.role
      /\ [r EXCEPT !.buttons = {}].token = r.token /\ [r EXCEPT !.buttons = {}].marks = r.marks
  BY DEF IsRow, RowFields
<1>2. /\ [s EXCEPT !.buttons = {}].state = s.state /\ [s EXCEPT !.buttons = {}].game = s.game
      /\ [s EXCEPT !.buttons = {}].who = s.who /\ [s EXCEPT !.buttons = {}].role = s.role
      /\ [s EXCEPT !.buttons = {}].token = s.token /\ [s EXCEPT !.buttons = {}].marks = s.marks
  BY DEF IsRow, RowFields
<1> QED
  BY <1>1, <1>2 DEF Alike

\* The new moderator becomes a master, unless his role is gone again.
LEMMA AssignPromotedKeeps ==
    ASSUME NEW a, Running(a), AssignPromoted(a), UNCHANGED gameVars
    PROVE  IInv'
<1>1. PICK t, g, p : t = turn[a] /\ g = rows[a].game /\ p = rows[a].who
  OBVIOUS
<1>2. /\ TurnOK(a, t) /\ t.todo # <<>> /\ Head(t.todo).do = "assign" /\ UNCHANGED Others
      /\ Now(a) = Head(t.todo)
  BY <1>1, RunningMeans DEF AssignPromoted, Doing, Now, Others, gameVars
<1>3. PromoteTurn(a, t)
  BY <1>2, Heads DEF TurnOK
<1>4. /\ PromoteAsked(a) /\ t.note = "" /\ g \in t.manages \cap Games /\ Alike(t.row, rows[a])
      /\ Head(t.todo) = Assigning(g, p) /\ Grants(a, p) \in rows[a].marks
  <2>1. PromotionStep(a, t, p)
    BY <1>1, <1>3, PromoteHead
  <2> QED
    BY <1>1, <1>2, <2>1 DEF PromotionStep
<1>5. g \in Games /\ p \in Profiles /\ AdditionAsked(a, g, p) /\ pending[a] # {} /\ Records(a) /\ a \in Masters
      /\ OwnRow(a, t.row) /\ IsRow(t.row)
  <2>1. p \in Profiles
    BY <1>1, <1>4, RunningMeans DEF PromoteAsked, SoundRow
  <2> QED
    BY <1>1, <1>4, <2>1, RunningMeans DEF AdditionAsked
<1>6. Now(a).game = g /\ Now(a).who = p
  <2>1. Assigning(g, p).game = g /\ Assigning(g, p).who = p
    BY Zenon DEF Assigning, Do
  <2> QED
    BY <1>2, <1>4, <2>1
<1>7. PromoteAsked(a) /\ granted[p] = Grants(a, p) => Grants(a, p) \in heard
  BY <1>1, <1>4, <1>5 DEF Records
<1>8. t.row.marks = rows[a].marks
  BY <1>4, <1>5, RunningMeans, SameMarks
<1>9. ASSUME NEW row, NEW todo, turn' = [turn EXCEPT ![a].row = row, ![a].todo = todo],
             OwnRow(a, row),
             \/ todo = <<>> /\ Settled(a)
             \/ /\ row = t.row
                /\ \A n : n.note = t.note /\ n.todo = todo /\ n.manages = t.manages /\ n.row = row => AddsAs(a, n, g, p)
      PROVE  IInv'
  <2>1. IsRow(row)
    BY <1>9 DEF OwnRow
  <2>2. PICK n : Goes(a, n, row, todo)
    BY <1>9, <2>1, TurningTo
  <2>3. n.told = t.told /\ n.todo = todo /\ n.note = t.note /\ n.row = row /\ n.manages = t.manages
    BY <1>1, <2>2 DEF Goes
  <2>4. EndedTurn(a, n) \/ AddTurn(a, n)
    <3>1. CASE todo = <<>> /\ Settled(a)
      BY <1>4, <2>3, <3>1 DEF EndedTurn
    <3>2. CASE /\ row = t.row
               /\ \A m : m.note = t.note /\ m.todo = todo /\ m.manages = t.manages /\ m.row = row => AddsAs(a, m, g, p)
      <4>1. AddsAs(a, n, g, p)
        BY <2>3, <3>2
      <4> QED
        BY <1>5, <4>1 DEF AddTurn
    <3> QED
      BY <1>9, <3>1, <3>2
  <2>5. TurnOK(a, n)
    <3>1. Revoked(a, n)
      BY <1>2, <2>3, KeptRevoked
    <3> QED
      BY <1>2, <2>3, <2>4, <3>1 DEF TurnOK
  <2> QED
    BY <1>2, <1>9, <2>2, <2>3, <2>5, OtherTurn DEF Goes
<1> DEFINE request == Requested(a, "leader-grant", g, p)
           done == <<Do("clear", NoGame, NoOne, "")>>
           steps == <<Do("mark", g, p, "leader-grant"), Do("add-leader", g, p, ""), Do("check-leader", g, p, "")>>
           notice == Notice("leader-grant", g, p)
<1>10. /\ AssignPromoted(a)
       /\ turn' = [turn EXCEPT ![a].row = Assignment(a, t.row, g, p).row, ![a].todo = Assignment(a, t.row, g, p).todo]
  BY <1>1, <1>6 DEF AssignPromoted
<1>11. CASE ~HasAdminAccess(p)
  <2>1. PICK r, todo : r = PromotionQuestion(t.row, g, p) /\ todo = <<>>
    OBVIOUS
  <2>2. Assignment(a, t.row, g, p).row = r /\ Assignment(a, t.row, g, p).todo = todo
    BY <1>11, <2>1 DEF Assignment
  <2>3. turn' = [turn EXCEPT ![a].row = r, ![a].todo = todo]
    BY <1>10, <2>2
  <2>4. OwnRow(a, r)
    BY <1>5, <2>1, PromotionDecided
  <2>5. Settled(a)
    BY <1>5, <1>7, <1>11, LostAccessSettles
  <2> QED
    BY <1>9, <2>1, <2>3, <2>4, <2>5
<1>12. ASSUME NEW todo, Assignment(a, t.row, g, p).row = t.row, Assignment(a, t.row, g, p).todo = todo,
              \A n : n.note = t.note /\ n.todo = todo /\ n.manages = t.manages /\ n.row = t.row => AddsAs(a, n, g, p)
       PROVE  IInv'
  <2>1. PICK row : row = t.row
    OBVIOUS
  <2>2. turn' = [turn EXCEPT ![a].row = row, ![a].todo = todo]
    BY <1>10, <1>12, <2>1
  <2> QED
    BY <1>5, <1>9, <1>12, <2>1, <2>2
<1>13. CASE HasAdminAccess(p) /\ Linked(p) \cap leaders[g] # {} /\ request \in rows[a].marks
  <2>1. notice \o done = Telling("leader-grant", g, p)
    BY ToldLast
  <2>2. PICK todo : todo = Telling("leader-grant", g, p)
    OBVIOUS
  <2>3. Assignment(a, t.row, g, p).row = t.row /\ Assignment(a, t.row, g, p).todo = todo
    BY <1>8, <1>13, <2>1, <2>2, Zenon DEF Assignment, GrantPending
  <2>4. ASSUME NEW n, n.note = t.note, n.todo = todo PROVE AddsAs(a, n, g, p)
    BY <1>4, <1>5, <2>2, <2>4, Zenon DEF AddsAs, Announcing
  <2> QED
    BY <1>12, <2>3, <2>4
<1>14. CASE HasAdminAccess(p) /\ Linked(p) \cap leaders[g] # {} /\ request \notin rows[a].marks
  <2>2. PICK todo : todo = Ending
    OBVIOUS
  <2>3. Assignment(a, t.row, g, p).row = t.row /\ Assignment(a, t.row, g, p).todo = todo
    BY <1>8, <1>14, <2>2, Zenon DEF Assignment, GrantPending, Ending
  <2>4. Settled(a)
    BY <1>5, <1>7, <1>14, UnmarkedSettles
  <2>5. ASSUME NEW n, n.note = t.note, n.todo = todo PROVE AddsAs(a, n, g, p)
    BY <1>4, <1>5, <2>2, <2>4, <2>5, Zenon DEF AddsAs, Announcing
  <2> QED
    BY <1>12, <2>3, <2>5
<1>15. CASE HasAdminAccess(p) /\ Linked(p) \cap leaders[g] = {}
  <2>1. steps \in Seq({Do("mark", g, p, "leader-grant"), Do("add-leader", g, p, ""), Do("check-leader", g, p, "")})
    OBVIOUS
  <2>2. PICK todo : todo = steps \o Telling("leader-grant", g, p)
    OBVIOUS
  <2>3. (steps \o notice) \o done = todo
    <3> HIDE DEF steps
    <3> QED
      BY <2>1, <2>2, ToldLast
  <2>4. Assignment(a, t.row, g, p).row = t.row /\ Assignment(a, t.row, g, p).todo = todo
    BY <1>15, <2>3, Zenon DEF Assignment
  <2>5. KeepsAccess(a, p)
    BY <1>15 DEF KeepsAccess
  <2>6. ASSUME NEW n, n.note = t.note, n.todo = todo, n.manages = t.manages, n.row = t.row PROVE AddsAs(a, n, g, p)
    <3>1. g \in n.manages
      BY <1>4, <2>6
    <3> QED
      BY <1>4, <1>5, <2>2, <2>5, <2>6, <3>1, Zenon DEF AddsAs
  <2> QED
    BY <1>12, <2>4, <2>6
<1> QED
  BY <1>11, <1>13, <1>14, <1>15

(***************************************************************************)
(* Orders, and writes to a game's row                                      *)
(***************************************************************************)
LEMMA LastStep ==
    ASSUME NEW a, Running(a), Proceed(a), OrderTurn(a, turn[a]) \/ WriteTurn(a, turn[a])
    PROVE  \E n : Goes(a, n, turn[a].row, <<>>) /\ TurnOK(a, n) /\ OwnRow(a, n.row)
<1>1. PICK t : t = turn[a]
  OBVIOUS
<1>2. TurnOK(a, t) /\ OwnRow(a, t.row) /\ pending[a] # {} /\ Records(a) /\ a \in Masters
  BY <1>1, RunningMeans
<1>3. PICK e : e = Head(t.todo)
  OBVIOUS
<1>4. /\ ~AtWork(a) /\ t.note = "" /\ t.todo # <<>> /\ Tail(t.todo) = <<>> /\ e.do \in {"publish", "write", "read-back"}
  <2>1. CASE OrderTurn(a, t)
    BY <1>3, <2>1, OrderHead
  <2>2. CASE WriteTurn(a, t)
    BY <1>3, <2>2, WriteHead
  <2> QED
    BY <1>1, <2>1, <2>2
<1>5. PICK n : Goes(a, n, turn[a].row, Tail(turn[a].todo))
  BY Proceeding
<1>6. n.told = t.told /\ n.todo = <<>> /\ n.note = t.note /\ n.row = t.row
  BY <1>1, <1>4, <1>5 DEF Goes
<1>7. Settled(a)
  BY <1>2, <1>4, NothingToTell
<1>8. TurnOK(a, n)
  <2>1. EndedTurn(a, n)
    BY <1>4, <1>6, <1>7 DEF EndedTurn
  <2>2. Revoked(a, n)
    BY <1>4, <1>6 DEF Revoked
  <2> QED
    BY <1>2, <1>6, <2>1, <2>2 DEF TurnOK
<1>9. Goes(a, n, turn[a].row, <<>>)
  BY <1>1, <1>4, <1>5
<1> QED
  BY <1>2, <1>6, <1>8, <1>9

LEMMA PublishKeeps ==
    ASSUME NEW a, Running(a), Publish(a)
    PROVE  IInv'
<1>1. PICK t, e : t = turn[a] /\ e = Head(t.todo)
  OBVIOUS
<1>2. /\ TurnOK(a, t) /\ t.todo # <<>> /\ e.do = "publish" /\ Now(a) = e
  BY <1>1, RunningMeans DEF Publish, Doing, Now
<1>3. OrderTurn(a, t)
  BY <1>1, <1>2, Heads, SMTT(30) DEF TurnOK
<1>4. e.game \in Games /\ (e.arg \in {"remove", "promote"} => Pressed(a).about = [game |-> e.game, who |-> e.who])
  <2>1. e.game \in Games /\ (e.arg \in {"remove", "promote"} => Pressed(a).about = StepAbout(e))
    BY <1>1, <1>3, OrderHead
  <2> QED
    BY <2>1 DEF StepAbout
<1>5. PICK order : order = [op |-> e.arg, actor |-> a, game |-> e.game, who |-> e.who,
                            message |-> Received(a).id, about |-> Pressed(a).about]
  OBVIOUS
<1>6. /\ UNCHANGED <<games, leaders, roles, granted, told, rows, pending, keyboard, heard, changed, refused, sent>>
      /\ \/ GiveUp(a) /\ UNCHANGED <<queue, published>>
         \/ Proceed(a) /\ UNCHANGED <<queue, published>>
         \/ /\ Proceed(a) /\ queue' = [queue EXCEPT ![e.game] = Append(@, order)]
            /\ published' = published \cup {order}
  BY <1>2, <1>5 DEF Publish
<1>7. CASE GiveUp(a) /\ UNCHANGED <<queue, published>>
  BY <1>6, <1>7, GivenUp DEF GiveUp, Others
<1>8. ASSUME Proceed(a), Queues', TokenConfirmsItsTarget' PROVE IInv'
  <2>1. PICK n : Goes(a, n, turn[a].row, <<>>) /\ TurnOK(a, n) /\ OwnRow(a, n.row)
    BY <1>1, <1>3, <1>8, LastStep
  <2>2. turn' = [turn EXCEPT ![a] = n] /\ IsTurn(n) /\ n.busy = TRUE
    BY <2>1 DEF Goes
  <2>3. IInv /\ a \in Masters /\ pending[a] # {} /\ Shapes
    BY RunningMeans
  <2>4. GamesOK' /\ leaders' \in [Games -> SUBSET Profiles]
    BY <1>6, <2>3 DEF Shapes, GamesOK
  <2> QED
    BY <1>6, <1>8, <2>1, <2>2, <2>3, <2>4, TurnStep
<1>9. CASE Proceed(a) /\ UNCHANGED <<queue, published>>
  BY <1>8, <1>9, OrdersStay, RunningMeans
<1>10. CASE /\ Proceed(a) /\ queue' = [queue EXCEPT ![e.game] = Append(@, order)]
            /\ published' = published \cup {order}
  <2>1. order.op = e.arg /\ order.game = e.game /\ order.who = e.who /\ order.about = Pressed(a).about
    BY <1>5
  <2>2. Queues
    BY RunningMeans DEF IInv
  <2>3. Queues'
    <3>1. ASSUME NEW g \in Games PROVE queue'[g] \in Seq({c \in published' : c.game = g})
      <4>1. PICK S, T : S = {c \in published : c.game = g} /\ T = {c \in published' : c.game = g}
        OBVIOUS
      <4>2. S \subseteq T /\ queue[g] \in Seq(S) /\ DOMAIN queue = Games
        BY <1>10, <2>2, <4>1 DEF Queues
      <4>3. queue[g] \in Seq(T)
        BY <4>2
      <4>4. CASE g = e.game
        <5>1. queue'[g] = Append(queue[g], order) /\ order \in T
          BY <1>4, <1>10, <2>1, <4>1, <4>2, <4>4
        <5>2. Append(queue[g], order) \in Seq(T)
          BY <4>3, <5>1
        <5> QED
          BY <4>1, <5>1, <5>2
      <4>5. CASE g # e.game
        BY <1>10, <4>1, <4>2, <4>3, <4>5
      <4> QED
        BY <4>4, <4>5
    <3> QED
      BY <1>10, <2>2, <3>1 DEF Queues
  <2>4. TokenConfirmsItsTarget'
    <3>1. order.op \in {"remove", "promote"} => order.about = [game |-> order.game, who |-> order.who]
      BY <1>4, <2>1
    <3>2. TokenConfirmsItsTarget
      BY RunningMeans DEF IInv
    <3> QED
      BY <1>10, <3>1, <3>2 DEF TokenConfirmsItsTarget
  <2> QED
    BY <1>8, <1>10, <2>3, <2>4
<1> QED
  BY <1>6, <1>7, <1>9, <1>10

\* A write to a game's row leaves its columns in order.
LEMMA WrittenRow ==
    ASSUME NEW row, DOMAIN row = GameFields, NEW column, NEW message
    PROVE  /\ DOMAIN Written(row, column, message) = GameFields
           /\ Written(row, column, message).exists = row.exists
           /\ Written(row, column, message).archived = row.archived
BY DEF Written, GameFields

\* What a write does, and what it leaves to do.
WritesTo(g, message) ==
    \/ games' = games
    \/ \E column : games' = [games EXCEPT ![g] = Written(games[g], column, message)]

LEMMA WriteRowEffect ==
    ASSUME NEW a, Running(a), WriteRow(a), NEW e, e = Now(a)
    PROVE  /\ UNCHANGED <<leaders, roles, granted, told, rows, pending, keyboard, heard, changed, refused, sent,
                          queue, published>>
           /\ WritesTo(e.game, Received(a).id) /\ e.do = "write"
           /\ \/ Proceed(a)
              \/ turn' = [turn EXCEPT ![a].todo = <<Do("read-back", e.game, NoOne, e.arg)>>]
<1>1. games' = games \/ games' = [games EXCEPT ![e.game] = Written(@, e.arg, Received(a).id)]
  BY DEF WriteRow
<1>2. games' = games \/ games' = [games EXCEPT ![e.game] = Written(games[e.game], e.arg, Received(a).id)]
  BY <1>1, RunningMeans DEF Shapes, GamesOK
<1> QED
  BY <1>2 DEF WriteRow, WritesTo, Doing, gameVars

\* The links that a turn has written are still to be read back.
LEMMA LeavesReading ==
    ASSUME NEW a, Running(a), WriteTurn(a, turn[a]), NEW e, e = Head(turn[a].todo),
           turn' = [turn EXCEPT ![a].todo = <<Do("read-back", e.game, NoOne, e.arg)>>]
    PROVE  \E n : /\ Goes(a, n, turn[a].row, <<Do("read-back", e.game, NoOne, e.arg)>>)
                  /\ TurnOK(a, n) /\ OwnRow(a, n.row)
<1>1. PICK t : t = turn[a]
  OBVIOUS
<1>2. TurnOK(a, t) /\ OwnRow(a, t.row)
  BY <1>1, RunningMeans
<1>3. /\ ~AtWork(a) /\ t.note = "" /\ e.game \in t.manages \cap Games
  BY <1>1, WriteHead
<1>4. PICK x : x = Do("read-back", e.game, NoOne, e.arg)
  OBVIOUS
<1>5. x.game = e.game /\ x.arg = e.arg
  BY <1>4 DEF Do
<1>6. PICK n : Goes(a, n, turn[a].row, <<x>>)
  BY <1>4, GoingOn
<1>7. n.told = t.told /\ n.todo = <<x>> /\ n.note = t.note /\ n.row = t.row /\ n.manages = t.manages
  BY <1>1, <1>6 DEF Goes
<1>8. n.todo # <<>> /\ n.todo[1] = x
  BY <1>7, OneTodo
<1>9. WriteTurn(a, n)
  BY <1>3, <1>4, <1>5, <1>7, <1>8 DEF WriteTurn
<1>10. TurnOK(a, n)
  BY <1>2, <1>3, <1>7, <1>9 DEF TurnOK, Revoked
<1> QED
  BY <1>2, <1>4, <1>6, <1>7, <1>10

LEMMA WriteRowKeeps ==
    ASSUME NEW a, Running(a), WriteRow(a)
    PROVE  IInv'
<1>1. PICK t, e : t = turn[a] /\ e = Head(t.todo)
  OBVIOUS
<1>2. /\ TurnOK(a, t) /\ t.todo # <<>> /\ e.do = "write" /\ Now(a) = e
  BY <1>1, RunningMeans DEF WriteRow, Doing, Now
<1>3. WriteTurn(a, t)
  BY <1>1, <1>2, Heads, SMTT(30) DEF TurnOK
<1>4. e.game \in Games
  BY <1>1, <1>3, WriteHead
<1>5. /\ UNCHANGED <<leaders, roles, granted, told, rows, pending, keyboard, heard, changed, refused, sent, queue, published>>
      /\ WritesTo(e.game, Received(a).id)
      /\ \/ Proceed(a)
         \/ turn' = [turn EXCEPT ![a].todo = <<Do("read-back", e.game, NoOne, e.arg)>>]
  BY <1>2, WriteRowEffect
<1>6. IInv /\ a \in Masters /\ pending[a] # {} /\ Shapes
  BY RunningMeans
<1>7. GamesOK'
  <2>1. GamesOK
    BY <1>6 DEF Shapes
  <2>2. CASE games' = games
    BY <2>1, <2>2 DEF GamesOK
  <2>3. ASSUME NEW row, games' = [games EXCEPT ![e.game] = row], DOMAIN row = GameFields,
               row.exists \in BOOLEAN, row.archived \in BOOLEAN
        PROVE  GamesOK'
    BY <1>4, <2>1, <2>3 DEF GamesOK
  <2> QED
    BY <1>4, <1>5, <2>1, <2>2, <2>3, WrittenRow DEF WritesTo, GamesOK
<1>8. leaders' \in [Games -> SUBSET Profiles] /\ Queues' /\ TokenConfirmsItsTarget'
  BY <1>5, <1>6, OrdersStay DEF Shapes
<1>9. PICK n, todo : Goes(a, n, turn[a].row, todo) /\ TurnOK(a, n) /\ OwnRow(a, n.row)
  BY <1>1, <1>3, <1>5, LastStep, LeavesReading
<1>10. turn' = [turn EXCEPT ![a] = n] /\ IsTurn(n) /\ n.busy = TRUE
  BY <1>9 DEF Goes
<1> QED
  BY <1>5, <1>6, <1>7, <1>8, <1>9, <1>10, TurnStep

LEMMA ReadBackKeeps ==
    ASSUME NEW a, Running(a), ReadBack(a)
    PROVE  IInv'
<1>1. PICK t, e : t = turn[a] /\ e = Head(t.todo)
  OBVIOUS
<1>2. /\ TurnOK(a, t) /\ t.todo # <<>> /\ e.do = "read-back" /\ Now(a) = e
  BY <1>1, RunningMeans DEF ReadBack, Doing, Now
<1>3. WriteTurn(a, t)
  BY <1>1, <1>2, Heads, SMTT(30) DEF TurnOK
<1>4. /\ UNCHANGED <<games, leaders, roles, granted, told, rows, pending, keyboard, heard, changed, refused, sent, queue,
                     published>>
      /\ GiveUp(a) \/ Proceed(a)
  BY DEF ReadBack, gameVars
<1>5. CASE GiveUp(a)
  BY <1>4, <1>5, GivenUp DEF GiveUp, Others
<1>6. CASE Proceed(a)
  <2>1. PICK n : Goes(a, n, turn[a].row, <<>>) /\ TurnOK(a, n) /\ OwnRow(a, n.row)
    BY <1>1, <1>3, <1>6, LastStep
  <2>2. turn' = [turn EXCEPT ![a] = n] /\ IsTurn(n) /\ n.busy = TRUE
    BY <2>1 DEF Goes
  <2>3. IInv /\ a \in Masters /\ pending[a] # {} /\ Shapes
    BY RunningMeans
  <2>4. GamesOK' /\ leaders' \in [Games -> SUBSET Profiles] /\ Queues' /\ TokenConfirmsItsTarget'
    BY <1>4, <2>3, OrdersStay DEF Shapes, GamesOK
  <2> QED
    BY <1>4, <2>1, <2>2, <2>3, <2>4, TurnStep
<1> QED
  BY <1>4, <1>5, <1>6

(***************************************************************************)
(* Steps that write                                                        *)
(***************************************************************************)
\* The turn of a goes on as n once it has written.
LEMMA RecordStep ==
    ASSUME NEW a, Running(a), NEW n, turn' = [turn EXCEPT ![a] = n], OwnStep(a), Shapes', Queues',
           TokenConfirmsItsTarget', RolesOnRecord, OwnRow(a, rows'[a]), rows'[a].state = rows[a].state,
           rows'[a].token = rows[a].token, IsTurn(n), n.busy = TRUE, OwnRow(a, n.row), Records(a)', TurnOK(a, n)'
    PROVE  IInv'
<1>1. /\ IInv /\ a \in Masters /\ pending[a] # {} /\ Shapes /\ MessageOK(a) /\ ListsOK(a)
  BY RunningMeans
<1>2. turn'[a] = n
  BY <1>1 DEF Shapes
<1>3. Received(a)' = Received(a) /\ pending'[a] # {}
  BY <1>1 DEF Received, OwnStep
<1>4. ListsOK(a)' /\ MessageOK(a)'
  <2>1. OwnRow(a, turn'[a].row) /\ sent \in Nat
    BY <1>1, <1>2 DEF Shapes
  <2> QED
    BY <1>1, <1>3, <2>1, OwnKeepsLists
<1>5. IsRow(rows'[a])
  BY DEF OwnRow
<1>6. TurnOK(a, turn[a])'
  BY <1>2
<1>7. ActorInv(a)'
  BY <1>2, <1>3, <1>4, <1>5, <1>6 DEF ActorInv
<1> QED
  BY <1>1, <1>7, OwnKeepsInvariant

\* Nobody's masters are changed by a message that only sets roles.
LEMMA NoLeaders ==
    ASSUME NEW a, Running(a), GrantAsked(a) \/ RevokeAsked(a) \/ PromoteAsked(a),
           PromoteAsked(a) => Grants(a, rows[a].who) \notin rows[a].marks
    PROVE  \A g \in Games, q \in Profiles : ~By(Received(a).id, changed[g][q])
<1> SUFFICES ASSUME NEW g \in Games, NEW q \in Profiles, By(Received(a).id, changed[g][q]) PROVE FALSE
  OBVIOUS
<1>1. LeaderRecord(a, g, q)
  BY RunningMeans DEF Records
<1>2. CASE AdditionAsked(a, g, q) /\ (PromoteAsked(a) => Grants(a, q) \in rows[a].marks)
  <2>1. PromoteAsked(a)
    BY <1>2, Alone
  <2>2. AdditionAsked(a, rows[a].game, rows[a].who)
    BY <2>1 DEF AdditionAsked
  <2>3. q = rows[a].who
    BY <1>2, <2>2, Alone
  <2> QED
    BY <1>2, <2>1, <2>3
<1>3. CASE RemovalAsked(a)
  BY <1>3, Alone
<1> QED
  BY <1>1, <1>2, <1>3 DEF LeaderRecord

\* The role of one profile is written.
RoleWrites1(a, q, role, r) ==
    /\ roles' = [roles EXCEPT ![q] = role] /\ granted' = [granted EXCEPT ![q] = r]
    /\ UNCHANGED <<games, leaders, told, rows, pending, keyboard, heard, changed, refused, sent, queue, published>>

LEMMA RoleWritten ==
    ASSUME NEW a, Running(a), NEW p \in Profiles, NEW q \in Profiles, NEW role \in Role \ {"admin"},
           NEW kind \in {"grant", "revoke"}, role = "none" \/ kind = "grant",
           NEW r, r = Requested(a, kind, NoGame, p), RoleWrites1(a, q, role, r),
           NEW n, Goes(a, n, turn[a].row, Tail(turn[a].todo)), TurnOK(a, n)',
           RoleRecord(a, q)', GrantAsked(a) \/ RevokeAsked(a) \/ PromoteAsked(a),
           PromoteAsked(a) => Grants(a, rows[a].who) \notin rows[a].marks
    PROVE  IInv'
<1>1. /\ IInv /\ a \in Masters /\ pending[a] # {} /\ Shapes /\ Records(a) /\ OwnRow(a, rows[a])
      /\ OwnRow(a, turn[a].row) /\ Received(a).id \in 1 .. MaxMessages /\ IsRow(rows[a])
  BY RunningMeans
<1>2. /\ roles' = [roles EXCEPT ![q] = role] /\ granted' = [granted EXCEPT ![q] = r]
      /\ UNCHANGED <<games, leaders, told, rows, pending, keyboard, heard, changed, refused, sent, queue, published>>
  BY DEF RoleWrites1
<1>3. r \in Request /\ r # NoRequest /\ r.message = Received(a).id /\ r.kind = kind
  <2>1. r \in Request /\ r.message = Received(a).id /\ r.kind = kind
    BY <1>1 DEF Requested, Request, Optional
  <2>2. r # NoRequest
    BY <2>1 DEF NoRequest
  <2> QED
    BY <2>1, <2>2
<1>4. /\ roles'[q] = role /\ granted'[q] = r
      /\ \A x \in Profiles \ {q} : roles'[x] = roles[x] /\ granted'[x] = granted[x]
  BY <1>1, <1>2 DEF Shapes
<1>5. /\ turn' = [turn EXCEPT ![a] = n] /\ IsTurn(n) /\ n.busy = TRUE /\ n.row = turn[a].row
  BY DEF Goes
<1>6. Shapes'
  BY <1>1, <1>2, <1>3, <1>5 DEF Shapes, GamesOK
<1>7. Received(a)' = Received(a)
  BY <1>2 DEF Received
<1>8. OwnStep(a)
  <2>1. \A x \in Profiles :
         \/ granted'[x] = granted[x] /\ roles'[x] = roles[x]
         \/ By(Received(a).id, granted'[x]) /\ (roles'[x] = "none" \/ granted'[x].kind = "grant")
    BY <1>3, <1>4 DEF By
  <2>2. \A x \in Profiles : told'[x] \in heard' \cup {NoRequest}
    BY <1>1, <1>2 DEF IInv, Past
  <2>3. \A b \in Masters \ {a} : turn'[b] = turn[b] /\ rows'[b] \in {rows[b], [rows[b] EXCEPT !.buttons = {}]}
    BY <1>1, <1>2, <1>5 DEF Shapes
  <2> QED
    BY <1>1, <1>2, <2>1, <2>2, <2>3 DEF OwnStep
<1>9. RolesOnRecord
  BY <1>3, <1>4 DEF RolesOnRecord
<1>10. Queues' /\ TokenConfirmsItsTarget'
  BY <1>1, <1>2, OrdersStay
<1>11. Records(a)'
  <2>1. rows'[a] \in {rows[a], [rows[a] EXCEPT !.buttons = {}]} /\ rows'[a] = rows[a]
    BY <1>2
  <2>2. /\ Pressed(a)' = Pressed(a) /\ GrantAsked(a)' = GrantAsked(a)
        /\ RevokeAsked(a)' = RevokeAsked(a) /\ PromoteAsked(a)' = PromoteAsked(a)
        /\ (\A kd, g, x : Requested(a, kd, g, x)' = Requested(a, kd, g, x))
        /\ \A x : Grants(a, x)' = Grants(a, x)
    BY <1>1, <1>7, <2>1, BesideAsked
  <2>3. ASSUME NEW x \in Profiles, By(Received(a).id, granted'[x]) PROVE RoleRecord(a, x)'
    <3>1. CASE x = q
      BY <3>1
    <3>2. CASE x # q
      <4>1. RoleRecord(a, x) /\ roles'[x] = roles[x] /\ granted'[x] = granted[x]
        BY <1>1, <1>4, <2>3, <3>2 DEF Records
      <4>2. \A y : IsAdmin(y)' = IsAdmin(y) /\ Linked(y)' = Linked(y)
        BY DEF IsAdmin, Linked
      <4>3. \A y \in Profiles : granted[y] # NoRequest => granted'[y] # NoRequest
        BY <1>3, <1>4
      <4>4. CASE /\ GrantAsked(a) /\ Pressed(a).who \in Profiles
                 /\ x \in Linked(Pressed(a).who) /\ ~IsAdmin(Pressed(a).who)
                 /\ granted[x] = Grants(a, Pressed(a).who)
                 /\ roles[x] = rows[a].role
                 /\ granted[Pressed(a).who] # NoRequest
        BY <2>1, <2>2, <4>1, <4>2, <4>3, <4>4 DEF RoleRecord
      <4>5. CASE /\ PromoteAsked(a) /\ x = rows[a].who
                 /\ granted[x] = Grants(a, x) /\ roles[x] = "moderator"
        BY <2>1, <2>2, <4>1, <4>2, <4>5 DEF RoleRecord
      <4>6. CASE /\ RevokeAsked(a) /\ x \in Linked(rows[a].who)
                 /\ granted[x] = Requested(a, "revoke", NoGame, rows[a].who)
        BY <2>1, <2>2, <4>1, <4>2, <4>6 DEF RoleRecord
      <4> QED
        BY <4>1, <4>4, <4>5, <4>6 DEF RoleRecord
    <3> QED
      BY <3>1, <3>2
  <2>4. \A g \in Games, x \in Profiles : ~By(Received(a).id, changed[g][x])'
    <3>1. \A g \in Games, x \in Profiles : ~By(Received(a).id, changed[g][x])
      BY NoLeaders
    <3> QED
      BY <1>2, <1>7, <3>1 DEF By
  <2>5. ~(PromoteAsked(a)' /\ Grants(a, rows[a].who)' \in rows'[a].marks)
    <3>1. Grants(a, rows[a].who)' = Grants(a, rows[a].who)
      BY <2>1, <2>2 DEF Grants, Requested
    <3> QED
      BY <2>1, <2>2, <3>1
  <2>6. \A s \in heard' : s.message = Received(a)'.id /\ s.kind = "revoke" => RevokeAsked(a)' /\ s.who = rows'[a].who
    BY <1>1, <1>2, <1>7, <2>1, <2>2 DEF Records
  <2>7. \A x \in Profiles : By(Received(a).id, granted[x])' => RoleRecord(a, x)'
    BY <1>7, <2>3 DEF By
  <2> QED
    BY <2>4, <2>5, <2>6, <2>7 DEF Records
<1>12. OwnRow(a, rows'[a]) /\ rows'[a] = rows[a] /\ OwnRow(a, n.row)
  <2>1. rows'[a] = rows[a]
    BY <1>2
  <2> QED
    BY <1>1, <1>5, <2>1
<1> QED
  BY <1>5, <1>6, <1>8, <1>9, <1>10, <1>11, <1>12, RecordStep

\* A grant goes on as it was planned.
LEMMA GrantGoesOn ==
    ASSUME NEW a, rows' = rows, pending' = pending, GrantAsked(a), NEW n, n.note = "",
           NEW p \in Profiles, p = Pressed(a).who, ~IsAdmin(p), n.row.who = p, NEW role, role = rows[a].role,
           NEW v \in Seq(RoleWrites(p, role)),
           n.todo = v \o (<<Do("check-role", NoGame, p, role)>> \o Telling("grant", NoGame, p)),
           granted'[p] # NoRequest
    PROVE  GrantTurn(a, n)'
<1>1. Pressed(a)' = Pressed(a) /\ Received(a)' = Received(a)
  BY DEF Pressed, Received
<1>2. GrantAsked(a)' = GrantAsked(a)
  BY <1>1 DEF GrantAsked, Answering
<1>3. IsAdmin(p)' = IsAdmin(p) /\ Pressed(a).who' = p /\ rows'[a].role = role
  BY <1>1 DEF IsAdmin, Linked
<1>4. /\ n.todo = v \o (<<Do("check-role", NoGame, p, role)>> \o Telling("grant", NoGame, p))
      /\ (v = <<>> \/ Head(v).who = p \/ granted'[p] # NoRequest)
  OBVIOUS
<1>5. GrantAsked(a)' /\ ~IsAdmin(p)'
  BY <1>2, <1>3
<1> QED
  BY <1>3, <1>4, <1>5 DEF GrantTurn

LEMMA SetRoleKeeps ==
    ASSUME NEW a, Running(a), SetRole(a), UNCHANGED gameVars
    PROVE  IInv'
<1>1. PICK t, e : t = turn[a] /\ e = Now(a)
  OBVIOUS
<1>2. /\ TurnOK(a, t) /\ t.todo # <<>> /\ Head(t.todo).do = "set-role" /\ e = Head(t.todo) /\ Proceed(a)
      /\ IsRow(rows[a]) /\ a \in Masters /\ pending[a] # {} /\ SoundRow(rows[a]) /\ IsRow(t.row) /\ Shapes
  BY <1>1, RunningMeans DEF SetRole, Doing, Now
<1>3. GrantTurn(a, t) \/ PromoteTurn(a, t)
  BY <1>2, Heads DEF TurnOK
<1>4. /\ roles' = [roles EXCEPT ![e.who] = e.arg]
      /\ granted' = [granted EXCEPT ![e.who] = Requested(a, "grant", NoGame, t.row.who)]
      /\ UNCHANGED <<games, leaders, told, rows, pending, keyboard, heard, changed, refused, sent, queue, published>>
  BY <1>1 DEF SetRole, gameVars
<1>5. PICK n : Goes(a, n, turn[a].row, Tail(turn[a].todo))
  BY <1>2, Proceeding
<1>6. n.told = t.told /\ n.todo = Tail(t.todo) /\ n.note = t.note /\ n.row = t.row /\ n.manages = t.manages
  BY <1>1, <1>5 DEF Goes
<1>7. n.told \in heard' \cup {NoRequest}
  BY <1>2, <1>4, <1>6 DEF TurnOK
<1>8. ASSUME NEW p \in Profiles, NEW q \in Profiles, NEW role \in Role \ {"admin"},
             e.who = q, e.arg = role, t.row.who = p, t.note = "",
             GrantTurn(a, n)' \/ PromoteTurn(a, n)', NEW r, r = Requested(a, "grant", NoGame, p),
             RoleRecord(a, q)', GrantAsked(a) \/ RevokeAsked(a) \/ PromoteAsked(a),
             PromoteAsked(a) => Grants(a, rows[a].who) \notin rows[a].marks
      PROVE  IInv'
  <2>1. RoleWrites1(a, q, role, r)
    <3>1. roles' = [roles EXCEPT ![q] = role] /\ granted' = [granted EXCEPT ![q] = r]
      BY <1>4, <1>8
    <3> QED
      BY <1>4, <3>1 DEF RoleWrites1
  <2>2. Revoked(a, n)'
    BY <1>6, <1>8 DEF Revoked
  <2>3. TurnOK(a, n)'
    BY <1>7, <1>8, <2>2 DEF TurnOK
  <2>4. PICK kind : kind = "grant"
    OBVIOUS
  <2>5. kind \in {"grant", "revoke"} /\ (role = "none" \/ kind = "grant") /\ r = Requested(a, kind, NoGame, p)
    BY <1>8, <2>4
  <2> QED
    BY <1>5, <1>8, <2>1, <2>3, <2>5, RoleWritten
<1>9. CASE GrantTurn(a, t)
  <2>1. PICK p, role : p = Pressed(a).who /\ role = rows[a].role
    OBVIOUS
  <2>2. /\ GrantAsked(a) /\ t.note = "" /\ p \in Profiles /\ ~IsAdmin(p)
        /\ t.row.who = p
        /\ \E q \in Linked(p) :
              /\ Head(t.todo) = Do("set-role", NoGame, q, role) /\ (q = p \/ granted[p] # NoRequest)
              /\ \E v \in Seq(RoleWrites(p, role)) :
                    Tail(t.todo) = v \o (<<Do("check-role", NoGame, p, role)>> \o Telling("grant", NoGame, p))
    <3>1. GrantAsked(a) /\ t.note = "" /\ p \in Profiles /\ ~IsAdmin(p)
      BY <1>9, <2>1, GrantHead
    <3>2. Head(t.todo).do = "set-role" => t.row.who = p
      BY <1>9, <2>1, GrantHead
    <3>3. Head(t.todo).do = "set-role" => GrantWriting(t, p, role)
      BY <1>9, <2>1, GrantHead
    <3> QED
      BY <1>2, <3>1, <3>2, <3>3 DEF GrantWriting
  <2>3. PICK q \in Linked(p) :
              /\ Head(t.todo) = Do("set-role", NoGame, q, role) /\ (q = p \/ granted[p] # NoRequest)
              /\ \E v \in Seq(RoleWrites(p, role)) :
                    Tail(t.todo) = v \o (<<Do("check-role", NoGame, p, role)>> \o Telling("grant", NoGame, p))
    BY <2>2
  <2>4. PICK v \in Seq(RoleWrites(p, role)) :
              Tail(t.todo) = v \o (<<Do("check-role", NoGame, p, role)>> \o Telling("grant", NoGame, p))
    BY <2>3
  <2>5. e.who = q /\ e.arg = role /\ q \in Profiles /\ role \in Role \ {"admin"}
    <3>1. Do("set-role", NoGame, q, role).who = q /\ Do("set-role", NoGame, q, role).arg = role
      BY DEF Do
    <3> QED
      BY <1>2, <2>1, <2>2, <2>3, <3>1, OnePerson DEF IsRow
  <2>6. PICK r : r = Requested(a, "grant", NoGame, p)
    OBVIOUS
  <2>7. r # NoRequest
    BY <2>6 DEF Requested, NoRequest
  <2>8. /\ granted'[q] = r /\ roles'[q] = role /\ granted'[p] # NoRequest
    BY <1>2, <1>4, <2>2, <2>3, <2>5, <2>6, <2>7 DEF Shapes
  <2>9. GrantTurn(a, n)'
    <3>1. rows' = rows /\ pending' = pending /\ n.row.who = p /\ n.note = ""
      BY <1>4, <1>6, <2>2
    <3>2. n.todo = v \o (<<Do("check-role", NoGame, p, role)>> \o Telling("grant", NoGame, p))
      BY <1>6, <2>4
    <3> QED
      BY <2>1, <2>2, <2>8, <3>1, <3>2, GrantGoesOn
  <2>10. RoleRecord(a, q)'
    <3>1. rows'[a] \in {rows[a], [rows[a] EXCEPT !.buttons = {}]} /\ Received(a)' = Received(a) /\ rows'[a] = rows[a]
      BY <1>4 DEF Received
    <3>2. /\ Pressed(a)' = Pressed(a) /\ GrantAsked(a)' = GrantAsked(a) /\ (\A x : Grants(a, x)' = Grants(a, x))
      BY <1>2, <3>1, BesideAsked
    <3>3. \A y : IsAdmin(y)' = IsAdmin(y) /\ Linked(y)' = Linked(y)
      BY DEF IsAdmin, Linked
    <3>4. r = Grants(a, p)
      BY <2>6 DEF Grants
    <3> QED
      BY <2>1, <2>2, <2>3, <2>8, <3>1, <3>2, <3>3, <3>4 DEF RoleRecord
  <2>11. GrantAsked(a) /\ ~PromoteAsked(a) /\ t.note = "" /\ t.row.who = p /\ p \in Profiles
    BY <2>2, Alone
  <2> QED
    BY <1>8, <2>5, <2>6, <2>9, <2>10, <2>11
<1>10. CASE PromoteTurn(a, t)
  <2>1. PICK p, g : p = rows[a].who /\ g = rows[a].game
    OBVIOUS
  <2>2. PromotionStep(a, t, p)
    BY <1>10, <2>1, PromoteHead
  <2>3. /\ PromoteAsked(a) /\ t.note = "" /\ Alike(t.row, rows[a]) /\ Head(t.todo) = PromotionSet(p)
        /\ Tail(t.todo) = <<PromotionCheck(p), PromotionTell(p), PromotionClaim(p), PromotionMark(p), Assigning(g, p)>>
        /\ Grants(a, p) \notin rows[a].marks
    BY <1>2, <2>1, <2>2 DEF PromotionStep
  <2>4. p \in Profiles /\ t.row.who = p
    <3>1. p \in Profiles
      BY <1>2, <2>1, <2>3 DEF PromoteAsked, SoundRow
    <3>2. t.row.who = p
      BY <1>2, <2>1, <2>3, SameMarks
    <3> QED
      BY <3>1, <3>2
  <2>5. PICK role : role = "moderator"
    OBVIOUS
  <2>6. e.who = p /\ e.arg = role /\ role \in Role \ {"admin"}
    <3>1. PromotionSet(p).who = p /\ PromotionSet(p).arg = role
      BY <2>5 DEF PromotionSet, Do
    <3> QED
      BY <1>2, <2>3, <2>5, <3>1 DEF Role
  <2>7. PICK r : r = Requested(a, "grant", NoGame, p)
    OBVIOUS
  <2>8. granted'[p] = r /\ roles'[p] = role
    BY <1>2, <1>4, <2>4, <2>6, <2>7 DEF Shapes
  <2>9. rows'[a] \in {rows[a], [rows[a] EXCEPT !.buttons = {}]} /\ Received(a)' = Received(a) /\ rows'[a] = rows[a]
    BY <1>4 DEF Received
  <2>10. PromoteAsked(a)' = PromoteAsked(a) /\ (\A x : Grants(a, x)' = Grants(a, x))
    BY <1>2, <2>9, BesideAsked
  <2>11. r = Grants(a, p)
    BY <2>7 DEF Grants
  <2>12. RoleRecord(a, p)'
    BY <2>1, <2>3, <2>5, <2>8, <2>9, <2>10, <2>11 DEF RoleRecord
  <2>13. PromoteTurn(a, n)
    <3>1. n.todo = <<PromotionCheck(p), PromotionTell(p), PromotionClaim(p), PromotionMark(p), Assigning(rows[a].game, p)>>
      BY <1>6, <2>1, <2>3
    <3> QED
      BY <1>6, <1>10, <2>1, <3>1, PromoteTurnIs
  <2>14. PromoteTurn(a, n)'
    <3>1. PICK todo : todo = <<PromotionCheck(p), PromotionTell(p), PromotionClaim(p), PromotionMark(p), Assigning(g, p)>>
      OBVIOUS
    <3>2. n.todo = todo /\ g \in n.manages \cap Games /\ Alike(n.row, rows[a]) /\ n.note = ""
      BY <1>6, <2>1, <2>3, <3>1, <2>13, Zenon DEF PromoteTurn
    <3>3. rows'[a].who = p /\ rows'[a].game = g /\ Alike(n.row, rows[a])'
      BY <2>1, <2>9, <3>2 DEF Alike
    <3> QED
      BY <2>3, <2>10, <3>1, <3>2, <3>3, Zenon DEF PromoteTurn, PromotionCheck, PromotionTell, PromotionClaim,
         PromotionMark, Assigning, Do
  <2> QED
    BY <1>8, <2>1, <2>3, <2>4, <2>6, <2>7, <2>12, <2>14
<1> QED
  BY <1>3, <1>9, <1>10

\* A revocation goes on as it was planned.
LEMMA RevokeGoesOn ==
    ASSUME NEW a, rows' = rows, pending' = pending, RevokeAsked(a), NEW n, n.note = "revoked",
           NEW p, p = rows[a].who, n.row.who = p, NEW v \in Seq(RoleClears(p)),
           n.todo = v \o (<<Do("check-role", NoGame, p, "none")>> \o Telling("revoke", NoGame, p))
    PROVE  RevokeTurn(a, n) /\ RevokeTurn(a, n)'
<1>1. Pressed(a)' = Pressed(a)
  BY DEF Pressed, Received
<1>2. RevokeAsked(a)' /\ rows'[a].who = p
  BY <1>1 DEF RevokeAsked
<1>3. \E w \in Seq(RoleClears(p)) :
         n.todo = w \o (<<Do("check-role", NoGame, p, "none")>> \o Telling("revoke", NoGame, p))
  OBVIOUS
<1>4. RevokeTurn(a, n)
  BY <1>3, Zenon DEF RevokeTurn
<1>5. RevokeTurn(a, n)'
  BY <1>2, <1>3, Zenon DEF RevokeTurn
<1> QED
  BY <1>4, <1>5

LEMMA RevokePlan ==
    ASSUME NEW a, NEW t, RevokeTurn(a, t)
    PROVE  \E S : t.todo \in Seq(S)
<1>1. PICK p, x : p = rows[a].who /\ x = Do("check-role", NoGame, p, "none")
  OBVIOUS
<1>2. \/ Announcing(a, t, "revoke", NoGame, p)
      \/ \E w \in Seq(RoleClears(p)) : t.todo = w \o (<<x>> \o Telling("revoke", NoGame, p))
  BY <1>1, Zenon DEF RevokeTurn
<1>3. CASE Announcing(a, t, "revoke", NoGame, p)
  <2>1. PICK c, d, e : /\ c = Do("tell", NoGame, p, "revoke") /\ d = Do("claim", NoGame, p, "revoke")
                       /\ e = Do("clear", NoGame, NoOne, "")
    OBVIOUS
  <2>2. t.todo = <<c, d, e>> \/ t.todo = <<d, e>> \/ t.todo = <<e>>
    BY <1>3, <2>1, Zenon DEF Announcing, Telling, Claiming, Ending
  <2>3. <<c, d, e>> \in Seq({c, d, e}) /\ <<d, e>> \in Seq({c, d, e}) /\ <<e>> \in Seq({c, d, e})
    OBVIOUS
  <2> QED
    BY <2>2, <2>3
<1>4. ASSUME NEW w \in Seq(RoleClears(p)), t.todo = w \o (<<x>> \o Telling("revoke", NoGame, p))
      PROVE  \E S : t.todo \in Seq(S)
  <2>1. PICK rest : rest = <<x>> \o Telling("revoke", NoGame, p)
    OBVIOUS
  <2>2. PICK S : rest \in Seq(S)
    BY <2>1, CheckFirst
  <2>3. PICK T : T = RoleClears(p)
    OBVIOUS
  <2>4. w \in Seq(S \cup T) /\ rest \in Seq(S \cup T)
    <3>1. w \in Seq(T)
      BY <2>3
    <3> QED
      BY <2>2, <3>1
  <2>5. w \o rest \in Seq(S \cup T)
    BY <2>4, ConcatProperties
  <2> QED
    BY <1>4, <2>1, <2>5
<1> QED
  BY <1>2, <1>3, <1>4

\* Whom is left to clear once q is.
LEMMA StillToClear ==
    ASSUME NEW a, NEW t, RevokeTurn(a, t), Revoked(a, t), NEW q, t.todo # <<>>, Head(t.todo) = Cleared(q),
           NEW r \in Linked(rows[a].who), r # q
    PROVE  \/ roles[r] = "none" \/ (granted[r] # NoRequest /\ granted[r].kind = "grant")
           \/ \E i \in DOMAIN Tail(t.todo) : Tail(t.todo)[i] = Cleared(r)
<1>1. t.note = "revoked"
  BY DEF RevokeTurn
<1>2. PICK s, c, d : s = t.todo /\ c = Cleared(r) /\ d = Cleared(q)
  OBVIOUS
<1>3. c # d
  <2>1. c.who = r /\ d.who = q
    BY <1>2, Zenon DEF Cleared, Do
  <2> QED
    BY <2>1
<1>4. \/ roles[r] = "none" \/ (granted[r] # NoRequest /\ granted[r].kind = "grant")
      \/ \E i \in DOMAIN s : s[i] = c
  BY <1>1, <1>2, Zenon DEF Revoked, Cleared
<1>5. ASSUME NEW i \in DOMAIN s, s[i] = c PROVE \E j \in DOMAIN Tail(s) : Tail(s)[j] = c
  <2>1. PICK S : s \in Seq(S)
    BY <1>2, RevokePlan
  <2>2. s[i] = Head(s) \/ \E j \in DOMAIN Tail(s) : Tail(s)[j] = s[i]
    BY <1>2, <2>1, InTail
  <2> QED
    BY <1>2, <1>3, <1>5, <2>2
<1> QED
  BY <1>2, <1>4, <1>5

LEMMA ClearRoleKeeps ==
    ASSUME NEW a, Running(a), ClearRole(a), UNCHANGED gameVars
    PROVE  IInv'
<1>1. PICK t, e : t = turn[a] /\ e = Now(a)
  OBVIOUS
<1>2. /\ TurnOK(a, t) /\ t.todo # <<>> /\ Head(t.todo).do = "clear-role" /\ e = Head(t.todo) /\ Proceed(a)
      /\ IsRow(rows[a]) /\ a \in Masters /\ pending[a] # {} /\ SoundRow(rows[a]) /\ Shapes
  BY <1>1, RunningMeans DEF ClearRole, Doing, Now
<1>3. RevokeTurn(a, t)
  BY <1>2, Heads DEF TurnOK
<1>4. /\ roles[e.who] = "none" => UNCHANGED <<roles, granted>>
      /\ roles[e.who] # "none" =>
           /\ roles' = [roles EXCEPT ![e.who] = "none"]
           /\ granted' = [granted EXCEPT ![e.who] = Requested(a, "revoke", NoGame, t.row.who)]
      /\ UNCHANGED <<games, leaders, told, rows, pending, keyboard, heard, changed, refused, sent, queue, published>>
  BY <1>1 DEF ClearRole, gameVars
<1>5. PICK n : Goes(a, n, turn[a].row, Tail(turn[a].todo))
  BY <1>2, Proceeding
<1>6. n.told = t.told /\ n.todo = Tail(t.todo) /\ n.note = t.note /\ n.row = t.row /\ n.manages = t.manages
  BY <1>1, <1>5 DEF Goes
<1>7. PICK p : p = rows[a].who
  OBVIOUS
<1>8. RevokeAsked(a) /\ t.note = "revoked" /\ t.row.who = p /\ RevokeWriting(t, p)
  BY <1>2, <1>3, <1>7, RevokeHead
<1>9. PICK q \in Linked(p) :
        /\ Head(t.todo) = Cleared(q)
        /\ \E v \in Seq(RoleClears(p)) :
             Tail(t.todo) = v \o (<<Do("check-role", NoGame, p, "none")>> \o Telling("revoke", NoGame, p))
  BY <1>8 DEF RevokeWriting
<1>10. PICK v \in Seq(RoleClears(p)) :
             Tail(t.todo) = v \o (<<Do("check-role", NoGame, p, "none")>> \o Telling("revoke", NoGame, p))
  BY <1>9
<1>11. p \in Profiles /\ q \in Profiles /\ e.who = q
  <2>1. p \in Profiles
    BY <1>2, <1>7, <1>8 DEF RevokeAsked, SoundRow
  <2>2. Cleared(q).who = q
    BY Zenon DEF Cleared, Do
  <2>3. e.who = q
    BY <1>2, <1>9, <2>2
  <2> QED
    BY <2>1, <2>3, OnePerson
<1>12. RevokeTurn(a, n) /\ RevokeTurn(a, n)'
  <2>1. rows' = rows /\ pending' = pending /\ n.row.who = p /\ n.note = "revoked"
    BY <1>4, <1>6, <1>8
  <2>2. n.todo = v \o (<<Do("check-role", NoGame, p, "none")>> \o Telling("revoke", NoGame, p))
    BY <1>6, <1>10
  <2> QED
    BY <1>7, <1>8, <2>1, <2>2, RevokeGoesOn
<1>13. \A r \in Linked(p) : r # q =>
           \/ roles[r] = "none" \/ (granted[r] # NoRequest /\ granted[r].kind = "grant")
           \/ \E i \in DOMAIN n.todo : n.todo[i] = Cleared(r)
  <2> SUFFICES ASSUME NEW r \in Linked(p), r # q
               PROVE  \/ roles[r] = "none" \/ (granted[r] # NoRequest /\ granted[r].kind = "grant")
                      \/ \E i \in DOMAIN n.todo : n.todo[i] = Cleared(r)
    OBVIOUS
  <2>1. Revoked(a, t) /\ r \in Linked(rows[a].who) /\ Head(t.todo) = Cleared(q)
    BY <1>2, <1>7, <1>9 DEF TurnOK
  <2>2. \/ roles[r] = "none" \/ (granted[r] # NoRequest /\ granted[r].kind = "grant")
        \/ \E i \in DOMAIN Tail(t.todo) : Tail(t.todo)[i] = Cleared(r)
    BY <1>2, <1>3, <2>1, StillToClear
  <2> QED
    BY <1>6, <2>2
<1>14. CASE roles[q] = "none"
  <2>1. UNCHANGED Others
    BY <1>4, <1>11, <1>14 DEF Others
  <2>2. Revoked(a, n)
    <3>1. \A r \in Linked(p) :
           \/ roles[r] = "none" \/ (granted[r] # NoRequest /\ granted[r].kind = "grant")
           \/ \E i \in DOMAIN n.todo : n.todo[i] = Cleared(r)
      BY <1>13, <1>14
    <3> QED
      BY <1>7, <3>1, Zenon DEF Revoked, Cleared
  <2>3. TurnOK(a, n)
    BY <1>2, <1>6, <1>12, <2>2 DEF TurnOK
  <2>4. OwnRow(a, n.row)
    BY <1>1, <1>6, RunningMeans
  <2> QED
    BY <1>5, <2>1, <2>3, <2>4, OtherTurn DEF Goes
<1>15. CASE roles[q] # "none"
  <2>1. PICK r, role, kind : r = Requested(a, "revoke", NoGame, p) /\ role = "none" /\ kind = "revoke"
    OBVIOUS
  <2>2. RoleWrites1(a, q, role, r)
    <3>1. roles' = [roles EXCEPT ![q] = role] /\ granted' = [granted EXCEPT ![q] = r]
      BY <1>4, <1>8, <1>11, <1>15, <2>1
    <3> QED
      BY <1>4, <3>1 DEF RoleWrites1
  <2>3. /\ granted'[q] = r /\ roles'[q] = "none"
        /\ \A x \in Profiles \ {q} : granted'[x] = granted[x] /\ roles'[x] = roles[x]
    BY <1>2, <1>11, <2>1, <2>2 DEF RoleWrites1, Shapes
  <2>4. RoleRecord(a, q)'
    <3>1. rows'[a] \in {rows[a], [rows[a] EXCEPT !.buttons = {}]} /\ Received(a)' = Received(a) /\ rows'[a] = rows[a]
      BY <1>4 DEF Received
    <3>2. RevokeAsked(a)' = RevokeAsked(a) /\ Requested(a, "revoke", NoGame, p)' = Requested(a, "revoke", NoGame, p)
      BY <1>2, <3>1, BesideAsked
    <3>3. Linked(p)' = Linked(p)
      BY DEF Linked
    <3> QED
      BY <1>7, <1>8, <2>1, <2>3, <3>1, <3>2, <3>3 DEF RoleRecord
  <2>5. Revoked(a, n)'
    <3>1. \A x \in Linked(p) :
           \/ roles'[x] = "none" \/ (granted'[x] # NoRequest /\ granted'[x].kind = "grant")
           \/ \E i \in DOMAIN n.todo : n.todo[i] = Cleared(x)
      BY <1>11, <1>13, <2>3, OnePerson
    <3>2. rows'[a].who = p
      BY <1>4, <1>7
    <3>3. Linked(p)' = Linked(p)
      BY DEF Linked
    <3> QED
      BY <3>1, <3>2, Zenon DEF Revoked, Cleared, Do
  <2>6. TurnOK(a, n)'
    BY <1>2, <1>4, <1>6, <1>12, <2>5 DEF TurnOK
  <2>7. /\ role \in Role \ {"admin"} /\ kind \in {"grant", "revoke"} /\ (role = "none" \/ kind = "grant")
        /\ r = Requested(a, kind, NoGame, p)
    BY <2>1 DEF Role
  <2>8. ~PromoteAsked(a)
    BY <1>8, Alone
  <2> QED
    BY <1>5, <1>8, <1>11, <2>2, <2>4, <2>6, <2>7, <2>8, RoleWritten
<1> QED
  BY <1>14, <1>15

(***************************************************************************)
(* Marks                                                                   *)
(***************************************************************************)
With(row, r) == [row EXCEPT !.marks = @ \cup {r}]

LEMMA MarkedRow ==
    ASSUME NEW row, IsRow(row), NEW r, NEW m, m = With(row, r)
    PROVE  /\ IsRow(m) /\ m.state = row.state /\ m.game = row.game /\ m.who = row.who /\ m.role = row.role
           /\ m.token = row.token /\ m.buttons = row.buttons /\ m.marks = row.marks \cup {r}
<1>1. /\ DOMAIN m = RowFields /\ m.state = row.state /\ m.game = row.game /\ m.who = row.who /\ m.role = row.role
      /\ m.token = row.token /\ m.buttons = row.buttons /\ m.marks = row.marks \cup {r}
  BY DEF IsRow, RowFields, With
<1>2. IsRow(m)
  BY <1>1 DEF IsRow, SoundRow
<1> QED
  BY <1>1, <1>2

\* The row of a is saved in the middle of his turn.
RowSaved(a, row) ==
    /\ rows' = [rows EXCEPT ![a] = row] /\ told' = [told EXCEPT ![a] = turn[a].told]
    /\ UNCHANGED <<games, leaders, roles, granted, pending, keyboard, heard, changed, refused, sent, queue, published>>

LEMMA Marked ==
    ASSUME NEW a, Running(a), Alike(turn[a].row, rows[a]), NEW r \in Request, r.message = Received(a).id,
           NEW m, m = With(turn[a].row, r), RowSaved(a, m),
           NEW n, Goes(a, n, m, Tail(turn[a].todo)), TurnOK(a, n)',
           PromoteAsked(a) /\ r = Grants(a, rows[a].who) /\ granted[rows[a].who] = r => r \in heard
    PROVE  IInv'
<1>1. /\ IInv /\ a \in Masters /\ a \in Profiles /\ pending[a] # {} /\ Shapes /\ Records(a) /\ OwnRow(a, turn[a].row)
      /\ IsRow(rows[a]) /\ IsRow(turn[a].row) /\ TurnOK(a, turn[a]) /\ Received(a).id \notin Coming
  BY RunningMeans
<1>2. /\ rows' = [rows EXCEPT ![a] = m] /\ told' = [told EXCEPT ![a] = turn[a].told]
      /\ UNCHANGED <<games, leaders, roles, granted, pending, keyboard, heard, changed, refused, sent, queue, published>>
  BY DEF RowSaved
<1>3. /\ IsRow(m) /\ m.state = rows[a].state /\ m.game = rows[a].game /\ m.who = rows[a].who /\ m.role = rows[a].role
      /\ m.token = rows[a].token /\ m.marks = rows[a].marks \cup {r} /\ m.token = turn[a].row.token
      /\ m.buttons = turn[a].row.buttons /\ m.state = turn[a].row.state /\ m.game = turn[a].row.game
      /\ m.who = turn[a].row.who /\ m.marks = turn[a].row.marks \cup {r}
  <2>1. PICK row, own : row = turn[a].row /\ own = rows[a]
    OBVIOUS
  <2>2. Alike(row, own) /\ IsRow(row) /\ IsRow(own) /\ m = With(row, r)
    BY <1>1, <2>1
  <2>3. /\ row.state = own.state /\ row.game = own.game /\ row.who = own.who /\ row.role = own.role
        /\ row.token = own.token /\ row.marks = own.marks
    BY <2>2, SameMarks
  <2>4. /\ IsRow(m) /\ m.state = row.state /\ m.game = row.game /\ m.who = row.who /\ m.role = row.role
        /\ m.token = row.token /\ m.buttons = row.buttons /\ m.marks = row.marks \cup {r}
    BY <2>2, MarkedRow
  <2> QED
    BY <2>1, <2>3, <2>4
<1>4. rows'[a] = m /\ \A b \in Masters \ {a} : rows'[b] = rows[b]
  BY <1>1, <1>2 DEF Shapes
<1>5. /\ turn' = [turn EXCEPT ![a] = n] /\ IsTurn(n) /\ n.busy = TRUE /\ n.row = m
  BY DEF Goes
<1>6. Shapes'
  BY <1>1, <1>2, <1>5 DEF Shapes, GamesOK
<1>7. Received(a)' = Received(a)
  BY <1>2 DEF Received
<1>8. OwnStep(a)
  <2>1. \A x \in Profiles : told'[x] \in heard' \cup {NoRequest}
    <3>1. DOMAIN told = Profiles /\ turn[a].told \in heard \cup {NoRequest}
      BY <1>1 DEF Shapes, TurnOK
    <3>2. \A x \in Profiles : told[x] \in heard \cup {NoRequest}
      BY <1>1 DEF IInv, Past
    <3> QED
      BY <1>2, <3>1, <3>2
  <2>2. \A b \in Masters \ {a} : turn'[b] = turn[b] /\ rows'[b] \in {rows[b], [rows[b] EXCEPT !.buttons = {}]}
    BY <1>1, <1>4, <1>5 DEF Shapes
  <2> QED
    BY <1>1, <1>2, <2>1, <2>2 DEF OwnStep
<1>9. RolesOnRecord
  BY <1>2 DEF RolesOnRecord
<1>10. Queues' /\ TokenConfirmsItsTarget'
  BY <1>1, <1>2, OrdersStay
<1>11. OwnRow(a, m)
  <2>1. HadRole(m) /\ (Holding(m) => Holding(turn[a].row))
    BY <1>1, <1>3 DEF OwnRow, HadRole, Holding
  <2>2. \A x \in m.marks : x.message \notin Coming
    BY <1>1, <1>3 DEF OwnRow
  <2> QED
    BY <1>1, <1>3, <2>1, <2>2 DEF OwnRow
<1>12. Records(a)'
  <2>1. /\ rows'[a].state = rows[a].state /\ rows'[a].game = rows[a].game /\ rows'[a].who = rows[a].who
        /\ rows'[a].role = rows[a].role /\ rows'[a].marks = rows[a].marks \cup {r}
    BY <1>3, <1>4
  <2>2. /\ Pressed(a)' = Pressed(a) /\ GrantAsked(a)' = GrantAsked(a)
        /\ RevokeAsked(a)' = RevokeAsked(a) /\ PromoteAsked(a)' = PromoteAsked(a)
        /\ RemovalAsked(a)' = RemovalAsked(a)
        /\ (\A g, p : AdditionAsked(a, g, p)' = AdditionAsked(a, g, p))
        /\ (\A kd, g, x : Requested(a, kd, g, x)' = Requested(a, kd, g, x))
        /\ \A x : Grants(a, x)' = Grants(a, x)
    BY <1>7, <2>1, SameAsked
  <2>3. /\ (\A y : IsAdmin(y)' = IsAdmin(y) /\ Linked(y)' = Linked(y) /\ HasAdminAccess(y)' = HasAdminAccess(y))
        /\ \A y : KeepsAccess(a, y)' = KeepsAccess(a, y)
    <3>1. \A y : IsAdmin(y)' = IsAdmin(y) /\ Linked(y)' = Linked(y)
      BY DEF IsAdmin, Linked
    <3>2. \A y : RoleOf(y)' = RoleOf(y)
      BY <1>2, <3>1 DEF RoleOf, Level
    <3>3. \A y : HasAdminAccess(y)' = HasAdminAccess(y)
      BY <3>2 DEF HasAdminAccess, Level
    <3> QED
      BY <1>2, <1>7, <3>1, <3>3 DEF KeepsAccess, NotBy
  <2>4. ASSUME NEW x \in Profiles, By(Received(a).id, granted[x])' PROVE RoleRecord(a, x)'
    <3>1. RoleRecord(a, x) /\ roles'[x] = roles[x] /\ granted'[x] = granted[x]
      BY <1>1, <1>2, <1>7, <2>4 DEF Records, By
    <3>4. CASE /\ GrantAsked(a) /\ Pressed(a).who \in Profiles
               /\ x \in Linked(Pressed(a).who) /\ ~IsAdmin(Pressed(a).who)
               /\ granted[x] = Grants(a, Pressed(a).who)
               /\ roles[x] = rows[a].role
               /\ granted[Pressed(a).who] # NoRequest
      BY <1>2, <2>1, <2>2, <2>3, <3>1, <3>4 DEF RoleRecord
    <3>5. CASE /\ PromoteAsked(a) /\ x = rows[a].who
               /\ granted[x] = Grants(a, x) /\ roles[x] = "moderator"
      BY <1>2, <2>1, <2>2, <2>3, <3>1, <3>5 DEF RoleRecord
    <3>6. CASE /\ RevokeAsked(a) /\ x \in Linked(rows[a].who)
               /\ granted[x] = Requested(a, "revoke", NoGame, rows[a].who)
      BY <1>2, <2>1, <2>2, <2>3, <3>1, <3>6 DEF RoleRecord
    <3> QED
      BY <3>1, <3>4, <3>5, <3>6 DEF RoleRecord
  <2>5. ASSUME NEW g \in Games, NEW x \in Profiles, By(Received(a).id, changed[g][x])' PROVE LeaderRecord(a, g, x)'
    <3>1. LeaderRecord(a, g, x) /\ changed'[g][x] = changed[g][x]
      BY <1>1, <1>2, <1>7, <2>5 DEF Records, By
    <3> QED
      BY <2>1, <2>2, <2>3, <3>1 DEF LeaderRecord
  <2>6. ASSUME PromoteAsked(a)', Grants(a, rows[a].who)' \in rows'[a].marks,
               granted'[rows'[a].who] = Grants(a, rows[a].who)'
        PROVE  Grants(a, rows[a].who)' \in heard'
    <3>1. PICK p : p = rows[a].who
      OBVIOUS
    <3>2. Grants(a, rows[a].who)' = Grants(a, p)
      BY <2>1, <2>2, <3>1 DEF Grants, Requested
    <3>3. PromoteAsked(a) /\ Grants(a, p) \in rows[a].marks \cup {r} /\ granted[p] = Grants(a, p)
      BY <1>2, <2>1, <2>2, <2>6, <3>1, <3>2
    <3>4. Grants(a, p) \in heard
      BY <1>1, <3>1, <3>3 DEF Records
    <3> QED
      BY <1>2, <3>2, <3>4
  <2>7. \A s \in heard' : s.message = Received(a)'.id /\ s.kind = "revoke" => RevokeAsked(a)' /\ s.who = rows'[a].who
    BY <1>1, <1>2, <1>7, <2>1, <2>2 DEF Records
  <2> QED
    BY <2>4, <2>5, <2>6, <2>7 DEF Records
<1>13. OwnRow(a, rows'[a]) /\ rows'[a].state = rows[a].state /\ rows'[a].token = rows[a].token /\ OwnRow(a, n.row)
  BY <1>3, <1>4, <1>5, <1>11
<1> QED
  BY <1>5, <1>6, <1>8, <1>9, <1>10, <1>12, <1>13, RecordStep

LEMMA MarkKeeps ==
    ASSUME NEW a, Running(a), Mark(a), UNCHANGED gameVars
    PROVE  IInv'
<1>1. PICK t, e : t = turn[a] /\ e = Now(a)
  OBVIOUS
<1>2. /\ TurnOK(a, t) /\ t.todo # <<>> /\ Head(t.todo).do = "mark" /\ e = Head(t.todo) /\ DOMAIN turn = Masters
      /\ DOMAIN rows = Masters /\ Shapes /\ t.told \in heard \cup {NoRequest}
      /\ a \in Masters /\ pending[a] # {} /\ IsRow(rows[a]) /\ SoundRow(rows[a]) /\ IsRow(t.row)
      /\ Received(a).id \in 1 .. MaxMessages
  BY <1>1, RunningMeans DEF Mark, Doing, Now, Shapes, TurnOK
<1>3. PICK r : r = Requested(a, e.arg, e.game, e.who)
  OBVIOUS
<1>4. PICK m : m = With(t.row, r)
  OBVIOUS
<1>5. RowSaved(a, m) /\ turn' = [turn EXCEPT ![a].row = m, ![a].todo = Tail(t.todo)]
  <2>1. /\ rows' = [rows EXCEPT ![a] = m] /\ told' = [told EXCEPT ![a] = turn[a].told]
        /\ UNCHANGED <<games, leaders, roles, granted, pending, keyboard, heard, changed, refused, sent, queue, published>>
    BY <1>1, <1>3, <1>4 DEF Mark, gameVars, With
  <2>2. turn' = [turn EXCEPT ![a].row = m, ![a].todo = Tail(@)]
    BY <1>1, <1>3, <1>4 DEF Mark, With
  <2>3. turn' = [turn EXCEPT ![a].row = m, ![a].todo = Tail(t.todo)]
    BY <1>1, <1>2, <2>2
  <2> QED
    BY <2>1, <2>3 DEF RowSaved
<1>6. IsRow(m) /\ m.marks = t.row.marks \cup {r}
  BY <1>2, <1>4, MarkedRow
<1>7. PICK n : Goes(a, n, m, Tail(t.todo))
  <2>1. PICK todo : todo = Tail(t.todo)
    OBVIOUS
  <2>2. turn' = [turn EXCEPT ![a].row = m, ![a].todo = todo]
    BY <1>5, <2>1
  <2> QED
    BY <1>6, <2>1, <2>2, TurningTo
<1>8. n.told = t.told /\ n.todo = Tail(t.todo) /\ n.note = t.note /\ n.row = m /\ n.manages = t.manages
  BY <1>1, <1>7 DEF Goes
<1>9. /\ rows'[a] = m /\ n.told \in heard' \cup {NoRequest} /\ pending' = pending /\ heard' = heard
      /\ granted' = granted /\ roles' = roles
  BY <1>2, <1>5, <1>8 DEF RowSaved
<1>10. ASSUME Alike(t.row, rows[a]), t.note = "", r \in Request,
              PromoteTurn(a, n)' \/ AddTurn(a, n)' \/ RemoveTurn(a, n)',
              PromoteAsked(a) /\ r = Grants(a, rows[a].who) /\ granted[rows[a].who] = r => r \in heard
       PROVE  IInv'
  <2>1. Revoked(a, n)'
    BY <1>8, <1>10 DEF Revoked
  <2>2. TurnOK(a, n)'
    BY <1>9, <1>10, <2>1 DEF TurnOK
  <2>3. r.message = Received(a).id
    BY <1>3 DEF Requested
  <2> QED
    BY <1>1, <1>4, <1>5, <1>7, <1>10, <2>2, <2>3, Marked
<1>11. ASSUME Alike(t.row, rows[a])
       PROVE  /\ PromoteAsked(a)' = PromoteAsked(a) /\ RemovalAsked(a)' = RemovalAsked(a)
              /\ (\A g, p : AdditionAsked(a, g, p)' = AdditionAsked(a, g, p))
              /\ (\A kd, g, x : Requested(a, kd, g, x)' = Requested(a, kd, g, x))
              /\ (\A x : Grants(a, x)' = Grants(a, x))
              /\ rows'[a].state = rows[a].state /\ rows'[a].game = rows[a].game /\ rows'[a].who = rows[a].who
              /\ rows'[a].marks = rows[a].marks \cup {r}
  <2>1. PICK row, own : row = t.row /\ own = rows[a]
    OBVIOUS
  <2>2. /\ row.state = own.state /\ row.game = own.game /\ row.who = own.who /\ row.role = own.role
        /\ row.token = own.token /\ row.marks = own.marks
    BY <1>2, <1>11, <2>1, SameMarks
  <2>3. m.state = row.state /\ m.game = row.game /\ m.who = row.who /\ m.marks = row.marks \cup {r}
    BY <1>2, <1>4, <2>1, MarkedRow
  <2>4. /\ rows'[a].state = rows[a].state /\ rows'[a].game = rows[a].game /\ rows'[a].who = rows[a].who
        /\ rows'[a].marks = rows[a].marks \cup {r}
    BY <1>9, <2>1, <2>2, <2>3
  <2>5. Received(a)' = Received(a)
    BY <1>9 DEF Received
  <2> QED
    BY <2>4, <2>5, SameAsked
<1>12. PromoteTurn(a, t) \/ AddTurn(a, t) \/ RemoveTurn(a, t)
  BY <1>2, Heads DEF TurnOK
<1>13. CASE PromoteTurn(a, t)
  <2>1. PICK p, g : p = rows[a].who /\ g = rows[a].game
    OBVIOUS
  <2>2. PromotionStep(a, t, p)
    BY <1>13, <2>1, PromoteHead
  <2>3. /\ PromoteAsked(a) /\ t.note = "" /\ Alike(t.row, rows[a]) /\ Head(t.todo) = PromotionMark(p)
        /\ Tail(t.todo) = <<Assigning(g, p)>> /\ g \in t.manages \cap Games
        /\ (granted[p] = Grants(a, p) => Grants(a, p) \in heard)
    BY <1>2, <2>1, <2>2 DEF PromotionStep
  <2>4. r = Grants(a, p)
    <3>1. PromotionMark(p).arg = "grant" /\ PromotionMark(p).game = NoGame /\ PromotionMark(p).who = p
      BY Zenon DEF PromotionMark, Do
    <3> QED
      BY <1>2, <1>3, <2>3, <3>1 DEF Grants
  <2>5. r \in Request
    <3>1. p \in Profiles
      BY <1>2, <2>1, <2>3 DEF PromoteAsked, SoundRow
    <3> QED
      BY <1>2, <2>4, <3>1 DEF Grants, Requested, Request, Optional
  <2>6. PromoteTurn(a, n)'
    <3>1. PICK todo : todo = <<Assigning(g, p)>>
      OBVIOUS
    <3>2. n.todo = todo /\ g \in n.manages \cap Games /\ n.note = ""
      BY <1>8, <2>3, <3>1
    <3>3. rows'[a].who = p /\ rows'[a].game = g /\ Alike(n.row, rows[a])' /\ PromoteAsked(a)'
          /\ Grants(a, p)' \in rows'[a].marks
      BY <1>8, <1>9, <1>11, <2>1, <2>3, <2>4 DEF Alike
    <3> QED
      BY <3>1, <3>2, <3>3, Zenon DEF PromoteTurn, Assigning, Do
  <2> QED
    BY <1>10, <2>1, <2>3, <2>4, <2>5, <2>6
<1>14. CASE AddTurn(a, t)
  <2>1. PICK g \in Games, p \in Profiles : AddsAs(a, t, g, p)
    BY <1>14 DEF AddTurn
  <2>2. PICK request, mark, add, check :
          /\ request = Requested(a, "leader-grant", g, p) /\ mark = Do("mark", g, p, "leader-grant")
          /\ add = Adding(g, p) /\ check = LeaderCheck(g, p)
    OBVIOUS
  <2>3. /\ AdditionAsked(a, g, p) /\ t.note = "" /\ (PromoteAsked(a) => Grants(a, p) \in rows[a].marks)
        /\ Head(t.todo) = mark /\ Tail(t.todo) = <<add, check>> \o Telling("leader-grant", g, p)
        /\ g \in t.manages /\ Alike(t.row, rows[a]) /\ KeepsAccess(a, p)
    BY <1>2, <2>1, <2>2, AddHead
  <2>4. r = request /\ r.kind = "leader-grant"
    <3>1. mark.arg = "leader-grant" /\ mark.game = g /\ mark.who = p
      BY <2>2 DEF Do
    <3> QED
      BY <1>2, <1>3, <2>2, <2>3, <3>1 DEF Requested
  <2>5. r \in Request
    BY <1>2, <2>2, <2>4, SMTT(30) DEF Requested, Request, Optional
  <2>6. AddTurn(a, n)'
    <3>1. PICK todo : todo = <<add, check>> \o Telling("leader-grant", g, p)
      OBVIOUS
    <3>2. n.todo = todo /\ g \in n.manages /\ n.note = ""
      BY <1>8, <2>3, <3>1
    <3>3. /\ AdditionAsked(a, g, p)' /\ (PromoteAsked(a)' => Grants(a, p)' \in rows'[a].marks)
          /\ Requested(a, "leader-grant", g, p)' \in rows'[a].marks
      BY <1>11, <2>2, <2>3, <2>4
    <3>4. KeepsAccess(a, p)'
      <4>1. Linked(p)' = Linked(p) /\ IsAdmin(p)' = IsAdmin(p)
        BY DEF Linked, IsAdmin
      <4>2. HasAdminAccess(p)' = HasAdminAccess(p)
        BY <1>9, <4>1 DEF HasAdminAccess, RoleOf, Level
      <4>3. Received(a)' = Received(a)
        BY <1>9 DEF Received
      <4> QED
        BY <1>9, <2>3, <4>1, <4>2, <4>3 DEF KeepsAccess, NotBy
    <3>5. AddsAs(a, n, g, p)'
      <4>1. Telling("leader-grant", g, p)' = Telling("leader-grant", g, p)
        BY Zenon DEF Telling, Do
      <4> QED
        BY <2>2, <3>1, <3>2, <3>3, <3>4, <4>1, Zenon DEF AddsAs, Adding, LeaderCheck, Do
    <3> QED
      BY <3>5 DEF AddTurn
  <2>7. r # Grants(a, rows[a].who)
    <3>1. Grants(a, rows[a].who).kind = "grant"
      BY DEF Grants, Requested
    <3> QED
      BY <2>4, <3>1
  <2> QED
    BY <1>10, <2>3, <2>5, <2>6, <2>7
<1>15. CASE RemoveTurn(a, t)
  <2>1. PICK g, p : g = rows[a].game /\ p = rows[a].who
    OBVIOUS
  <2>2. PICK request, mark, remove :
          /\ request = Requested(a, "leader-revoke", g, p) /\ mark = Do("mark", g, p, "leader-revoke")
          /\ remove = Removing(g, p)
    OBVIOUS
  <2>3. /\ RemovalAsked(a) /\ t.note = "" /\ g \in Games /\ p \in Profiles
        /\ Head(t.todo) = mark /\ Tail(t.todo) = <<remove>> \o Telling("leader-revoke", g, p)
        /\ g \in t.manages /\ Alike(t.row, rows[a])
    <3>1. RemovalStep(a, t, g, p)
      BY <1>15, <2>1, RemoveHead
    <3>2. mark = Marking("leader-revoke", g, p)
      BY <2>2 DEF Marking
    <3> QED
      BY <1>2, <1>15, <2>2, <3>1, <3>2, RemoveNote DEF RemovalStep
  <2>4. r = request /\ r.kind = "leader-revoke"
    <3>1. mark.arg = "leader-revoke" /\ mark.game = g /\ mark.who = p
      BY <2>2 DEF Do
    <3> QED
      BY <1>2, <1>3, <2>2, <2>3, <3>1 DEF Requested
  <2>5. r \in Request
    BY <1>2, <2>2, <2>3, <2>4 DEF Requested, Request, Optional
  <2>6. RemoveTurn(a, n)'
    <3>1. PICK todo : todo = <<remove>> \o Telling("leader-revoke", g, p)
      OBVIOUS
    <3>2. n.todo = todo /\ g \in n.manages /\ n.note = ""
      BY <1>8, <2>3, <3>1
    <3>3. /\ RemovalAsked(a)' /\ rows'[a].game = g /\ rows'[a].who = p
          /\ Requested(a, "leader-revoke", g, p)' \in rows'[a].marks
      <4>1. Alike(t.row, rows[a]) /\ RemovalAsked(a)
        BY <2>3, Zenon
      <4>2. /\ RemovalAsked(a)' = RemovalAsked(a) /\ (\A kd, gm, x : Requested(a, kd, gm, x)' = Requested(a, kd, gm, x))
            /\ rows'[a].game = rows[a].game /\ rows'[a].who = rows[a].who /\ rows'[a].marks = rows[a].marks \cup {r}
        BY <1>11, <4>1
      <4> QED
        BY <2>1, <2>2, <2>4, <4>1, <4>2
    <3>4. todo = <<Removing(g, p)>> \o Telling("leader-revoke", g, p)
      BY <2>2, <3>1
    <3>5. /\ Removing(rows[a].game, rows[a].who)' = Removing(g, p)
          /\ Telling("leader-revoke", rows[a].game, rows[a].who)' = Telling("leader-revoke", g, p)
      <4>1. PICK x, y : x = rows'[a].game /\ y = rows'[a].who
        OBVIOUS
      <4>2. x = g /\ y = p
        BY <3>3, <4>1
      <4>3. Removing(rows[a].game, rows[a].who)' = Removing(x, y)
        BY <4>1, Zenon DEF Removing, Do
      <4>4. Telling("leader-revoke", rows[a].game, rows[a].who)' = Telling("leader-revoke", x, y)
        BY <4>1, Zenon DEF Telling, Do
      <4> QED
        BY <4>2, <4>3, <4>4
    <3>6. RemovalAsked(a)' /\ g \in Games /\ p \in Profiles
      BY <2>3, <3>3
    <3> QED
      BY <3>2, <3>3, <3>4, <3>5, <3>6, Zenon DEF RemoveTurn, Removing
  <2>7. ~PromoteAsked(a)
    BY <2>3, Alone
  <2> QED
    BY <1>10, <2>3, <2>5, <2>6, <2>7
<1> QED
  BY <1>12, <1>13, <1>14, <1>15

(***************************************************************************)
(* The masters of a game                                                   *)
(***************************************************************************)
\* What an actor asks for, and who keeps his rights, without a new role.
LEMMA AskedStays ==
    ASSUME NEW a, UNCHANGED <<roles, granted, rows, pending>>
    PROVE  /\ Received(a)' = Received(a) /\ Pressed(a)' = Pressed(a)
           /\ GrantAsked(a)' = GrantAsked(a) /\ RevokeAsked(a)' = RevokeAsked(a)
           /\ PromoteAsked(a)' = PromoteAsked(a) /\ RemovalAsked(a)' = RemovalAsked(a)
           /\ (\A g, p : AdditionAsked(a, g, p)' = AdditionAsked(a, g, p))
           /\ (\A kd, g, x : Requested(a, kd, g, x)' = Requested(a, kd, g, x))
           /\ (\A x : Grants(a, x)' = Grants(a, x))
           /\ \A x : KeepsAccess(a, x)' = KeepsAccess(a, x)
<1>1. Received(a)' = Received(a)
  BY DEF Received
<1>2. rows'[a].state = rows[a].state /\ rows'[a].game = rows[a].game /\ rows'[a].who = rows[a].who
  OBVIOUS
<1>3. \A y : IsAdmin(y)' = IsAdmin(y) /\ Linked(y)' = Linked(y)
  BY DEF IsAdmin, Linked
<1>4. \A y : HasAdminAccess(y)' = HasAdminAccess(y)
  <2>1. \A y : RoleOf(y)' = RoleOf(y)
    BY <1>3 DEF RoleOf, Level
  <2> QED
    BY <2>1 DEF HasAdminAccess, Level
<1>5. \A x : KeepsAccess(a, x)' = KeepsAccess(a, x)
  BY <1>1, <1>3, <1>4 DEF KeepsAccess, NotBy
<1> QED
  BY <1>1, <1>2, <1>5, SameAsked

\* One master of one game is written.
LeaderWrites(g, q, who, r) ==
    /\ leaders' = [leaders EXCEPT ![g] = who] /\ changed' = [changed EXCEPT ![g][q] = r]
    /\ UNCHANGED <<games, roles, granted, told, rows, pending, keyboard, heard, refused, sent, queue, published>>

LEMMA LeaderWritten ==
    ASSUME NEW a, Running(a), NEW g \in Games, NEW q \in Profiles, NEW who \in SUBSET Profiles,
           NEW kind \in {"leader-grant", "leader-revoke"}, NEW r, r = Requested(a, kind, g, q),
           LeaderWrites(g, q, who, r), NEW n, Goes(a, n, turn[a].row, Tail(turn[a].todo)), TurnOK(a, n)',
           LeaderRecord(a, g, q)'
    PROVE  IInv'
<1>1. /\ IInv /\ a \in Masters /\ pending[a] # {} /\ Shapes /\ Records(a) /\ OwnRow(a, rows[a])
      /\ OwnRow(a, turn[a].row) /\ Received(a).id \in 1 .. MaxMessages /\ IsRow(rows[a])
  BY RunningMeans
<1>2. /\ leaders' = [leaders EXCEPT ![g] = who] /\ changed' = [changed EXCEPT ![g][q] = r]
      /\ UNCHANGED <<games, roles, granted, told, rows, pending, keyboard, heard, refused, sent, queue, published>>
  BY DEF LeaderWrites
<1>3. r \in Request /\ r # NoRequest /\ r.message = Received(a).id
  <2>1. r \in Request /\ r.message = Received(a).id /\ r.kind = kind
    BY <1>1 DEF Requested, Request, Optional
  <2>2. r # NoRequest
    BY <2>1 DEF NoRequest
  <2> QED
    BY <2>1, <2>2
<1>4. /\ changed' \in [Games -> [Profiles -> Request \cup {NoRequest}]]
      /\ changed'[g][q] = r
      /\ \A h \in Games, x \in Profiles : (h # g \/ x # q) => changed'[h][x] = changed[h][x]
  BY <1>1, <1>2, <1>3 DEF Shapes
<1>5. /\ turn' = [turn EXCEPT ![a] = n] /\ IsTurn(n) /\ n.busy = TRUE /\ n.row = turn[a].row
  BY DEF Goes
<1>6. Shapes'
  <2>1. leaders' \in [Games -> SUBSET Profiles]
    BY <1>1, <1>2 DEF Shapes
  <2> QED
    BY <1>1, <1>2, <1>4, <1>5, <2>1 DEF Shapes, GamesOK
<1>7. /\ Received(a)' = Received(a) /\ GrantAsked(a)' = GrantAsked(a)
      /\ RevokeAsked(a)' = RevokeAsked(a) /\ PromoteAsked(a)' = PromoteAsked(a)
      /\ RemovalAsked(a)' = RemovalAsked(a) /\ Pressed(a)' = Pressed(a)
      /\ (\A h, x : AdditionAsked(a, h, x)' = AdditionAsked(a, h, x))
      /\ (\A kd, h, x : Requested(a, kd, h, x)' = Requested(a, kd, h, x))
      /\ (\A x : Grants(a, x)' = Grants(a, x))
      /\ \A x : KeepsAccess(a, x)' = KeepsAccess(a, x)
  BY <1>2, AskedStays
<1>8. OwnStep(a)
  <2>1. \A h \in Games, x \in Profiles : changed'[h][x] = changed[h][x] \/ By(Received(a).id, changed'[h][x])
    BY <1>3, <1>4 DEF By
  <2>2. \A x \in Profiles : told'[x] \in heard' \cup {NoRequest}
    BY <1>1, <1>2 DEF IInv, Past
  <2>3. \A b \in Masters \ {a} : turn'[b] = turn[b] /\ rows'[b] \in {rows[b], [rows[b] EXCEPT !.buttons = {}]}
    BY <1>1, <1>2, <1>5 DEF Shapes
  <2> QED
    BY <1>1, <1>2, <2>1, <2>2, <2>3 DEF OwnStep
<1>9. RolesOnRecord
  BY <1>2 DEF RolesOnRecord
<1>10. Queues' /\ TokenConfirmsItsTarget'
  BY <1>1, <1>2, OrdersStay
<1>11. Records(a)'
  <2>1. ASSUME NEW x \in Profiles, By(Received(a).id, granted[x])' PROVE RoleRecord(a, x)'
    <3>1. RoleRecord(a, x)
      BY <1>1, <1>2, <1>7, <2>1 DEF Records, By
    <3>2. \A y : IsAdmin(y)' = IsAdmin(y) /\ Linked(y)' = Linked(y)
      BY DEF IsAdmin, Linked
    <3> QED
      BY <1>2, <1>7, <3>1, <3>2 DEF RoleRecord
  <2>2. ASSUME NEW h \in Games, NEW x \in Profiles, By(Received(a).id, changed[h][x])' PROVE LeaderRecord(a, h, x)'
    <3>1. CASE h = g /\ x = q
      BY <3>1
    <3>2. CASE h # g \/ x # q
      <4>1. LeaderRecord(a, h, x) /\ changed'[h][x] = changed[h][x]
        BY <1>1, <1>4, <1>7, <2>2, <3>2 DEF Records, By
      <4> QED
        BY <1>2, <1>7, <4>1 DEF LeaderRecord
    <3> QED
      BY <3>1, <3>2
  <2>3. ASSUME PromoteAsked(a)', Grants(a, rows[a].who)' \in rows'[a].marks,
               granted'[rows'[a].who] = Grants(a, rows[a].who)'
        PROVE  Grants(a, rows[a].who)' \in heard'
    <3>1. PICK p : p = rows[a].who
      OBVIOUS
    <3>2. Grants(a, rows[a].who)' = Grants(a, p)
      BY <1>2, <1>7, <3>1 DEF Grants, Requested
    <3>3. PromoteAsked(a) /\ Grants(a, p) \in rows[a].marks /\ granted[p] = Grants(a, p)
      BY <1>2, <1>7, <2>3, <3>1, <3>2
    <3>4. Grants(a, p) \in heard
      BY <1>1, <3>1, <3>3 DEF Records
    <3> QED
      BY <1>2, <3>2, <3>4
  <2>4. \A s \in heard' : s.message = Received(a)'.id /\ s.kind = "revoke" => RevokeAsked(a)' /\ s.who = rows'[a].who
    BY <1>1, <1>2, <1>7 DEF Records
  <2> QED
    BY <2>1, <2>2, <2>3, <2>4 DEF Records
<1>12. OwnRow(a, rows'[a]) /\ rows'[a] = rows[a] /\ OwnRow(a, n.row)
  <2>1. rows'[a] = rows[a]
    BY <1>2
  <2> QED
    BY <1>1, <1>5, <2>1
<1> QED
  BY <1>5, <1>6, <1>8, <1>9, <1>10, <1>11, <1>12, RecordStep

LEMMA AddLeaderKeeps ==
    ASSUME NEW a, Running(a), AddLeader(a), UNCHANGED gameVars
    PROVE  IInv'
<1>1. PICK t, e : t = turn[a] /\ e = Now(a)
  OBVIOUS
<1>2. /\ TurnOK(a, t) /\ t.todo # <<>> /\ Head(t.todo).do = "add-leader" /\ e = Head(t.todo)
      /\ Shapes /\ t.told \in heard \cup {NoRequest} /\ OwnRow(a, t.row)
  BY <1>1, RunningMeans DEF AddLeader, Doing, Now, TurnOK
<1>3. PICK g \in Games, p \in Profiles : AddsAs(a, t, g, p)
  BY <1>2, Heads DEF TurnOK, AddTurn
<1>4. PICK request, mark, add, check :
          /\ request = Requested(a, "leader-grant", g, p) /\ mark = Do("mark", g, p, "leader-grant")
          /\ add = Adding(g, p) /\ check = LeaderCheck(g, p)
  OBVIOUS
<1>5. /\ AdditionAsked(a, g, p) /\ t.note = "" /\ (PromoteAsked(a) => Grants(a, p) \in rows[a].marks)
      /\ Head(t.todo) = add /\ Tail(t.todo) = <<check>> \o Telling("leader-grant", g, p)
      /\ request \in rows[a].marks /\ KeepsAccess(a, p)
  BY <1>2, <1>3, <1>4, AddHead
<1>6. e.game = g /\ e.who = p
  <2>1. add.game = g /\ add.who = p
    BY <1>4, Zenon DEF Adding, Do
  <2> QED
    BY <1>2, <1>5, <2>1
<1>7. PICK n : Goes(a, n, turn[a].row, Tail(turn[a].todo))
  BY Proceeding DEF AddLeader
<1>8. n.told = t.told /\ n.todo = Tail(t.todo) /\ n.note = t.note /\ n.row = t.row
  BY <1>1, <1>7 DEF Goes
<1>9. PICK todo : todo = <<check>> \o Telling("leader-grant", g, p)
  OBVIOUS
<1>10. n.todo = todo /\ n.note = ""
  BY <1>5, <1>8, <1>9
<1>11. CASE UNCHANGED <<leaders, changed>>
  <2>1. AddTurn(a, n)
    <3>1. AddsAs(a, n, g, p)
      BY <1>4, <1>5, <1>9, <1>10, Zenon DEF AddsAs, LeaderCheck
    <3> QED
      BY <3>1 DEF AddTurn
  <2>2. Revoked(a, n)
    BY <1>2, <1>8, KeptRevoked
  <2>3. TurnOK(a, n)
    BY <1>2, <1>8, <2>1, <2>2 DEF TurnOK
  <2>4. UNCHANGED Others
    BY <1>11 DEF AddLeader, Others, gameVars
  <2> QED
    BY <1>2, <1>7, <1>8, <2>3, <2>4, OtherTurn DEF Goes
<1>12. CASE SetLeaders(g, leaders[g] \cup {p}, Requested(a, "leader-grant", g, p))
  <2>1. PICK who \in SUBSET Profiles : who = leaders[g] \cup {p}
    BY <1>2 DEF Shapes
  <2>2. LeaderWrites(g, p, who, request)
    <3>1. Requested(a, "leader-grant", g, p).who = p
      BY DEF Requested
    <3> QED
      BY <1>4, <1>12, <2>1, <3>1 DEF LeaderWrites, SetLeaders, AddLeader, gameVars
  <2>3. UNCHANGED <<roles, granted, rows, pending, heard>> /\ changed' = [changed EXCEPT ![g][p] = request]
    BY <2>2 DEF LeaderWrites
  <2>4. /\ PromoteAsked(a)' = PromoteAsked(a) /\ AdditionAsked(a, g, p)' = AdditionAsked(a, g, p)
        /\ Requested(a, "leader-grant", g, p)' = Requested(a, "leader-grant", g, p)
        /\ Grants(a, p)' = Grants(a, p) /\ KeepsAccess(a, p)' = KeepsAccess(a, p)
    BY <2>3, AskedStays
  <2>5. changed'[g][p] = request
    BY <1>2, <2>3 DEF Shapes
  <2>6. LeaderRecord(a, g, p)'
    BY <1>4, <1>5, <2>3, <2>4, <2>5 DEF LeaderRecord
  <2>7. AddTurn(a, n)'
    <3>1. Telling("leader-grant", g, p)' = Telling("leader-grant", g, p)
      BY Zenon DEF Telling, Do
    <3>2. /\ AdditionAsked(a, g, p)' /\ (PromoteAsked(a)' => Grants(a, p)' \in rows'[a].marks)
      BY <1>5, <2>3, <2>4
    <3>3. AddsAs(a, n, g, p)'
      BY <1>4, <1>9, <1>10, <3>1, <3>2, Zenon DEF AddsAs, LeaderCheck, Do
    <3> QED
      BY <3>3 DEF AddTurn
  <2>8. TurnOK(a, n)'
    <3>1. Revoked(a, n)'
      BY <1>10 DEF Revoked
    <3> QED
      BY <1>2, <1>8, <2>3, <2>7, <3>1 DEF TurnOK
  <2>9. PICK kind \in {"leader-grant", "leader-revoke"} : kind = "leader-grant"
    OBVIOUS
  <2>10. request = Requested(a, kind, g, p)
    BY <1>4, <2>9
  <2> QED
    BY <1>7, <2>2, <2>6, <2>8, <2>10, LeaderWritten
<1> QED
  BY <1>1, <1>6, <1>11, <1>12 DEF AddLeader

LEMMA RemoveLeaderKeeps ==
    ASSUME NEW a, Running(a), RemoveLeader(a), UNCHANGED gameVars
    PROVE  IInv'
<1>1. PICK t, e : t = turn[a] /\ e = Now(a)
  OBVIOUS
<1>2. /\ TurnOK(a, t) /\ t.todo # <<>> /\ Head(t.todo).do = "remove-leader" /\ e = Head(t.todo)
      /\ Shapes /\ t.told \in heard \cup {NoRequest} /\ OwnRow(a, t.row)
  BY <1>1, RunningMeans DEF RemoveLeader, Doing, Now, TurnOK
<1>3. RemoveTurn(a, t)
  BY <1>2, Heads DEF TurnOK
<1>4. PICK g, p, request :
          g = rows[a].game /\ p = rows[a].who /\ request = Requested(a, "leader-revoke", g, p)
  OBVIOUS
<1>5. RemovalStep(a, t, g, p)
  BY <1>3, <1>4, RemoveHead
<1>6. /\ RemovalAsked(a) /\ t.note = "" /\ g \in Games /\ p \in Profiles
      /\ Head(t.todo) = Removing(g, p) /\ Tail(t.todo) = Telling("leader-revoke", g, p)
      /\ request \in rows[a].marks
  BY <1>2, <1>3, <1>4, <1>5, RemoveNote DEF RemovalStep
<1>7. e.game = g /\ e.who = p
  <2>1. Removing(g, p).game = g /\ Removing(g, p).who = p
    BY Zenon DEF Removing, Do
  <2> QED
    BY <1>2, <1>6, <2>1
<1>8. CASE GiveUp(a) /\ UNCHANGED <<leaders, changed>>
  <2>1. UNCHANGED Others
    BY <1>8 DEF RemoveLeader, Others, gameVars
  <2> QED
    BY <1>8, <2>1, GivenUp DEF GiveUp
<1>9. CASE SetLeaders(g, leaders[g] \ {p}, Requested(a, "leader-revoke", g, p)) /\ Proceed(a)
  <2>1. PICK who \in SUBSET Profiles : who = leaders[g] \ {p}
    BY <1>2, <1>6 DEF Shapes
  <2>2. LeaderWrites(g, p, who, request)
    <3>1. Requested(a, "leader-revoke", g, p).who = p
      BY DEF Requested
    <3> QED
      BY <1>4, <1>9, <2>1, <3>1 DEF LeaderWrites, SetLeaders, RemoveLeader, gameVars
  <2>3. UNCHANGED <<roles, granted, rows, pending, heard>> /\ changed' = [changed EXCEPT ![g][p] = request]
    BY <2>2 DEF LeaderWrites
  <2>4. PICK n : Goes(a, n, turn[a].row, Tail(turn[a].todo))
    BY <1>9, Proceeding
  <2>5. n.told = t.told /\ n.todo = Tail(t.todo) /\ n.note = t.note
    BY <1>1, <2>4 DEF Goes
  <2>6. /\ RemovalAsked(a)' = RemovalAsked(a)
        /\ Requested(a, "leader-revoke", g, p)' = Requested(a, "leader-revoke", g, p)
    BY <2>3, AskedStays
  <2>7. changed'[g][p] = request /\ rows'[a] = rows[a]
    BY <1>2, <1>6, <2>3 DEF Shapes
  <2>8. LeaderRecord(a, g, p)'
    BY <1>4, <1>6, <2>6, <2>7 DEF LeaderRecord
  <2>9. Announcing(a, n, "leader-revoke", g, p)'
    <3>1. Telling("leader-revoke", g, p)' = Telling("leader-revoke", g, p)
      BY Zenon DEF Telling, Do
    <3> QED
      BY <1>6, <2>5, <3>1 DEF Announcing
  <2>10. RemoveTurn(a, n)'
    <3>1. rows'[a].game = g /\ rows'[a].who = p /\ RemovalAsked(a)'
      BY <1>4, <1>6, <2>6, <2>7
    <3>2. n.note = ""
      BY <1>6, <2>5
    <3>3. Announcing(a, n, "leader-revoke", rows[a].game, rows[a].who)'
      BY <2>9, <3>1 DEF Announcing, Settled, Requested, Telling, Claiming
    <3> QED
      BY <1>6, <3>1, <3>2, <3>3, Zenon DEF RemoveTurn
  <2>11. TurnOK(a, n)'
    <3>1. Revoked(a, n)'
      BY <1>6, <2>5 DEF Revoked
    <3> QED
      BY <1>2, <2>3, <2>5, <2>10, <3>1 DEF TurnOK
  <2>12. PICK kind \in {"leader-grant", "leader-revoke"} : kind = "leader-revoke"
    OBVIOUS
  <2>13. request = Requested(a, kind, g, p)
    BY <1>4, <2>12
  <2> QED
    BY <1>6, <2>1, <2>2, <2>4, <2>8, <2>11, <2>12, <2>13, LeaderWritten
<1> QED
  BY <1>1, <1>7, <1>8, <1>9 DEF RemoveLeader

(***************************************************************************)
(* Notices                                                                 *)
(***************************************************************************)
\* The request that a turn announces.
Notifying(a, t, kind, g, p) ==
    \/ GrantTurn(a, t) /\ kind = "grant" /\ g = NoGame /\ p = Pressed(a).who
    \/ RevokeTurn(a, t) /\ kind = "revoke" /\ g = NoGame /\ p = rows[a].who
    \/ AddsAs(a, t, g, p) /\ kind = "leader-grant" /\ g \in Games /\ p \in Profiles
    \/ RemoveTurn(a, t) /\ kind = "leader-revoke" /\ g = rows[a].game /\ p = rows[a].who

LEMMA Notifies ==
    ASSUME NEW a, NEW t, TurnOK(a, t), t.todo # <<>>, Head(t.todo).do \in {"tell", "claim", "clear"}, ~PromoteTurn(a, t)
    PROVE  \E kind, g, p : Notifying(a, t, kind, g, p) /\ Announcing(a, t, kind, g, p)
<1>1. PICK grant, revoke, add, remove :
        grant = "grant" /\ revoke = "revoke" /\ add = "leader-grant" /\ remove = "leader-revoke"
  OBVIOUS
<1>2. \/ GrantTurn(a, t) /\ Announcing(a, t, grant, NoGame, Pressed(a).who)
      \/ RevokeTurn(a, t) /\ Announcing(a, t, revoke, NoGame, rows[a].who)
      \/ \E g \in Games, p \in Profiles : AddsAs(a, t, g, p) /\ Announcing(a, t, add, g, p)
      \/ RemoveTurn(a, t) /\ Announcing(a, t, remove, rows[a].game, rows[a].who)
  BY <1>1, AtTheEnd
<1> QED
  BY <1>1, <1>2 DEF Notifying

LEMMA NotifyingGoesOn ==
    ASSUME NEW a, NEW t, NEW kind, NEW g, NEW p, Notifying(a, t, kind, g, p), NEW n, n.note = t.note,
           Announcing(a, n, kind, g, p)
    PROVE  Notifying(a, n, kind, g, p)
  BY NoticeTurn DEF Notifying

LEMMA NotifyingTurn ==
    ASSUME NEW a, NEW n, NEW kind, NEW g, NEW p, Notifying(a, n, kind, g, p)
    PROVE  GrantTurn(a, n) \/ RevokeTurn(a, n) \/ AddTurn(a, n) \/ RemoveTurn(a, n)
  BY DEF Notifying, AddTurn

LEMMA NotifyingSettles ==
    ASSUME NEW a, Running(a), NEW t, NEW kind, NEW g, NEW p, Notifying(a, t, kind, g, p),
           Requested(a, kind, g, p) \in heard
    PROVE  Settled(a)
<1>1. GrantTurn(a, t) => GrantAsked(a)
  BY DEF GrantTurn
<1>2. RevokeTurn(a, t) => RevokeAsked(a)
  BY DEF RevokeTurn
<1>3. AddsAs(a, t, g, p) => AdditionAsked(a, g, p) /\ (PromoteAsked(a) => Grants(a, p) \in rows[a].marks)
  BY Zenon DEF AddsAs
<1>4. RemoveTurn(a, t) => RemovalAsked(a)
  BY Zenon DEF RemoveTurn
<1>5. \/ GrantAsked(a) /\ Grants(a, Pressed(a).who) \in heard
      \/ RevokeAsked(a) /\ Requested(a, "revoke", NoGame, rows[a].who) \in heard
      \/ /\ AdditionAsked(a, g, p) /\ Requested(a, "leader-grant", g, p) \in heard
         /\ PromoteAsked(a) => Grants(a, p) \in rows[a].marks
      \/ RemovalAsked(a) /\ Requested(a, "leader-revoke", rows[a].game, rows[a].who) \in heard
  BY <1>1, <1>2, <1>3, <1>4 DEF Notifying, Grants
<1> QED
  BY <1>5, RunningMeans, NoticeSettles

\* A notice is sent.
LEMMA NotifyingHeard ==
    ASSUME NEW a, NEW t, NEW kind, NEW g, NEW p, Notifying(a, t, kind, g, p),
           UNCHANGED <<roles, granted, rows, pending>>, NEW n, n.note = t.note,
           n.todo = Claiming(kind, g, p), Requested(a, kind, g, p) \in heard'
    PROVE  (GrantTurn(a, n) \/ RevokeTurn(a, n) \/ AddTurn(a, n) \/ RemoveTurn(a, n))'
<1>1. /\ GrantAsked(a)' = GrantAsked(a) /\ RevokeAsked(a)' = RevokeAsked(a) /\ Pressed(a)' = Pressed(a)
      /\ PromoteAsked(a)' = PromoteAsked(a) /\ RemovalAsked(a)' = RemovalAsked(a)
      /\ AdditionAsked(a, g, p)' = AdditionAsked(a, g, p)
      /\ Requested(a, kind, g, p)' = Requested(a, kind, g, p) /\ Grants(a, p)' = Grants(a, p)
  BY AskedStays
<1>2. Announcing(a, n, kind, g, p)'
  <2>1. Claiming(kind, g, p)' = Claiming(kind, g, p)
    BY Zenon DEF Claiming, Do
  <2> QED
    BY <1>1, <2>1 DEF Announcing
<1>3. rows'[a] = rows[a] /\ \A y : IsAdmin(y)' = IsAdmin(y)
  BY DEF IsAdmin, Linked
<1>4. CASE GrantTurn(a, t) /\ kind = "grant" /\ g = NoGame /\ p = Pressed(a).who
  <2>1. GrantAsked(a) /\ n.note = "" /\ p \in Profiles /\ ~IsAdmin(p)
    BY <1>4 DEF GrantTurn
  <2>2. Announcing(a, n, "grant", NoGame, Pressed(a).who)'
    BY <1>1, <1>2, <1>4 DEF Announcing, Settled, Requested, Telling, Claiming
  <2> QED
    BY <1>1, <1>3, <1>4, <2>1, <2>2, Zenon DEF GrantTurn
<1>5. CASE RevokeTurn(a, t) /\ kind = "revoke" /\ g = NoGame /\ p = rows[a].who
  <2>1. RevokeAsked(a) /\ n.note = "revoked"
    BY <1>5 DEF RevokeTurn
  <2>2. Announcing(a, n, "revoke", NoGame, rows[a].who)'
    BY <1>1, <1>2, <1>3, <1>5 DEF Announcing, Settled, Requested, Telling, Claiming
  <2> QED
    BY <1>1, <1>3, <1>5, <2>1, <2>2, Zenon DEF RevokeTurn
<1>6. CASE AddsAs(a, t, g, p) /\ kind = "leader-grant" /\ g \in Games /\ p \in Profiles
  <2>1. AdditionAsked(a, g, p) /\ n.note = "" /\ (PromoteAsked(a) => Grants(a, p) \in rows[a].marks)
    BY <1>6, Zenon DEF AddsAs
  <2>2. AddsAs(a, n, g, p)'
    BY <1>1, <1>2, <1>3, <1>6, <2>1, Zenon DEF AddsAs
  <2> QED
    BY <1>6, <2>2 DEF AddTurn
<1>7. CASE RemoveTurn(a, t) /\ kind = "leader-revoke" /\ g = rows[a].game /\ p = rows[a].who
  <2>1. RemovalAsked(a) /\ n.note = "" /\ g \in Games /\ p \in Profiles
    BY <1>7, Zenon DEF RemoveTurn
  <2>2. Announcing(a, n, "leader-revoke", rows[a].game, rows[a].who)'
    BY <1>1, <1>2, <1>3, <1>7 DEF Announcing, Settled, Requested, Telling, Claiming
  <2> QED
    BY <1>1, <1>3, <1>7, <2>1, <2>2, Zenon DEF RemoveTurn
<1> QED
  BY <1>4, <1>5, <1>6, <1>7 DEF Notifying

LEMMA NoticeSent ==
    ASSUME NEW a, Running(a), NEW r, r.message = Received(a).id,
           r.kind = "revoke" => RevokeAsked(a) /\ r.who = rows[a].who,
           heard' = heard \cup {r},
           UNCHANGED <<games, leaders, roles, granted, told, rows, pending, keyboard, changed, refused, sent,
                       queue, published>>,
           NEW n, Goes(a, n, turn[a].row, Tail(turn[a].todo)), TurnOK(a, n)'
    PROVE  IInv'
<1>1. /\ IInv /\ a \in Masters /\ pending[a] # {} /\ Shapes /\ Records(a) /\ OwnRow(a, rows[a])
      /\ OwnRow(a, turn[a].row) /\ Received(a).id \in 1 .. MaxMessages
  BY RunningMeans
<1>2. /\ turn' = [turn EXCEPT ![a] = n] /\ IsTurn(n) /\ n.busy = TRUE /\ n.row = turn[a].row
  BY DEF Goes
<1>3. Shapes'
  BY <1>1, <1>2 DEF Shapes, GamesOK
<1>4. /\ Received(a)' = Received(a) /\ GrantAsked(a)' = GrantAsked(a)
      /\ RevokeAsked(a)' = RevokeAsked(a) /\ PromoteAsked(a)' = PromoteAsked(a)
      /\ RemovalAsked(a)' = RemovalAsked(a) /\ Pressed(a)' = Pressed(a)
      /\ (\A h, x : AdditionAsked(a, h, x)' = AdditionAsked(a, h, x))
      /\ (\A kd, h, x : Requested(a, kd, h, x)' = Requested(a, kd, h, x))
      /\ (\A x : Grants(a, x)' = Grants(a, x))
      /\ \A x : KeepsAccess(a, x)' = KeepsAccess(a, x)
  BY AskedStays
<1>5. OwnStep(a)
  <2>1. \A x \in Profiles : told'[x] \in heard' \cup {NoRequest}
    BY <1>1 DEF IInv, Past
  <2>2. \A b \in Masters \ {a} : turn'[b] = turn[b] /\ rows'[b] \in {rows[b], [rows[b] EXCEPT !.buttons = {}]}
    BY <1>1, <1>2 DEF Shapes
  <2> QED
    BY <1>1, <2>1, <2>2 DEF OwnStep
<1>6. RolesOnRecord
  BY DEF RolesOnRecord
<1>7. Queues' /\ TokenConfirmsItsTarget'
  BY <1>1, OrdersStay
<1>8. Records(a)'
  <2>1. ASSUME NEW x \in Profiles, By(Received(a).id, granted[x])' PROVE RoleRecord(a, x)'
    <3>1. RoleRecord(a, x)
      BY <1>1, <1>4, <2>1 DEF Records, By
    <3>2. \A y : IsAdmin(y)' = IsAdmin(y) /\ Linked(y)' = Linked(y)
      BY DEF IsAdmin, Linked
    <3> QED
      BY <1>4, <3>1, <3>2 DEF RoleRecord
  <2>2. ASSUME NEW h \in Games, NEW x \in Profiles, By(Received(a).id, changed[h][x])' PROVE LeaderRecord(a, h, x)'
    <3>1. LeaderRecord(a, h, x)
      BY <1>1, <1>4, <2>2 DEF Records, By
    <3> QED
      BY <1>4, <3>1 DEF LeaderRecord
  <2>3. ASSUME PromoteAsked(a)', Grants(a, rows[a].who)' \in rows'[a].marks,
               granted'[rows'[a].who] = Grants(a, rows[a].who)'
        PROVE  Grants(a, rows[a].who)' \in heard'
    <3>1. PICK p : p = rows[a].who
      OBVIOUS
    <3>2. Grants(a, rows[a].who)' = Grants(a, p)
      BY <1>4, <3>1 DEF Grants, Requested
    <3>3. PromoteAsked(a) /\ Grants(a, p) \in rows[a].marks /\ granted[p] = Grants(a, p)
      BY <1>4, <2>3, <3>1, <3>2
    <3>4. Grants(a, p) \in heard
      BY <1>1, <3>1, <3>3 DEF Records
    <3> QED
      BY <3>2, <3>4
  <2>4. \A s \in heard' : s.message = Received(a)'.id /\ s.kind = "revoke" => RevokeAsked(a)' /\ s.who = rows'[a].who
    BY <1>1, <1>4 DEF Records
  <2> QED
    BY <2>1, <2>2, <2>3, <2>4 DEF Records
<1>9. OwnRow(a, rows'[a]) /\ rows'[a] = rows[a] /\ OwnRow(a, n.row)
  <2>1. rows'[a] = rows[a]
    OBVIOUS
  <2> QED
    BY <1>1, <1>2, <2>1
<1> QED
  BY <1>2, <1>3, <1>5, <1>6, <1>7, <1>8, <1>9, RecordStep

\* What a turn goes on with when its notice has been sent before.
LEMMA SentBefore ==
    ASSUME NEW a, NEW todo, Running(a), turn' = [turn EXCEPT ![a].todo = todo], UNCHANGED Others,
           \A n : n.todo = todo /\ n.note = turn[a].note /\ n.row = turn[a].row /\ n.manages = turn[a].manages
                     /\ n.told = turn[a].told => TurnOK(a, n)
    PROVE  IInv'
<1>1. PICK n : Goes(a, n, turn[a].row, todo)
  BY GoingOn
<1>2. TurnOK(a, n)
  BY <1>1 DEF Goes
<1>3. OwnRow(a, n.row)
  BY <1>1, RunningMeans DEF Goes
<1> QED
  BY <1>1, <1>2, <1>3, OtherTurn DEF Goes

LEMMA TellKeeps ==
    ASSUME NEW a, Running(a), Tell(a), UNCHANGED gameVars
    PROVE  IInv'
<1>1. PICK t, e : t = turn[a] /\ e = Now(a)
  OBVIOUS
<1>2. /\ TurnOK(a, t) /\ t.todo # <<>> /\ Head(t.todo).do = "tell" /\ e = Head(t.todo)
      /\ Shapes /\ t.told \in heard \cup {NoRequest} /\ OwnRow(a, t.row) /\ a \in DOMAIN turn /\ IInv
  BY <1>1, RunningMeans DEF Tell, Doing, Now, TurnOK, Shapes
<1>3. PICK r : r = Requested(a, e.arg, e.game, e.who)
  OBVIOUS
<1>4. \/ told[e.who] = r /\ UNCHANGED heard /\ turn' = [turn EXCEPT ![a].todo = Tail(Tail(t.todo))]
      \/ heard' = heard \cup {r} /\ Proceed(a)
  BY <1>1, <1>2, <1>3 DEF Tell
<1>5. UNCHANGED <<games, leaders, roles, granted, told, rows, pending, keyboard, changed, refused, sent, queue, published>>
  BY DEF Tell, gameVars
<1>6. r.message = Received(a).id /\ r.kind = e.arg /\ r.who = e.who
  BY <1>3 DEF Requested
<1>7. told[e.who] = r /\ e.who \in Profiles /\ r.kind # "none" => r \in heard
  <2>1. NoRequest.kind = "none"
    BY DEF NoRequest
  <2> QED
    BY <1>2, <2>1 DEF IInv, Past
<1>8. ASSUME e.who \in Profiles, r.kind # "none", r.kind = "revoke" => RevokeAsked(a) /\ r.who = rows[a].who,
             r \in heard => \A n : n.todo = Tail(Tail(t.todo)) /\ n.note = t.note /\ n.row = t.row
                                     /\ n.manages = t.manages /\ n.told = t.told => TurnOK(a, n),
             \A n : n.todo = Tail(t.todo) /\ n.note = t.note /\ n.row = t.row
                                     /\ n.manages = t.manages /\ n.told = t.told /\ heard' = heard \cup {r}
                       => TurnOK(a, n)'
      PROVE  IInv'
  <2>1. CASE told[e.who] = r /\ UNCHANGED heard /\ turn' = [turn EXCEPT ![a].todo = Tail(Tail(t.todo))]
    <3>1. PICK todo : todo = Tail(Tail(t.todo))
      OBVIOUS
    <3>2. r \in heard /\ turn' = [turn EXCEPT ![a].todo = todo]
      BY <1>7, <1>8, <2>1, <3>1
    <3>3. UNCHANGED Others
      BY <1>5, <2>1 DEF Others
    <3>4. \A n : n.todo = todo /\ n.note = turn[a].note /\ n.row = turn[a].row /\ n.manages = turn[a].manages
                     /\ n.told = turn[a].told => TurnOK(a, n)
      BY <1>1, <1>8, <3>1, <3>2
    <3> QED
      BY <3>2, <3>3, <3>4, SentBefore
  <2>2. CASE heard' = heard \cup {r} /\ Proceed(a)
    <3>1. PICK n : Goes(a, n, turn[a].row, Tail(turn[a].todo))
      BY <2>2, Proceeding
    <3>2. TurnOK(a, n)'
      BY <1>1, <1>8, <2>2, <3>1 DEF Goes
    <3> QED
      BY <1>5, <1>6, <1>8, <2>2, <3>1, <3>2, NoticeSent
  <2> QED
    BY <1>4, <2>1, <2>2
<1>9. ASSUME NEW n, n.note = t.note
      PROVE  Revoked(a, n) /\ Revoked(a, n)'
  <2>1. Revoked(a, n)
    BY <1>2, <1>9, KeptRevoked
  <2>2. Linked(rows[a].who)' = Linked(rows[a].who)
    BY <1>5 DEF Linked
  <2> QED
    BY <1>5, <2>1, <2>2, Zenon DEF Revoked, Do
<1>10. CASE PromoteTurn(a, t)
  <2>1. PICK p, g : p = rows[a].who /\ g = rows[a].game
    OBVIOUS
  <2>2. PromotionStep(a, t, p)
    BY <1>10, <2>1, PromoteHead
  <2>3. /\ PromoteAsked(a) /\ t.note = "" /\ Head(t.todo) = PromotionTell(p) /\ Alike(t.row, rows[a])
        /\ Tail(t.todo) = <<PromotionClaim(p), PromotionMark(p), Assigning(g, p)>>
        /\ Tail(Tail(t.todo)) = <<PromotionMark(p), Assigning(g, p)>> /\ g \in t.manages \cap Games
    BY <1>2, <2>1, <2>2 DEF PromotionStep
  <2>4. p \in Profiles
    BY <2>1, <2>3, RunningMeans DEF PromoteAsked, SoundRow
  <2>5. e.who = p /\ e.arg = "grant" /\ r = Grants(a, p)
    <3>1. PromotionTell(p).arg = "grant" /\ PromotionTell(p).game = NoGame /\ PromotionTell(p).who = p
      BY Zenon DEF PromotionTell, Do
    <3> QED
      BY <1>2, <1>3, <2>3, <3>1 DEF Grants
  <2>6. ASSUME r \in heard, NEW n, n.todo = Tail(Tail(t.todo)), n.note = t.note, n.row = t.row,
               n.manages = t.manages, n.told = t.told
        PROVE  TurnOK(a, n)
    <3>1. n.todo = <<PromotionMark(p), Assigning(rows[a].game, p)>>
      BY <2>1, <2>3, <2>6
    <3>2. PromoteTurn(a, n)
      BY <1>10, <2>1, <2>5, <2>6, <3>1, PromoteTurnIs
    <3> QED
      BY <1>2, <1>9, <2>6, <3>2 DEF TurnOK
  <2>7. ASSUME NEW n, n.todo = Tail(t.todo), n.note = t.note, n.row = t.row,
               n.manages = t.manages, n.told = t.told, heard' = heard \cup {r}
        PROVE  TurnOK(a, n)'
    <3>1. PICK todo : todo = <<PromotionClaim(p), PromotionMark(p), Assigning(g, p)>>
      OBVIOUS
    <3>2. n.todo = todo /\ g \in n.manages \cap Games /\ n.note = "" /\ Alike(n.row, rows[a])
      BY <2>3, <2>7, <3>1
    <3>3. PromoteAsked(a)' /\ Grants(a, p)' = Grants(a, p)
      BY <1>5, <2>3, AskedStays
    <3>4. /\ rows'[a].who = p /\ rows'[a].game = g /\ Alike(n.row, rows[a])' /\ Grants(a, p)' \in heard'
      BY <1>5, <2>1, <2>5, <2>7, <3>2, <3>3 DEF Alike
    <3>5. PromoteTurn(a, n)'
      BY <3>1, <3>2, <3>3, <3>4, Zenon DEF PromoteTurn, PromotionClaim, PromotionMark, Assigning, Do
    <3> QED
      BY <1>2, <1>9, <2>7, <3>5 DEF TurnOK
  <2> QED
    BY <1>6, <1>8, <2>4, <2>5, <2>6, <2>7
<1>11. CASE ~PromoteTurn(a, t)
  <2>1. PICK kind, g, p : Notifying(a, t, kind, g, p) /\ Announcing(a, t, kind, g, p)
    BY <1>2, <1>11, Notifies, SMTT(30)
  <2>2. Head(t.todo) = Do("tell", g, p, kind) /\ Tail(t.todo) = Claiming(kind, g, p) /\ Tail(Tail(t.todo)) = Ending
    BY <1>2, <2>1, AnnouncingHead, DoFields
  <2>3. e.who = p /\ e.arg = kind /\ r = Requested(a, kind, g, p) /\ r.kind = kind
    BY <1>2, <1>3, <1>6, <2>2, DoFields
  <2>4. p \in Profiles /\ kind # "none" /\ (kind = "revoke" => RevokeAsked(a) /\ p = rows[a].who)
    <3>1. GrantTurn(a, t) => Pressed(a).who \in Profiles
      BY DEF GrantTurn
    <3>2. RevokeTurn(a, t) => RevokeAsked(a)
      BY DEF RevokeTurn
    <3>3. RevokeAsked(a) => rows[a].who \in Profiles
      BY RunningMeans DEF RevokeAsked, SoundRow
    <3>4. RemoveTurn(a, t) => rows[a].who \in Profiles
      BY Zenon DEF RemoveTurn
    <3> QED
      BY <2>1, <3>1, <3>2, <3>3, <3>4 DEF Notifying
  <2>5. ASSUME r \in heard, NEW n, n.todo = Tail(Tail(t.todo)), n.note = t.note, n.row = t.row,
               n.manages = t.manages, n.told = t.told
        PROVE  TurnOK(a, n)
    <3>1. Settled(a)
      BY <2>1, <2>3, <2>5, NotifyingSettles
    <3>2. Announcing(a, n, kind, g, p)
      BY <2>2, <2>5, <3>1 DEF Announcing
    <3>3. Notifying(a, n, kind, g, p)
      BY <2>1, <2>5, <3>2, NotifyingGoesOn
    <3>4. GrantTurn(a, n) \/ RevokeTurn(a, n) \/ AddTurn(a, n) \/ RemoveTurn(a, n)
      BY <3>3, NotifyingTurn
    <3> QED
      BY <1>2, <1>9, <2>5, <3>4 DEF TurnOK
  <2>6. ASSUME NEW n, n.todo = Tail(t.todo), n.note = t.note, n.row = t.row,
               n.manages = t.manages, n.told = t.told, heard' = heard \cup {r}
        PROVE  TurnOK(a, n)'
    <3>1. (GrantTurn(a, n) \/ RevokeTurn(a, n) \/ AddTurn(a, n) \/ RemoveTurn(a, n))'
      BY <1>5, <2>1, <2>2, <2>3, <2>6, NotifyingHeard
    <3> QED
      BY <1>2, <1>9, <2>6, <3>1 DEF TurnOK
  <2> QED
    BY <1>6, <1>8, <2>3, <2>4, <2>5, <2>6
<1> QED
  BY <1>10, <1>11

(***************************************************************************)
(* The claim of a notice                                                   *)
(***************************************************************************)
Cleaned(row) == [row EXCEPT !.buttons = {}]

LEMMA CleanedRow ==
    ASSUME NEW row, IsRow(row)
    PROVE  /\ Cleaned(row).state = row.state /\ Cleaned(row).token = row.token /\ Cleaned(row).game = row.game
           /\ Cleaned(row).who = row.who
  BY DEF IsRow, RowFields, Cleaned

\* The notice of the request r is claimed in the row of p; the turn of a goes on as n.
Claims(a, p, r, n) ==
    /\ told' = [told EXCEPT ![p] = r]
    /\ rows' = [b \in Masters |-> IF b = p THEN Cleaned(rows[b]) ELSE rows[b]]
    /\ turn' = [turn EXCEPT ![a] = n]
    /\ UNCHANGED <<games, leaders, roles, granted, pending, keyboard, heard, changed, refused, sent, queue, published>>

LEMMA NoticeClaimed ==
    ASSUME NEW a, Running(a), NEW p \in Profiles, NEW r \in heard, NEW n, Claims(a, p, r, n),
           IsTurn(n), n.busy = TRUE, n.row = turn[a].row, TurnOK(a, n)
    PROVE  IInv'
<1>1. /\ IInv /\ a \in Masters /\ pending[a] # {} /\ Shapes /\ Records(a) /\ OwnRow(a, rows[a])
      /\ OwnRow(a, turn[a].row) /\ IsRow(rows[a]) /\ ListsOK(a) /\ IsTurn(turn[a])
  BY RunningMeans
<1>2. /\ told' = [told EXCEPT ![p] = r]
      /\ rows' = [b \in Masters |-> IF b = p THEN Cleaned(rows[b]) ELSE rows[b]]
      /\ turn' = [turn EXCEPT ![a] = n]
      /\ UNCHANGED <<games, leaders, roles, granted, pending, keyboard, heard, changed, refused, sent, queue, published>>
  BY DEF Claims
<1>3. Shapes'
  BY <1>1, <1>2 DEF Shapes, GamesOK
<1>4. \A b \in Masters : rows'[b] \in {rows[b], [rows[b] EXCEPT !.buttons = {}]}
  <2>1. \A b \in Masters : rows'[b] \in {rows[b], Cleaned(rows[b])}
    BY <1>2
  <2> QED
    BY <2>1 DEF Cleaned
<1>5. OwnStep(a)
  <2>1. \A x \in Profiles : told'[x] \in heard' \cup {NoRequest}
    BY <1>1, <1>2 DEF IInv, Past, Shapes
  <2>2. \A b \in Masters \ {a} : turn'[b] = turn[b]
    BY <1>1, <1>2 DEF Shapes
  <2> QED
    BY <1>1, <1>2, <1>4, <2>1, <2>2 DEF OwnStep
<1>6. RolesOnRecord
  BY <1>2 DEF RolesOnRecord
<1>7. Queues' /\ TokenConfirmsItsTarget'
  BY <1>1, <1>2, OrdersStay
<1>8. Received(a)' = Received(a)
  BY <1>2 DEF Received
<1>9. Beside(a)
  <2>1. sent \in Nat
    BY <1>1 DEF Shapes
  <2> QED
    BY <1>1, <1>2, <1>4, <2>1 DEF Beside
<1>10. Records(a)' /\ TurnOK(a, n)'
  BY <1>1, <1>3, <1>8, <1>9, BesideKeepsRecords, BesideKeepsTurn
<1>11. OwnRow(a, rows'[a]) /\ rows'[a].state = rows[a].state /\ rows'[a].token = rows[a].token
  <2>1. OwnRow(a, Cleaned(rows[a]))
    BY <1>1, OwnRowsNow DEF Cleaned
  <2>2. rows'[a] = rows[a] \/ rows'[a] = Cleaned(rows[a])
    BY <1>1, <1>2
  <2> QED
    BY <1>1, <2>1, <2>2, CleanedRow
<1> QED
  BY <1>1, <1>2, <1>3, <1>5, <1>6, <1>7, <1>10, <1>11, RecordStep

LEMMA ClaimKeeps ==
    ASSUME NEW a, Running(a), Claim(a), UNCHANGED gameVars
    PROVE  IInv'
<1>1. PICK t, e : t = turn[a] /\ e = Now(a)
  OBVIOUS
<1>2. /\ TurnOK(a, t) /\ t.todo # <<>> /\ Head(t.todo).do = "claim" /\ e = Head(t.todo)
      /\ Shapes /\ t.told \in heard \cup {NoRequest} /\ a \in DOMAIN turn /\ IsTurn(t) /\ t.busy = TRUE
  BY <1>1, RunningMeans DEF Claim, Doing, Now, TurnOK, Shapes
<1>3. PICK r, x, notice, todo :
        /\ r = Requested(a, e.arg, e.game, e.who) /\ x = e.who
        /\ notice = (IF a = x THEN r ELSE t.told) /\ todo = Tail(t.todo)
  OBVIOUS
<1>4. PICK n : n = [t EXCEPT !.todo = todo, !.told = notice]
  OBVIOUS
<1>5. /\ IsTurn(n) /\ n.busy = TRUE /\ n.row = t.row /\ n.told = notice /\ n.todo = todo
      /\ n.note = t.note /\ n.manages = t.manages
  <2>1. /\ DOMAIN n = TurnFields /\ n.busy = TRUE /\ n.row = t.row /\ n.told = notice /\ n.todo = todo
        /\ n.note = t.note /\ n.manages = t.manages
    BY <1>2, <1>4 DEF IsTurn, TurnFields
  <2> QED
    BY <1>2, <2>1 DEF IsTurn
<1>6. Claims(a, x, r, n)
  <2>1. turn' = [turn EXCEPT ![a].todo = Tail(@), ![a].told = IF a = x THEN r ELSE @]
    BY <1>1, <1>3 DEF Claim
  <2>2. turn' = [turn EXCEPT ![a] = n]
    BY <1>1, <1>2, <1>3, <1>4, <2>1
  <2> QED
    BY <1>1, <1>3, <2>2 DEF Claims, Cleaned, Claim, gameVars
<1>7. ASSUME r \in heard, x \in Profiles, PromoteTurn(a, n) \/ GrantTurn(a, n) \/ RevokeTurn(a, n) \/ AddTurn(a, n) \/ RemoveTurn(a, n)
      PROVE  IInv'
  <2>1. Revoked(a, n)
    BY <1>2, <1>5, KeptRevoked
  <2>2. TurnOK(a, n)
    BY <1>2, <1>3, <1>5, <1>7, <2>1 DEF TurnOK
  <2> QED
    BY <1>1, <1>5, <1>6, <1>7, <2>2, NoticeClaimed
<1>8. CASE PromoteTurn(a, t)
  <2>1. PICK p, g : p = rows[a].who /\ g = rows[a].game
    OBVIOUS
  <2>2. PromotionStep(a, t, p)
    BY <1>8, <2>1, PromoteHead
  <2>3. /\ PromoteAsked(a) /\ Head(t.todo) = PromotionClaim(p)
        /\ Tail(t.todo) = <<PromotionMark(p), Assigning(rows[a].game, p)>> /\ Grants(a, p) \in heard
    BY <1>2, <2>1, <2>2 DEF PromotionStep
  <2>4. p \in Profiles
    BY <2>1, <2>3, RunningMeans DEF PromoteAsked, SoundRow
  <2>5. x = p /\ r = Grants(a, p)
    <3>1. PromotionClaim(p).arg = "grant" /\ PromotionClaim(p).game = NoGame /\ PromotionClaim(p).who = p
      BY Zenon DEF PromotionClaim, Do
    <3> QED
      BY <1>2, <1>3, <2>3, <3>1 DEF Grants
  <2>6. PromoteTurn(a, n)
    <3>1. n.todo = <<PromotionMark(p), Assigning(rows[a].game, p)>>
      BY <1>3, <1>5, <2>3
    <3> QED
      BY <1>5, <1>8, <2>1, <2>3, <3>1, PromoteTurnIs
  <2> QED
    BY <1>7, <2>3, <2>4, <2>5, <2>6
<1>9. CASE ~PromoteTurn(a, t)
  <2>1. PICK kind, g, p : Notifying(a, t, kind, g, p) /\ Announcing(a, t, kind, g, p)
    BY <1>2, <1>9, Notifies
  <2>2. Head(t.todo) = Do("claim", g, p, kind) /\ Tail(t.todo) = Ending /\ Requested(a, kind, g, p) \in heard
    BY <1>2, <2>1, AnnouncingHead, DoFields
  <2>3. x = p /\ r = Requested(a, kind, g, p)
    BY <1>2, <1>3, <2>2, DoFields
  <2>4. p \in Profiles
    <3>1. GrantTurn(a, t) => Pressed(a).who \in Profiles
      BY DEF GrantTurn
    <3>2. RevokeTurn(a, t) => RevokeAsked(a)
      BY DEF RevokeTurn
    <3>3. RevokeAsked(a) => rows[a].who \in Profiles
      BY RunningMeans DEF RevokeAsked, SoundRow
    <3>4. RemoveTurn(a, t) => rows[a].who \in Profiles
      BY Zenon DEF RemoveTurn
    <3> QED
      BY <2>1, <3>1, <3>2, <3>3, <3>4 DEF Notifying
  <2>5. Settled(a)
    BY <2>1, <2>2, NotifyingSettles
  <2>6. Notifying(a, n, kind, g, p)
    <3>1. Announcing(a, n, kind, g, p)
      BY <1>3, <1>5, <2>2, <2>5 DEF Announcing
    <3> QED
      BY <1>5, <2>1, <3>1, NotifyingGoesOn
  <2> QED
    BY <1>7, <2>2, <2>3, <2>4, <2>6, NotifyingTurn
<1> QED
  BY <1>8, <1>9

(***************************************************************************)
(* Messages, answers and the worker                                        *)
(***************************************************************************)
\* What has been told stays told, if the messages in S are settled when they are answered.
LEMMA ToldStays ==
    ASSUME IInv, UNCHANGED <<granted, changed>>, heard \subseteq heard', refused \subseteq refused', NEW S,
           \A m : Answered(m)' => Answered(m) \/ m \in S,
           \A q \in Profiles : granted[q] # NoRequest /\ granted[q].message \in S =>
              Told(granted[q])' \/ Disputed(granted[q].message, q),
           \A g \in Games, q \in Profiles : changed[g][q] # NoRequest /\ changed[g][q].message \in S =>
              Told(changed[g][q])' \/ Disputed(changed[g][q].message, q)
    PROVE  AllTold'
<1>1. \A r : Told(r) => Told(r)'
  BY DEF Told
<1>2. \A m, q : Disputed(m, q)' <=> Disputed(m, q)
  BY DEF Disputed, NotBy, Linked
<1>3. ASSUME NEW q \in Profiles PROVE AnsweredToo(granted[q], q)'
  <2>1. PICK r : r = granted[q]
    OBVIOUS
  <2>2. r # NoRequest /\ Answered(r.message)' => Told(r)' \/ Disputed(r.message, q)
    <3>1. r # NoRequest /\ Answered(r.message) => Told(r) \/ Disputed(r.message, q)
      BY <2>1 DEF IInv, AllTold, AnsweredToo
    <3>2. r # NoRequest /\ r.message \in S => Told(r)' \/ Disputed(r.message, q)
      <4>1. Told(r)' = Told(granted[q])'
        BY <2>1 DEF Told
      <4> QED
        BY <2>1, <4>1
    <3> QED
      BY <1>1, <3>1, <3>2
  <2>3. r # NoRequest /\ Answered(r.message)' => Told(r)' \/ Disputed(r.message, q)'
    BY <1>2, <2>2
  <2>4. granted'[q] = r
    BY <2>1
  <2> QED
    BY <2>3, <2>4 DEF AnsweredToo, Told, Answered, Disputed, Linked
<1>4. ASSUME NEW g \in Games, NEW q \in Profiles PROVE AnsweredToo(changed[g][q], q)'
  <2>1. PICK r : r = changed[g][q]
    OBVIOUS
  <2>2. r # NoRequest /\ Answered(r.message)' => Told(r)' \/ Disputed(r.message, q)
    <3>1. r # NoRequest /\ Answered(r.message) => Told(r) \/ Disputed(r.message, q)
      BY <2>1 DEF IInv, AllTold, AnsweredToo
    <3>2. r # NoRequest /\ r.message \in S => Told(r)' \/ Disputed(r.message, q)
      <4>1. Told(r)' = Told(changed[g][q])'
        BY <2>1 DEF Told
      <4> QED
        BY <2>1, <4>1
    <3> QED
      BY <1>1, <3>1, <3>2
  <2>3. r # NoRequest /\ Answered(r.message)' => Told(r)' \/ Disputed(r.message, q)'
    BY <1>2, <2>2
  <2>4. changed'[g][q] = r
    BY <2>1
  <2> QED
    BY <2>3, <2>4 DEF AnsweredToo, Told, Answered, Disputed, Linked
<1> QED
  BY <1>3, <1>4 DEF AllTold

\* The games, their masters and the queues change; the dialogues do not.
LEMMA WorldKeeps ==
    ASSUME IInv, UNCHANGED <<roles, granted, told, rows, pending, turn, keyboard, heard, changed, refused, sent,
                             published>>,
           GamesOK', leaders' \in [Games -> SUBSET Profiles], Queues'
    PROVE  IInv'
<1>1. Shapes'
  BY DEF IInv, Shapes
<1>2. Past'
  BY DEF IInv, Past
<1>3. AllTold'
  <2>1. \A m : Answered(m)' => Answered(m)
    BY DEF Answered
  <2>2. PICK S : S = {}
    OBVIOUS
  <2> QED
    BY <2>1, <2>2, ToldStays
<1>4. ASSUME NEW b \in Masters PROVE ActorInv(b)'
  <2>1. Beside(b)
    BY DEF Beside, IInv, Shapes
  <2> QED
    BY <1>1, <2>1, BesideKeepsActor DEF IInv
<1>5. DistinctMessages'
  <2>1. \A b \in Masters : Received(b)' = Received(b)
    BY DEF Received
  <2> QED
    BY <2>1 DEF IInv, DistinctMessages
<1>6. TokenConfirmsItsTarget'
  BY DEF IInv, TokenConfirmsItsTarget
<1> QED
  BY <1>1, <1>2, <1>3, <1>4, <1>5, <1>6 DEF IInv

LEMMA StutterKeeps ==
    ASSUME IInv, UNCHANGED vars
    PROVE  IInv'
<1>1. UNCHANGED <<games, leaders, roles, granted, told, rows, pending, turn, keyboard, heard, changed, refused, sent,
                  queue, published>>
  BY DEF vars, roleVars, gameVars
<1>2. GamesOK' /\ leaders' \in [Games -> SUBSET Profiles] /\ Queues'
  BY <1>1 DEF IInv, Shapes, GamesOK, Queues
<1> QED
  BY <1>1, <1>2, WorldKeeps

LEMMA PlayerMovesKeeps ==
    ASSUME IInv, NEW g, NEW i, PlayerMoves(g, i)
    PROVE  IInv'
<1>1. UNCHANGED <<games, leaders, roles, granted, told, rows, pending, turn, keyboard, heard, changed, refused, sent,
                  queue, published>>
  BY DEF PlayerMoves, roleVars
<1>2. GamesOK' /\ leaders' \in [Games -> SUBSET Profiles] /\ Queues'
  BY <1>1 DEF IInv, Shapes, GamesOK, Queues
<1> QED
  BY <1>1, <1>2, WorldKeeps

LEMMA OrderedRow ==
    ASSUME GamesOK, NEW c, c.game \in Games
    PROVE  DOMAIN Ordered(c) = GameFields /\ Ordered(c).exists \in BOOLEAN /\ Ordered(c).archived \in BOOLEAN
<1>1. PICK row : row = games[c.game]
  OBVIOUS
<1>2. DOMAIN row = GameFields /\ row.exists \in BOOLEAN /\ row.archived \in BOOLEAN
  BY <1>1 DEF GamesOK
<1> QED
  BY <1>1, <1>2 DEF Ordered, GameFields

LEMMA ApplyKeeps ==
    ASSUME IInv, NEW g \in Games, Apply(g)
    PROVE  IInv'
<1>1. Shapes /\ GamesOK /\ Queues /\ DOMAIN queue = Games
  BY DEF IInv, Shapes, Queues
<1>2. PICK c, S : c = Head(queue[g]) /\ S = {x \in published : x.game = g}
  OBVIOUS
<1>3. c \in published /\ c.game = g /\ Tail(queue[g]) \in Seq(S)
  <2>1. queue[g] \in Seq(S) /\ queue[g] # <<>>
    BY <1>1, <1>2 DEF Queues, Apply
  <2>2. PICK s \in Seq(S) : s = queue[g] /\ s # <<>>
    BY <2>1
  <2>3. Head(s) \in S /\ Tail(s) \in Seq(S)
    BY <2>2
  <2> QED
    BY <1>2, <2>2, <2>3
<1>4. /\ UNCHANGED <<roles, granted, told, rows, pending, turn, keyboard, heard, changed, refused, sent, published>>
      /\ queue' = [queue EXCEPT ![g] = Tail(@)]
      /\ games' = games \/ games' = [games EXCEPT ![g] = Ordered(c)]
      /\ leaders' = leaders \/ leaders' = [leaders EXCEPT ![g] = {}]
  BY <1>2 DEF Apply
<1>5. GamesOK'
  <2>1. DOMAIN Ordered(c) = GameFields /\ Ordered(c).exists \in BOOLEAN /\ Ordered(c).archived \in BOOLEAN
    BY <1>1, <1>3, OrderedRow
  <2> QED
    BY <1>1, <1>4, <2>1 DEF GamesOK
<1>6. leaders' \in [Games -> SUBSET Profiles]
  BY <1>1, <1>4 DEF Shapes
<1>7. Queues'
  BY <1>1, <1>2, <1>3, <1>4 DEF Queues
<1> QED
  BY <1>4, <1>5, <1>6, <1>7, WorldKeeps

LEMMA EndedOK ==
    ASSUME NEW a, NEW t, TurnOK(a, t), t.todo = <<>>
    PROVE  EndedTurn(a, t)
<1>1. ~OrderTurn(a, t)
  BY OrderHead
<1>2. ~WriteTurn(a, t)
  BY WriteHead
<1>3. ~GrantTurn(a, t) /\ ~RevokeTurn(a, t)
  BY GrantHead, RevokeHead
<1>4. ~PromoteTurn(a, t)
  <2>1. PICK p : p = rows[a].who
    OBVIOUS
  <2> QED
    BY <2>1, PromoteHead DEF PromotionStep
<1>5. ~AddTurn(a, t)
  <2>1. ASSUME NEW g, NEW p, AddsAs(a, t, g, p) PROVE FALSE
    <3>1. PICK request, mark, add, check :
            /\ request = Requested(a, "leader-grant", g, p) /\ mark = Do("mark", g, p, "leader-grant")
            /\ add = Adding(g, p) /\ check = LeaderCheck(g, p)
      OBVIOUS
    <3> QED
      BY <2>1, <3>1, AddHead
  <2> QED
    BY <2>1 DEF AddTurn
<1>6. ~RemoveTurn(a, t)
  <2>1. PICK g, p : g = rows[a].game /\ p = rows[a].who
    OBVIOUS
  <2> QED
    BY <2>1, RemoveHead DEF RemovalStep
<1> QED
  BY <1>1, <1>2, <1>3, <1>4, <1>5, <1>6 DEF TurnOK

\* The row of an actor is saved, and he gets his answer.
LEMMA SaveKeeps ==
    ASSUME NEW a, Running(a), Save(a), UNCHANGED gameVars
    PROVE  IInv'
<1>1. PICK t, row, id : t = turn[a] /\ row = turn[a].row /\ id = Received(a).id
  OBVIOUS
<1>2. /\ IInv /\ a \in Masters /\ a \in Profiles /\ Shapes /\ ListsOK(a) /\ IsTurn(t) /\ IsRow(row) /\ TurnOK(a, t)
      /\ t.todo = <<>> /\ pending[a] = {Received(a)} /\ IsRow(rows[a]) /\ sent \in Nat /\ t.told \in heard \cup {NoRequest}
      /\ DOMAIN rows = Masters /\ DOMAIN pending = Masters /\ DOMAIN turn = Masters /\ DOMAIN told = Profiles
      /\ DOMAIN keyboard = Masters
  BY <1>1, RunningMeans DEF Save, Shapes, TurnOK
<1>3. /\ rows' = [rows EXCEPT ![a] = row] /\ told' = [told EXCEPT ![a] = t.told]
      /\ keyboard' = [keyboard EXCEPT ![a] = keyboard[a] \cup row.buttons]
      /\ refused' = (IF t.note = "refused" THEN refused \cup {id} ELSE refused)
      /\ pending' = [pending EXCEPT ![a] = {}] /\ turn' = [turn EXCEPT ![a] = FreeTurn]
      /\ UNCHANGED <<games, leaders, roles, granted, heard, changed, sent, queue, published>>
  BY <1>1, <1>2 DEF Save, gameVars
<1>4. /\ rows'[a] = row /\ keyboard'[a] = keyboard[a] \cup row.buttons /\ pending'[a] = {} /\ turn'[a] = FreeTurn
      /\ told'[a] = t.told
      /\ \A b \in Masters \ {a} :
           rows'[b] = rows[b] /\ keyboard'[b] = keyboard[b] /\ pending'[b] = pending[b] /\ turn'[b] = turn[b]
  BY <1>2, <1>3
<1>5. Shapes'
  BY <1>2, <1>3 DEF Shapes, GamesOK
<1>6. Past'
  <2>1. \A p \in Profiles : told'[p] \in heard' \cup {NoRequest}
    BY <1>2, <1>3 DEF IInv, Past
  <2> QED
    BY <1>2, <1>3, <2>1 DEF IInv, Past
<1>7. AllTold'
  <2>1. PICK S : S = {id}
    OBVIOUS
  <2>2. \A m : Answered(m)' => Answered(m) \/ m \in S
    BY <1>1, <1>2, <1>4, <2>1 DEF Answered
  <2>3. t.note = "refused" \/ Settled(a)
    BY <1>2, EndedOK DEF EndedTurn
  <2>4. \A r : t.note = "refused" /\ r.message = id => Told(r)'
    BY <1>3 DEF Told
  <2>5. \A r : r \in heard => Told(r)'
    BY <1>3 DEF Told
  <2>6. \A q \in Profiles : granted[q] # NoRequest /\ granted[q].message = id =>
          Told(granted[q])' \/ Disputed(id, q)
    <3>1. ASSUME NEW r, NEW q \in Profiles, r = granted[q], r # NoRequest, r.message = id
          PROVE  (r \in heard' \/ r.message \in refused') \/ Disputed(id, q)
      BY <1>1, <1>3, <2>3, <3>1 DEF Settled, By
    <3> QED
      BY <1>3, <3>1 DEF Told
  <2>7. \A g \in Games, q \in Profiles : changed[g][q] # NoRequest /\ changed[g][q].message = id =>
          Told(changed[g][q])' \/ Disputed(id, q)
    <3>1. ASSUME NEW r, NEW g \in Games, NEW q \in Profiles, r = changed[g][q], r # NoRequest, r.message = id
          PROVE  (r \in heard' \/ r.message \in refused') \/ Disputed(id, q)
      BY <1>1, <1>3, <2>3, <3>1 DEF Settled, By
    <3> QED
      BY <1>3, <3>1 DEF Told
  <2>8. heard \subseteq heard' /\ refused \subseteq refused' /\ UNCHANGED <<granted, changed>>
    BY <1>3
  <2>9. \A q \in Profiles : granted[q] # NoRequest /\ granted[q].message \in S =>
          Told(granted[q])' \/ Disputed(granted[q].message, q)
    BY <2>1, <2>6
  <2>10. \A g \in Games, q \in Profiles : changed[g][q] # NoRequest /\ changed[g][q].message \in S =>
          Told(changed[g][q])' \/ Disputed(changed[g][q].message, q)
    BY <2>1, <2>7
  <2>11. IInv
    BY <1>2
  <2> QED
    BY <2>2, <2>8, <2>9, <2>10, <2>11, ToldStays
<1>8. ActorInv(a)'
  <2>1. IsRow(rows'[a]) /\ IsTurn(turn'[a])
    BY <1>2, <1>4, FreeTurnFields, IdleIsOwn DEF IsTurn
  <2>2. MessageOK(a)' /\ Records(a)'
    BY <1>4 DEF MessageOK, Records
  <2>3. Buttons(a)' \subseteq Buttons(a)
    BY <1>1, <1>4, FreeTurnFields, IdleRowFields DEF Buttons
  <2>4. Coming' = Coming
    BY <1>3 DEF Coming
  <2>5. \A b \in Buttons(a)' : IsButton(b) /\ SoundButton(b) /\ (Confirming(b) => b.token \notin Coming')
    BY <1>2, <2>3, <2>4 DEF ListsOK
  <2>6. SameList(row, Buttons(a)') /\ (Holding(row) => row.token \notin Coming') /\ HadRole(row)'
        /\ \A r \in row.marks : r.message \notin Coming'
    <3>1. SameList(row, Buttons(a)) /\ (Holding(row) => row.token \notin Coming) /\ HadRole(row)
          /\ \A r \in row.marks : r.message \notin Coming
      BY <1>1, <1>2 DEF ListsOK
    <3>2. HadRole(row)'
      BY <1>3, <3>1 DEF HadRole
    <3> QED
      BY <2>3, <2>4, <3>1, <3>2 DEF SameList
  <2>7. SameList(IdleRow, Buttons(a)') /\ ~Holding(IdleRow) /\ HadRole(IdleRow)' /\ IdleRow.marks = {}
    BY IdleRowFields DEF SameList, Holding, HadRole
  <2>8. ListsOK(a)'
    <3>1. turn'[a].row = IdleRow
      BY <1>4, FreeTurnFields
    <3>2. ASSUME NEW x, x \in {rows'[a], turn'[a].row}
          PROVE  /\ SameList(x, Buttons(a)') /\ (Holding(x) => x.token \notin Coming') /\ HadRole(x)'
                 /\ \A r \in x.marks : r.message \notin Coming'
      BY <1>4, <2>6, <2>7, <3>1, <3>2
    <3> QED
      BY <2>5, <3>2 DEF ListsOK, HadRole
  <2>9. ~turn'[a].busy
    BY <1>4, FreeTurnFields
  <2> QED
    BY <1>4, <2>1, <2>2, <2>8, <2>9 DEF ActorInv
<1>9. ASSUME NEW b \in Masters, b # a PROVE ActorInv(b)'
  <2>1. Beside(b) /\ turn'[b] = turn[b]
    BY <1>2, <1>3, <1>4, <1>9 DEF Beside
  <2> QED
    BY <1>2, <1>5, <2>1, BesideKeepsActor DEF IInv
<1>10. DistinctMessages'
  BY <1>2, <1>4 DEF IInv, DistinctMessages, Received
<1>11. Queues' /\ TokenConfirmsItsTarget'
  BY <1>2, <1>3, OrdersStay
<1> QED
  BY <1>5, <1>6, <1>7, <1>8, <1>9, <1>10, <1>11 DEF IInv

LEMMA SendKeeps ==
    ASSUME IInv, NEW a \in Masters, NEW pressed \in BOOLEAN, NEW good \in BOOLEAN, NEW b, IsButton(b), SoundButton(b),
           ~good => b.who = NoOne, ~pressed => b.value = "text" /\ b.who \in Profiles \cup {NoOne},
           Confirming(b) => b \in keyboard[a], Send(a, pressed, good, b), UNCHANGED gameVars
    PROVE  IInv'
<1>1. PICK m : m = [id |-> sent + 1, pressed |-> pressed, good |-> good, button |-> b]
  OBVIOUS
<1>2. /\ sent < MaxMessages /\ pending[a] = {} /\ sent' = sent + 1 /\ pending' = [pending EXCEPT ![a] = {m}]
      /\ UNCHANGED <<games, leaders, roles, granted, told, rows, turn, keyboard, heard, changed, refused, queue,
                     published>>
  BY <1>1 DEF Send, gameVars
<1>3. /\ Shapes /\ sent \in Nat /\ sent' \in Nat /\ DOMAIN pending = Masters /\ Past /\ DistinctMessages
      /\ ActorInv(a) /\ MaxMessages \in Nat
  BY <1>2, RoleManagementAssumption DEF IInv, Shapes
<1>4. pending'[a] = {m} /\ \A x \in Masters \ {a} : pending'[x] = pending[x]
  BY <1>2, <1>3
<1>5. /\ m.id = sent + 1 /\ m.pressed = pressed /\ m.good = good /\ m.button = b /\ DOMAIN m = MessageFields
  BY <1>1 DEF MessageFields
<1>6. IsMessage(m) /\ m.id <= sent'
  BY <1>2, <1>3, <1>5 DEF IsMessage
<1>7. Received(a)' = m
  BY <1>4 DEF Received
<1>8. turn[a] = FreeTurn /\ ListsOK(a) /\ IsRow(rows[a]) /\ IsTurn(turn[a])
  BY <1>2, <1>3 DEF ActorInv
<1>9. Coming' \subseteq Coming /\ m.id \in Coming
  BY <1>2, <1>3, <1>5 DEF Coming
<1>10. Shapes'
  BY <1>2, <1>3 DEF Shapes, GamesOK
<1>11. Past'
  <2>1. \A r \in Request : r.message \in Nat
    BY <1>3 DEF Request
  <2>2. \A q \in Profiles : granted[q] # NoRequest => granted[q].message \in Nat /\ granted[q].message <= sent
    BY <1>3, <2>1 DEF Shapes, Past
  <2>3. \A g \in Games, q \in Profiles : changed[g][q] # NoRequest =>
          changed[g][q].message \in Nat /\ changed[g][q].message <= sent
    BY <1>3, <2>1 DEF Shapes, Past
  <2>4. \A x \in Nat : x <= sent => x <= sent'
    BY <1>2, <1>3
  <2>5. \A q \in Profiles : granted'[q] # NoRequest => granted'[q].message <= sent'
    BY <1>2, <2>2, <2>4
  <2>6. \A g \in Games, q \in Profiles : changed'[g][q] # NoRequest => changed'[g][q].message <= sent'
    BY <1>2, <2>3, <2>4
  <2>7. /\ \A r \in heard' : r.message \in Nat /\ r.message <= sent'
        /\ \A p \in Profiles : told'[p] \in heard' \cup {NoRequest}
    BY <1>2, <1>3, <2>4 DEF Past
  <2> QED
    BY <2>5, <2>6, <2>7 DEF Past
<1>12. AllTold'
  <2>1. \A x : Answered(x)' => Answered(x)
    BY <1>2, <1>3, <1>4 DEF Answered
  <2>2. PICK S : S = {}
    OBVIOUS
  <2>3. heard \subseteq heard' /\ refused \subseteq refused' /\ UNCHANGED <<granted, changed>>
    BY <1>2
  <2>4. \A x : Answered(x)' => Answered(x) \/ x \in S
    BY <2>1
  <2>5. \A q \in Profiles : granted[q] # NoRequest /\ granted[q].message \in S =>
          Told(granted[q])' \/ Disputed(granted[q].message, q)
    BY <2>2
  <2>6. \A g \in Games, q \in Profiles : changed[g][q] # NoRequest /\ changed[g][q].message \in S =>
          Told(changed[g][q])' \/ Disputed(changed[g][q].message, q)
    BY <2>2
  <2> QED
    BY <2>3, <2>4, <2>5, <2>6, ToldStays
<1>13. Queues' /\ TokenConfirmsItsTarget'
  BY <1>2, OrdersStay
<1>14. ASSUME NEW x \in Masters, x # a PROVE ActorInv(x)'
  <2>1. Beside(x) /\ turn'[x] = turn[x]
    BY <1>2, <1>3, <1>4, <1>14 DEF Beside
  <2> QED
    BY <1>3, <1>10, <2>1, BesideKeepsActor DEF IInv
<1>15. DistinctMessages'
  <2>1. ASSUME NEW x \in Masters \ {a}, pending[x] # {} PROVE Received(x)' = Received(x) /\ Received(x).id # sent + 1
    <3>1. Received(x).id <= sent /\ Received(x).id \in Nat
      BY <2>1 DEF IInv, ActorInv, MessageOK, IsMessage
    <3> QED
      BY <1>3, <1>4, <2>1, <3>1 DEF Received
  <2> QED
    BY <1>3, <1>4, <1>5, <1>7, <2>1 DEF DistinctMessages
<1>16. Buttons(a)' = Buttons(a)
  BY <1>2 DEF Buttons
<1>17. MessageOK(a)'
  <2>1. Holding(rows[a]) => rows[a].token # m.id
    BY <1>8, <1>9 DEF ListsOK
  <2>2. \A x \in Buttons(a) : Confirming(x) => x.token # m.id
    BY <1>8, <1>9 DEF ListsOK
  <2> QED
    BY <1>2, <1>4, <1>5, <1>6, <1>7, <1>16, <2>1, <2>2 DEF MessageOK, Holding, Confirming
<1>18. ListsOK(a)'
  <2>1. \A row \in {rows[a], turn[a].row} : HadRole(row)'
    BY <1>2, <1>8 DEF ListsOK, HadRole
  <2>2. \A x \in Buttons(a) : IsButton(x) /\ SoundButton(x) /\ (Confirming(x) => x.token \notin Coming')
    BY <1>8, <1>9 DEF ListsOK
  <2>3. \A row \in {rows[a], turn[a].row} :
          /\ SameList(row, Buttons(a)) /\ (Holding(row) => row.token \notin Coming')
          /\ \A r \in row.marks : r.message \notin Coming'
    BY <1>8, <1>9 DEF ListsOK
  <2>4. rows'[a] = rows[a] /\ turn'[a] = turn[a]
    BY <1>2
  <2>5. \A row \in {rows'[a], turn'[a].row} :
          /\ SameList(row, Buttons(a)') /\ (Holding(row) => row.token \notin Coming') /\ HadRole(row)'
          /\ \A r \in row.marks : r.message \notin Coming'
    BY <1>16, <2>1, <2>3, <2>4
  <2>6. \A x \in Buttons(a)' : IsButton(x) /\ SoundButton(x) /\ (Confirming(x) => x.token \notin Coming')
    BY <1>16, <2>2
  <2> QED
    BY <2>5, <2>6 DEF ListsOK, HadRole
<1>19. Records(a)'
  <2>1. \A q \in Profiles : ~By(Received(a)'.id, granted[q])
    BY <1>3, <1>5, <1>7 DEF Past, By
  <2>2. \A g \in Games, q \in Profiles : ~By(Received(a)'.id, changed[g][q])
    BY <1>3, <1>5, <1>7 DEF Past, By
  <2>3. \A r \in heard : r.message # Received(a)'.id
    BY <1>3, <1>5, <1>7 DEF Past
  <2>4. ASSUME PromoteAsked(a)', Grants(a, rows[a].who)' \in rows'[a].marks
        PROVE  FALSE
    <3>1. Grants(a, rows[a].who)'.message = m.id
      BY <1>7 DEF Grants, Requested
    <3>2. \A r \in rows[a].marks : r.message # m.id
      BY <1>8, <1>9 DEF ListsOK
    <3> QED
      BY <1>2, <2>4, <3>1, <3>2
  <2> QED
    BY <1>2, <2>1, <2>2, <2>3, <2>4 DEF Records, By
<1>20. ActorInv(a)'
  <2>1. ~turn'[a].busy /\ turn'[a] = FreeTurn /\ rows'[a] = rows[a] /\ IsTurn(turn'[a])
    BY <1>2, <1>8, FreeTurnFields
  <2> QED
    BY <1>8, <1>17, <1>18, <1>19, <2>1 DEF ActorInv
<1> QED
  BY <1>10, <1>11, <1>12, <1>13, <1>14, <1>15, <1>20 DEF IInv

\* A button of his keyboard is pressed.
LEMMA PressKeeps ==
    ASSUME IInv, NEW a \in Masters, Press(a), UNCHANGED gameVars
    PROVE  IInv'
<1>1. PICK b \in keyboard[a] : Send(a, TRUE, TRUE, b)
  BY DEF Press
<1>2. IsButton(b) /\ SoundButton(b)
  BY <1>1 DEF IInv, ActorInv, ListsOK, Buttons
<1> QED
  BY <1>1, <1>2, SendKeeps

LEMMA TextButton ==
    ASSUME NEW p, NEW b, b = [Plain("text") EXCEPT !.who = p]
    PROVE  IsButton(b) /\ SoundButton(b) /\ b.value = "text" /\ b.who = p /\ ~Confirming(b)
<1>1. DOMAIN b = ButtonFields /\ b.value = "text" /\ b.who = p /\ b.about = NoAbout
  BY DEF Plain, ButtonFields
<1>2. "text" \notin GameValues \cup PersonValues \cup {"confirm:remove", "confirm:promote"}
  BY ValuesOfGames DEF PersonValues
<1> QED
  BY <1>1, <1>2 DEF IsButton, SoundButton, Confirming, NoAbout

LEMMA WriteKeeps ==
    ASSUME IInv, NEW a \in Masters, Write(a), UNCHANGED gameVars
    PROVE  IInv'
<1>1. PICK good, p, b :
        /\ good \in BOOLEAN /\ p \in Profiles \cup {NoOne} /\ b = [Plain("text") EXCEPT !.who = p] /\ (~good => p = NoOne) /\ Send(a, FALSE, good, b)
  <2>1. PICK b : b = Plain("text")
    OBVIOUS
  <2>2. b = [Plain("text") EXCEPT !.who = NoOne]
    BY <2>1 DEF Plain
  <2>3. CASE \E good \in BOOLEAN : Send(a, FALSE, good, b)
    BY <2>2, <2>3
  <2>4. CASE \E p \in Profiles : Send(a, FALSE, TRUE, [Plain("text") EXCEPT !.who = p])
    BY <2>4
  <2> QED
    BY <2>1, <2>3, <2>4 DEF Write
<1>2. IsButton(b) /\ SoundButton(b) /\ b.value = "text" /\ b.who = p /\ ~Confirming(b)
  BY <1>1, TextButton
<1> QED
  BY <1>1, <1>2, SendKeeps

(***************************************************************************)
(* The invariant                                                           *)
(***************************************************************************)
LEMMA RowIsRow ==
    ASSUME NEW row \in Row, SoundRow(row), \A b \in row.buttons : SoundButton(b)
    PROVE  IsRow(row)
<1>1. DOMAIN row = RowFields /\ row.game \in Optional /\ row.role \in Role \ {"admin"} /\ row.buttons \subseteq Button
  BY DEF Row, RowFields
<1>2. \A b \in Button : IsButton(b)
  BY DEF Button, IsButton, ButtonFields, About
<1> QED
  BY <1>1, <1>2 DEF IsRow

\* What an instance begins with.
LEMMA StartActor ==
    ASSUME NEW start \in Starts, RoleInit(start), NEW a \in Masters
    PROVE  ActorInv(a)
<1>0. PICK row, all : row = rows[a] /\ all = keyboard[a] \cup rows[a].buttons
  OBVIOUS
<1>1. /\ rows = start.rows /\ keyboard = start.keyboard /\ sent = start.sent /\ roles = start.roles
      /\ pending[a] = {} /\ turn[a] = FreeTurn
  BY DEF RoleInit
<1>2. /\ row \in Row /\ keyboard[a] \subseteq Button
      /\ SoundRow(row) /\ SameList(row, all) /\ row.token \notin Coming
      /\ \A b \in all : SoundButton(b) /\ b.token \notin Coming
      /\ \A r \in row.marks : r.message \notin Coming
      /\ row.state = "MODERATOR_REMOVE_CONFIRM" => roles[row.who] # "none"
  BY <1>0, <1>1, StartsAssumption DEF Coming
<1>3. IsRow(row)
  BY <1>0, <1>2, RowIsRow
<1>4. \A b \in all : IsButton(b) /\ SoundButton(b)
  <2>1. row.buttons \subseteq Button
    BY <1>2 DEF Row
  <2>2. \A b \in Button : IsButton(b)
    BY DEF Button, IsButton, ButtonFields, About
  <2> QED
    BY <1>0, <1>2, <2>1, <2>2
<1>5. turn[a].row = IdleRow /\ ~turn[a].busy /\ Buttons(a) = all
  BY <1>0, <1>1, FreeTurnFields, IdleRowFields DEF Buttons
<1>6. IsTurn(turn[a])
  BY <1>1, <1>5, FreeTurnFields, IdleIsOwn DEF IsTurn
<1>7. ListsOK(a)
  <2>1. OwnRow(a, IdleRow)
    BY IdleIsOwn
  <2>2. /\ ~Holding(IdleRow) /\ HadRole(IdleRow) /\ \A r \in IdleRow.marks : r.message \notin Coming
    BY <2>1, IdleRowFields DEF OwnRow, Holding
  <2>3. HadRole(row)
    BY <1>2 DEF HadRole
  <2> QED
    BY <1>0, <1>2, <1>4, <1>5, <2>2, <2>3 DEF ListsOK, SameList
<1>8. MessageOK(a) /\ Records(a)
  BY <1>1 DEF MessageOK, Records
<1> QED
  BY <1>0, <1>1, <1>3, <1>5, <1>6, <1>7, <1>8 DEF ActorInv

LEMMA InitIInv == Init => IInv
<1> SUFFICES ASSUME Init PROVE IInv
  OBVIOUS
<1>1. PICK start \in Starts :
        /\ RoleInit(start) /\ rosters = start.rosters /\ queue = [g \in Games |-> <<>>] /\ published = {}
  BY DEF Init
<1>2. /\ games = start.games /\ leaders = start.leaders /\ roles = start.roles /\ rows = start.rows
      /\ keyboard = start.keyboard /\ sent = start.sent
      /\ granted = [p \in Profiles |-> NoRequest] /\ told = [p \in Profiles |-> NoRequest]
      /\ pending = [a \in Masters |-> {}] /\ turn = [a \in Masters |-> FreeTurn] /\ heard = {}
      /\ changed = [g \in Games |-> [p \in Profiles |-> NoRequest]]
  BY <1>1 DEF RoleInit
<1>3. /\ games \in [Games -> Game] /\ leaders \in [Games -> SUBSET Profiles] /\ roles \in [Profiles -> Role \ {"admin"}]
      /\ DOMAIN rows = Masters /\ DOMAIN keyboard = Masters /\ sent \in 0 .. MaxMessages
  BY <1>2, StartsAssumption
<1>4. GamesOK
  BY <1>3 DEF GamesOK, Game, GameFields
<1>5. Shapes
  BY <1>2, <1>3, <1>4, RoleManagementAssumption DEF Shapes
<1>6. \A a \in Masters : pending[a] = {}
  BY <1>2
<1>7. Past /\ AllTold
  BY <1>2 DEF Past, AllTold, AnsweredToo
<1>8. Queues /\ TokenConfirmsItsTarget /\ DistinctMessages
  BY <1>1, <1>6 DEF Queues, TokenConfirmsItsTarget, DistinctMessages
<1> QED
  BY <1>1, <1>5, <1>7, <1>8, StartActor DEF IInv

LEMMA EffectKeeps ==
    ASSUME IInv, NEW a \in Masters, RoleEffect(a), UNCHANGED gameVars
    PROVE  IInv'
<1>1. turn[a].busy
  BY DEF RoleEffect, Clear, SetRole, ClearRole, CheckRole, CheckPromotion, Mark, AddLeader, CheckLeader,
         RemoveLeader, Tell, Claim, AssignPromoted, Save, Doing
<1>2. Running(a)
  BY <1>1 DEF Running
<1>3. CASE Clear(a) \/ SetRole(a) \/ ClearRole(a) \/ CheckRole(a) \/ CheckPromotion(a) \/ Mark(a)
  BY <1>2, <1>3, ClearKeeps, SetRoleKeeps, ClearRoleKeeps, CheckRoleKeeps, CheckPromotionKeeps, MarkKeeps
<1>4. CASE AddLeader(a) \/ CheckLeader(a) \/ RemoveLeader(a) \/ Tell(a) \/ Claim(a) \/ AssignPromoted(a) \/ Save(a)
  BY <1>2, <1>4, AddLeaderKeeps, CheckLeaderKeeps, RemoveLeaderKeeps, TellKeeps, ClaimKeeps, AssignPromotedKeeps,
     SaveKeeps
<1> QED
  BY <1>3, <1>4 DEF RoleEffect

LEMMA ServeKeeps ==
    ASSUME IInv, NEW a \in Masters, Serve(a)
    PROVE  IInv'
<1>1. CASE RoleEffect(a) /\ UNCHANGED gameVars
  BY <1>1, EffectKeeps
<1>2. CASE Publish(a)
  <2>1. Running(a)
    BY <1>2 DEF Publish, Doing, Running
  <2> QED
    BY <1>2, <2>1, PublishKeeps
<1>3. CASE WriteRow(a)
  <2>1. Running(a)
    BY <1>3 DEF WriteRow, Doing, Running
  <2> QED
    BY <1>3, <2>1, WriteRowKeeps
<1>4. CASE ReadBack(a)
  <2>1. Running(a)
    BY <1>4 DEF ReadBack, Doing, Running
  <2> QED
    BY <1>4, <2>1, ReadBackKeeps
<1>5. CASE /\ TakeOutdated(a) \/ TakeMenu(a) \/ TakeClearing(a) \/ TakeAnswer(a) \/ TakeIdle(a)
           /\ UNCHANGED gameVars
  BY <1>5, TakenDecided
<1> QED
  BY <1>1, <1>2, <1>3, <1>4, <1>5 DEF Serve

LEMMA NextIInv == IInv /\ [Next]_vars => IInv'
<1> SUFFICES ASSUME IInv, [Next]_vars PROVE IInv'
  OBVIOUS
<1>1. CASE UNCHANGED vars
  BY <1>1, StutterKeeps
<1>2. ASSUME NEW a \in Masters, Press(a) \/ Write(a), UNCHANGED gameVars PROVE IInv'
  BY <1>2, PressKeeps, WriteKeeps
<1>3. ASSUME NEW a \in Masters, Die(a), UNCHANGED gameVars PROVE IInv'
  <2>1. Running(a)
    BY <1>3 DEF Die, Running
  <2> QED
    BY <1>3, <2>1, DieKeeps
<1>4. ASSUME NEW a \in Masters, Serve(a) PROVE IInv'
  BY <1>4, ServeKeeps
<1>5. ASSUME NEW g \in Games, Apply(g) PROVE IInv'
  BY <1>5, ApplyKeeps
<1>6. ASSUME NEW g \in Games, NEW i \in DOMAIN rosters[g], PlayerMoves(g, i) PROVE IInv'
  BY <1>6, PlayerMovesKeeps
<1> QED
  BY <1>1, <1>2, <1>3, <1>4, <1>5, <1>6 DEF Next

\* The inductive invariant holds in every reachable state: what an actor's
\* message has put on record is what its dialogue asked for, the steps its
\* turn still has are those that tell it, and what an answered message has
\* changed has been told or is disputed.
THEOREM Invariant == Spec => []IInv
<1>1. Init => IInv
  BY InitIInv
<1>2. IInv /\ [Next]_vars => IInv'
  BY NextIInv
<1> QED
  BY <1>1, <1>2, PTL DEF Spec

(***************************************************************************)
(* What players, masters and administrators may rely on                    *)
(***************************************************************************)
\* A removal or a promotion that waits in a game's queue, or was ever there,
\* concerns the player and the game of the message whose button was pressed,
\* although the keyboards of earlier lists stay in the chat
\* (conversation_admin_rosters.py: the token of a list).
THEOREM TokensHold == Spec => []TokenConfirmsItsTarget
<1>1. IInv => TokenConfirmsItsTarget
  BY DEF IInv
<1> QED
  BY <1>1, Invariant, PTL

LEMMA RevokedIn == IInv => RevokedEverywhere
<1> SUFFICES ASSUME IInv,
                    NEW a \in Masters, turn[a].busy, turn[a].note = "revoked", turn[a].todo = <<>>,
                    NEW p \in Profiles,
                    [kind |-> "revoke", game |-> NoGame, who |-> p, message |-> Received(a).id] \in heard,
                    NEW q \in Linked(p)
             PROVE  roles[q] = "none" \/ (granted[q] # NoRequest /\ granted[q].kind = "grant")
  BY DEF RevokedEverywhere
<1>1. PICK r, t : r = [kind |-> "revoke", game |-> NoGame, who |-> p, message |-> Received(a).id] /\ t = turn[a]
  OBVIOUS
<1>2. r.message = Received(a).id /\ r.kind = "revoke" /\ r.who = p /\ r \in heard
  BY <1>1
<1>3. ActorInv(a)
  BY DEF IInv
<1>4. pending[a] # {} /\ Records(a) /\ TurnOK(a, t)
  BY <1>1, <1>3 DEF ActorInv
<1>5. p = rows[a].who
  BY <1>2, <1>4 DEF Records
<1>6. \/ roles[q] = "none" \/ (granted[q] # NoRequest /\ granted[q].kind = "grant")
      \/ \E i \in DOMAIN t.todo : t.todo[i] = Cleared(q)
  BY <1>1, <1>4, <1>5, Zenon DEF TurnOK, Revoked, Cleared
<1>7. DOMAIN t.todo = {}
  BY <1>1
<1> QED
  BY <1>6, <1>7

\* When a revocation is announced, nobody linked with the one it names has
\* kept a role from before (conversation_admin_dialog.py: mod:remove-confirm
\* clears the role of every linked profile, whichever of them was chosen and
\* however often the turn was tried).
THEOREM RevocationIsComplete == Spec => []RevokedEverywhere
<1>1. IInv => RevokedEverywhere
  BY RevokedIn
<1> QED
  BY <1>1, Invariant, PTL

LEMMA ToldIn == IInv => RoleChangeIsTold
<1> SUFFICES ASSUME IInv, NEW p \in Profiles, NEW request \in Changes(p), Answered(request.message), ~Contended(p)
             PROVE  Told(request)
  BY DEF RoleChangeIsTold
<1>1. AllTold
  BY DEF IInv
<1>2. request # NoRequest
  BY DEF Changes
<1>3. PICK q \in Linked(p) : request = granted[q] \/ \E g \in Games : request = changed[g][q]
  BY DEF Changes
<1>4. q \in Profiles /\ Linked(q) = Linked(p)
  BY <1>3, OnePerson
<1>5. AnsweredToo(request, q)
  BY <1>1, <1>3, <1>4 DEF AllTold
<1>6. ~Disputed(request.message, q)
  <2> SUFFICES ASSUME Disputed(request.message, q) PROVE FALSE
    OBVIOUS
  <2>1. PICK other : other \in Changes(p) /\ other.message # request.message
    <3>1. PICK r \in Linked(p) : \/ NotBy(request.message, granted[r])
                                 \/ \E g \in Games : NotBy(request.message, changed[g][r])
      BY <1>4 DEF Disputed
    <3>2. CASE NotBy(request.message, granted[r])
      BY <3>1, <3>2 DEF NotBy, Changes
    <3>3. CASE \E g \in Games : NotBy(request.message, changed[g][r])
      BY <3>1, <3>3 DEF NotBy, Changes
    <3> QED
      BY <3>1, <3>2, <3>3
  <2> QED
    BY <2>1 DEF Contended
<1> QED
  BY <1>2, <1>5, <1>6 DEF AnsweredToo

\* Whose role or games were changed by one message alone has been told when
\* that message is answered, however often its turn died between the write
\* and the notice (conversation_admin_roles.py, conversation_admin_dialog.py:
\* the request_id on record and the pending marks).
THEOREM ChangesAreTold == Spec => []RoleChangeIsTold
<1>1. IInv => RoleChangeIsTold
  BY ToldIn
<1> QED
  BY <1>1, Invariant, PTL

(***************************************************************************)
(* Who changes a game                                                      *)
(***************************************************************************)
\* What a step that changes a game is: an order of somebody who may change
\* it, or a step of a turn whose actor could.
Entitled(g) ==
    \/ queue'[g] # queue[g] /\ Manages(Head(queue[g]).actor, g)
    \/ \E a \in Masters :
        /\ turn[a].busy /\ turn'[a] # turn[a] /\ turn[a].todo # <<>>
        /\ Now(a).game = g /\ g \in turn[a].manages

SameGame(g) == games'[g] = games[g] /\ leaders'[g] = leaders[g]

LEMMA FirstOrder ==
    ASSUME IInv, NEW g \in Games, queue[g] # <<>>
    PROVE  Head(queue[g]) \in published /\ Head(queue[g]).game = g /\ Tail(queue[g]) # queue[g]
<1>1. PICK S : S = {x \in published : x.game = g}
  OBVIOUS
<1>2. PICK s \in Seq(S) : s = queue[g] /\ s # <<>>
  BY <1>1 DEF IInv, Queues
<1>3. Head(s) \in S
  BY <1>2
<1>4. Tail(s) # s
  <2>1. Len(Tail(s)) = Len(s) - 1 /\ Len(s) \in Nat
    BY <1>2
  <2>2. Len(Tail(s)) # Len(s)
    BY <2>1
  <2> QED
    BY <2>2
<1> QED
  BY <1>1, <1>2, <1>3, <1>4

\* What the worker does to the game of an order, and to the others.
LEMMA OneGameOrdered ==
    ASSUME IInv, NEW g \in Games, Apply(g), NEW c, c = Head(queue[g])
    PROVE  /\ c.game = g /\ queue'[g] # queue[g]
           /\ \A h \in Games : h # g => SameGame(h)
           /\ ~Permitted(c) => SameGame(g)
           /\ Permitted(c) => games'[g] = Ordered(c)
<1>1. DOMAIN queue = Games /\ DOMAIN games = Games /\ DOMAIN leaders = Games
  BY DEF IInv, Queues, Shapes, GamesOK
<1>2. c.game = g /\ Tail(queue[g]) # queue[g]
  BY FirstOrder DEF Apply
<1>3. queue'[g] # queue[g]
  BY <1>1, <1>2 DEF Apply
<1>4. CASE Permitted(c)
  <2>1. /\ games' = [games EXCEPT ![g] = Ordered(c)]
        /\ leaders' = leaders \/ leaders' = [leaders EXCEPT ![g] = {}]
    BY <1>4 DEF Apply
  <2> QED
    BY <1>1, <1>2, <1>3, <1>4, <2>1 DEF SameGame
<1>5. CASE ~Permitted(c)
  <2>1. UNCHANGED <<games, leaders>>
    BY <1>5 DEF Apply
  <2> QED
    BY <1>2, <1>3, <1>5, <2>1 DEF SameGame
<1> QED
  BY <1>4, <1>5

\* The other steps of a turn leave the games and their masters alone.
LEMMA OtherSteps ==
    ASSUME IInv, NEW a \in Masters, Serve(a), ~WriteRow(a), ~AddLeader(a), ~RemoveLeader(a)
    PROVE  UNCHANGED <<games, leaders>>
<1>1. CASE /\ TakeOutdated(a) \/ TakeMenu(a) \/ TakeClearing(a) \/ TakeAnswer(a) \/ TakeIdle(a)
           /\ UNCHANGED gameVars
  <2>1. Ready(a)
    BY <1>1 DEF Ready, TakeOutdated, TakeMenu, TakeClearing, TakeAnswer, TakeIdle
  <2>2. Decided(a)
    BY <1>1, <2>1, OutdatedDecided, MenuDecided, ClearingDecided, AnswerDecided, IdleDecided
  <2>3. PICK row, todo, note : Plan(a, row, todo, note)
    BY <2>2 DEF Decided
  <2> QED
    BY <2>3 DEF Plan
<1>2. CASE RoleEffect(a)
  <2>1. CASE Clear(a) \/ SetRole(a) \/ ClearRole(a) \/ CheckRole(a) \/ CheckPromotion(a) \/ Mark(a)
    BY <2>1 DEF Clear, SetRole, ClearRole, CheckRole, CheckPromotion, Mark
  <2>2. CASE CheckLeader(a) \/ Tell(a) \/ Claim(a) \/ AssignPromoted(a) \/ Save(a)
    BY <2>2 DEF CheckLeader, Tell, Claim, AssignPromoted, Save
  <2> QED
    BY <1>2, <2>1, <2>2 DEF RoleEffect
<1>3. CASE Publish(a) \/ ReadBack(a)
  BY <1>3 DEF Publish, ReadBack
<1> QED
  BY <1>1, <1>2, <1>3 DEF Serve

\* A step that changes games or masters is one of four.
LEMMA WhoChanges ==
    ASSUME IInv, Next, ~UNCHANGED <<games, leaders>>
    PROVE  \/ \E g \in Games : Apply(g)
           \/ \E a \in Masters : Running(a) /\ (WriteRow(a) \/ AddLeader(a) \/ RemoveLeader(a))
<1>1. ASSUME NEW a \in Masters, Press(a) \/ Write(a) \/ Die(a) PROVE FALSE
  <2>1. Press(a) \/ Write(a) => UNCHANGED <<games, leaders>>
    BY DEF Press, Write, Send
  <2>2. Die(a) => UNCHANGED <<games, leaders>>
    BY DEF Die
  <2> QED
    BY <1>1, <2>1, <2>2
<1>2. ASSUME NEW g \in Games, NEW i \in DOMAIN rosters[g], PlayerMoves(g, i) PROVE FALSE
  BY <1>2 DEF PlayerMoves, roleVars
<1>3. ASSUME NEW a \in Masters, Serve(a)
      PROVE  Running(a) /\ (WriteRow(a) \/ AddLeader(a) \/ RemoveLeader(a))
  <2>1. WriteRow(a) \/ AddLeader(a) \/ RemoveLeader(a)
    BY <1>3, OtherSteps
  <2> QED
    BY <2>1 DEF WriteRow, AddLeader, RemoveLeader, Doing, Running
<1> QED
  BY <1>1, <1>2, <1>3 DEF Next

\* A step that goes on with a turn is the turn's.
LEMMA TurnMoves ==
    ASSUME NEW a, Running(a), Proceed(a), NEW t, t = turn[a], Tail(t.todo) # t.todo
    PROVE  turn'[a] # turn[a]
<1>1. PICK n : Goes(a, n, turn[a].row, Tail(turn[a].todo))
  BY Proceeding
<1>2. n.todo = Tail(t.todo) /\ turn' = [turn EXCEPT ![a] = n]
  BY <1>1 DEF Goes
<1>3. turn'[a] = n
  BY <1>2, RunningMeans DEF Shapes
<1> QED
  BY <1>2, <1>3

\* Columns that a dialogue writes itself.
LEMMA WriterIsEntitled ==
    ASSUME NEW a, Running(a), WriteRow(a), NEW g \in Games, ~SameGame(g)
    PROVE  Entitled(g)
<1>1. PICK t, e : t = turn[a] /\ e = Head(t.todo)
  OBVIOUS
<1>2. /\ TurnOK(a, t) /\ t.todo # <<>> /\ e.do = "write" /\ Now(a) = e
  BY <1>1, RunningMeans DEF WriteRow, Doing, Now
<1>3. WriteTurn(a, t)
  BY <1>1, <1>2, Heads, SMTT(30) DEF TurnOK
<1>4. Tail(t.todo) = <<>> /\ e.game \in t.manages \cap Games
  BY <1>1, <1>3, WriteHead
<1>5. turn'[a] # turn[a]
  <2>1. CASE Proceed(a)
    BY <1>1, <1>2, <1>4, <2>1, TurnMoves
  <2>2. CASE turn' = [turn EXCEPT ![a].todo = <<Do("read-back", e.game, NoOne, e.arg)>>]
    <3>1. PICK x : x = Do("read-back", e.game, NoOne, e.arg)
      OBVIOUS
    <3>2. x # e
      BY <1>2, <3>1 DEF Do
    <3>3. PICK n : Goes(a, n, turn[a].row, <<x>>)
      BY <2>2, <3>1, GoingOn
    <3>4. n.todo = <<x>> /\ turn'[a] = n
      BY <3>3, RunningMeans DEF Goes, Shapes
    <3>5. n.todo # t.todo
      BY <1>1, <3>2, <3>4, OneTodo
    <3> QED
      BY <1>1, <3>4, <3>5
  <2> QED
    BY <1>2, <2>1, <2>2, WriteRowEffect
<1>6. e.game = g
  <2>1. UNCHANGED leaders /\ WritesTo(e.game, Received(a).id)
    BY <1>2, WriteRowEffect
  <2>2. DOMAIN games = Games
    BY RunningMeans DEF Shapes, GamesOK
  <2> QED
    BY <2>1, <2>2 DEF SameGame, WritesTo
<1>7. a \in Masters /\ turn[a].busy
  BY DEF Running
<1> QED
  BY <1>1, <1>2, <1>4, <1>5, <1>6, <1>7 DEF Entitled

\* Masters that a dialogue adds.
LEMMA AdderIsEntitled ==
    ASSUME NEW a, Running(a), AddLeader(a), NEW h \in Games, ~SameGame(h)
    PROVE  Entitled(h)
<1>1. PICK t, e : t = turn[a] /\ e = Now(a)
  OBVIOUS
<1>2. /\ TurnOK(a, t) /\ t.todo # <<>> /\ Head(t.todo).do = "add-leader" /\ e = Head(t.todo) /\ Proceed(a)
  BY <1>1, RunningMeans DEF AddLeader, Doing, Now
<1>3. PICK g \in Games, p \in Profiles : AddsAs(a, t, g, p)
  BY <1>2, Heads DEF TurnOK, AddTurn
<1>4. PICK request, mark, add, check :
          /\ request = Requested(a, "leader-grant", g, p) /\ mark = Do("mark", g, p, "leader-grant")
          /\ add = Adding(g, p) /\ check = LeaderCheck(g, p)
  OBVIOUS
<1>5. Head(t.todo) = add /\ Tail(t.todo) = <<check>> \o Telling("leader-grant", g, p) /\ g \in t.manages
  BY <1>2, <1>3, <1>4, AddHead
<1>6. e.game = g /\ add.do # check.do
  <2>1. add.game = g /\ add.do = "add-leader" /\ check.do = "check-leader"
    BY <1>4, Zenon DEF Adding, LeaderCheck, Do
  <2> QED
    BY <1>2, <1>5, <2>1
<1>7. Tail(t.todo) # t.todo
  <2>1. Head(<<check>> \o Telling("leader-grant", g, p)) = check
    <3>1. PICK s : s = <<check>>
      OBVIOUS
    <3>2. s \in Seq({check}) /\ s # <<>> /\ Head(s) = check
      BY <3>1
    <3>3. Head(s \o Telling("leader-grant", g, p)) = Head(s)
      BY <3>2, StepsAndTold
    <3> QED
      BY <3>1, <3>2, <3>3
  <2> QED
    BY <1>5, <1>6, <2>1
<1>8. turn'[a] # turn[a]
  BY <1>1, <1>2, <1>7, TurnMoves
<1>9. h = g
  <2>1. UNCHANGED games /\ (UNCHANGED leaders \/ leaders' = [leaders EXCEPT ![g] = leaders[g] \cup {e.who}])
    BY <1>1, <1>6 DEF AddLeader, SetLeaders
  <2>2. DOMAIN leaders = Games
    BY RunningMeans DEF Shapes
  <2> QED
    BY <2>1, <2>2 DEF SameGame
<1>10. a \in Masters /\ turn[a].busy
  BY DEF Running
<1> QED
  BY <1>1, <1>2, <1>5, <1>6, <1>8, <1>9, <1>10 DEF Entitled

\* Masters that a dialogue removes.
LEMMA RemoverIsEntitled ==
    ASSUME NEW a, Running(a), RemoveLeader(a), NEW h \in Games, ~SameGame(h)
    PROVE  Entitled(h)
<1>1. PICK t, e : t = turn[a] /\ e = Now(a)
  OBVIOUS
<1>2. TurnOK(a, t) /\ t.todo # <<>> /\ Head(t.todo).do = "remove-leader" /\ e = Head(t.todo)
  BY <1>1, RunningMeans DEF RemoveLeader, Doing, Now
<1>3. RemoveTurn(a, t)
  BY <1>2, Heads DEF TurnOK
<1>4. PICK g, p : g = rows[a].game /\ p = rows[a].who
  OBVIOUS
<1>5. RemovalStep(a, t, g, p)
  BY <1>3, <1>4, RemoveHead
<1>6. /\ Head(t.todo) = Removing(g, p) /\ Tail(t.todo) = Telling("leader-revoke", g, p)
      /\ g \in t.manages
  BY <1>2, <1>5 DEF RemovalStep
<1>7. e.game = g
  <2>1. Removing(g, p).game = g
    BY Zenon DEF Removing, Do
  <2> QED
    BY <1>2, <1>6, <2>1
<1>8. /\ UNCHANGED games
      /\ UNCHANGED leaders \/ (leaders' = [leaders EXCEPT ![g] = leaders[g] \ {e.who}] /\ Proceed(a))
  BY <1>1, <1>7 DEF RemoveLeader, SetLeaders
<1>9. h = g /\ Proceed(a)
  <2>1. DOMAIN leaders = Games
    BY RunningMeans DEF Shapes
  <2>2. UNCHANGED games /\ ~UNCHANGED leaders
    BY <1>8 DEF SameGame
  <2>3. Proceed(a) /\ leaders' = [leaders EXCEPT ![g] = leaders[g] \ {e.who}]
    BY <1>8, <2>2, Zenon
  <2>4. h = g
    BY <2>1, <2>2, <2>3 DEF SameGame
  <2> QED
    BY <2>3, <2>4
<1>10. Tail(t.todo) # t.todo
  <2>1. PICK tell : tell = Do("tell", g, p, "leader-revoke")
    OBVIOUS
  <2>2. Head(Telling("leader-revoke", g, p)) = tell
    BY <2>1, NoticeSteps
  <2>3. tell.do = "tell"
    BY <2>1, Zenon DEF Do
  <2> QED
    BY <1>2, <1>6, <2>2, <2>3
<1>11. turn'[a] # turn[a]
  BY <1>1, <1>9, <1>10, TurnMoves
<1>12. a \in Masters /\ turn[a].busy
  BY DEF Running
<1> QED
  BY <1>1, <1>2, <1>6, <1>7, <1>9, <1>11, <1>12 DEF Entitled

\* Whoever gave an order that is applied may change its game.
LEMMA OrdererIsEntitled ==
    ASSUME IInv, NEW g \in Games, Apply(g), NEW h \in Games, ~SameGame(h)
    PROVE  Entitled(h)
<1>1. PICK c : c = Head(queue[g])
  OBVIOUS
<1>2. c.game = g /\ queue'[g] # queue[g] /\ h = g /\ Permitted(c)
  BY <1>1, OneGameOrdered
<1>3. Manages(c.actor, g)
  BY <1>2 DEF Permitted, Manages
<1> QED
  BY <1>1, <1>2, <1>3 DEF Entitled

LEMMA ChangesAreEntitled ==
    ASSUME IInv, Next, NEW g \in Games, ~SameGame(g)
    PROVE  Entitled(g)
<1>1. ~UNCHANGED <<games, leaders>>
  BY DEF SameGame
<1>2. CASE \E h \in Games : Apply(h)
  BY <1>2, OrdererIsEntitled
<1>3. CASE \E a \in Masters : Running(a) /\ (WriteRow(a) \/ AddLeader(a) \/ RemoveLeader(a))
  <2>1. PICK a \in Masters : Running(a) /\ (WriteRow(a) \/ AddLeader(a) \/ RemoveLeader(a))
    BY <1>3
  <2> QED
    BY <2>1, WriterIsEntitled, AdderIsEntitled, RemoverIsEntitled
<1> QED
  BY <1>1, <1>2, <1>3, WhoChanges

\* Nobody changes a game or its masters who may not: an order is refused
\* unless its author manages the game when the worker applies it, and a
\* dialogue writes only to a game that its actor managed when the turn decided
\* (conversation_admin_dialog.py: event_bound_states; ordered_mutations.py:
\* _require_event_leader).
THEOREM ChangesAreMasters == Spec => OnlyMastersChangeGames
<1>1. IInv /\ [Next]_vars =>
        [\A g \in Games :
            games'[g] # games[g] \/ leaders'[g] # leaders[g] =>
                \/ /\ queue'[g] # queue[g]
                   /\ Manages(Head(queue[g]).actor, g)
                \/ \E a \in Masters :
                    /\ turn[a].busy /\ turn'[a] # turn[a] /\ turn[a].todo # <<>>
                    /\ Now(a).game = g /\ g \in turn[a].manages]_vars
  <2> SUFFICES ASSUME IInv, Next, NEW g \in Games, games'[g] # games[g] \/ leaders'[g] # leaders[g]
               PROVE  \/ /\ queue'[g] # queue[g]
                         /\ Manages(Head(queue[g]).actor, g)
                      \/ \E a \in Masters :
                          /\ turn[a].busy /\ turn'[a] # turn[a] /\ turn[a].todo # <<>>
                          /\ Now(a).game = g /\ g \in turn[a].manages
    OBVIOUS
  <2>1. ~SameGame(g)
    BY DEF SameGame
  <2>2. Entitled(g)
    BY <2>1, ChangesAreEntitled
  <2> QED
    BY <2>2, Zenon DEF Entitled
<1> QED
  BY <1>1, Invariant, PTL DEF Spec, OnlyMastersChangeGames

LEMMA OrdersThatKeep ==
    ASSUME GamesOK, NEW c, c.game \in Games, c.op # "delete"
    PROVE  Ordered(c).exists = games[c.game].exists
<1>1. PICK row : row = games[c.game]
  OBVIOUS
<1>2. DOMAIN row = GameFields
  BY <1>1 DEF GamesOK
<1> QED
  BY <1>1, <1>2 DEF Ordered, GameFields

LEMMA DeletedFromArchive ==
    ASSUME IInv, Next, NEW g \in Games, games[g].exists, ~games'[g].exists
    PROVE  games[g].archived
<1>1. ~SameGame(g) /\ ~UNCHANGED <<games, leaders>> /\ games'[g] # games[g]
  BY DEF SameGame
<1>2. GamesOK
  BY DEF IInv, Shapes
<1>3. CASE \E h \in Games : Apply(h)
  <2>1. PICK h \in Games : Apply(h)
    BY <1>3
  <2>2. PICK c : c = Head(queue[h])
    OBVIOUS
  <2>3. c.game = h /\ h = g /\ Permitted(c) /\ games'[g] = Ordered(c)
    BY <1>1, <2>1, <2>2, OneGameOrdered
  <2>4. c.op = "delete"
    BY <1>2, <2>3, OrdersThatKeep
  <2> QED
    BY <2>3, <2>4 DEF Permitted
<1>4. CASE \E a \in Masters : Running(a) /\ (WriteRow(a) \/ AddLeader(a) \/ RemoveLeader(a))
  <2>1. PICK a \in Masters : WriteRow(a)
    <3>1. ASSUME NEW a \in Masters, AddLeader(a) \/ RemoveLeader(a) PROVE UNCHANGED games
      BY <3>1 DEF AddLeader, RemoveLeader
    <3> QED
      BY <1>1, <1>4, <3>1
  <2>2. games'[g].exists = games[g].exists
    <3>1. PICK h : WritesTo(h, Received(a).id)
      BY <1>4, <2>1, WriteRowEffect DEF WriteRow, Doing, Running
    <3> QED
      BY <1>2, <3>1, WrittenRow DEF WritesTo, GamesOK
  <2> QED
    BY <2>2
<1> QED
  BY <1>1, <1>3, <1>4, WhoChanges

\* A game is deleted out of the archive only: an order to delete it that was
\* given before somebody took it out is refused when the worker applies it
\* (ordered_mutations.py: DELETE).
THEOREM DeletedOnlyArchived == Spec => UnarchivedIsKept
<1>1. IInv /\ [Next]_vars => [\A g \in Games : games[g].exists /\ ~games'[g].exists => games[g].archived]_vars
  <2> SUFFICES ASSUME IInv, Next, NEW g \in Games, games[g].exists, ~games'[g].exists PROVE games[g].archived
    OBVIOUS
  <2> QED
    BY DeletedFromArchive
<1> QED
  BY <1>1, Invariant, PTL DEF Spec, UnarchivedIsKept
====
