------------------------ MODULE OrderedMutations_proofs ------------------------
(***************************************************************************)
(* Proofs about OrderedMutations, for any games, players, conflicts of     *)
(* times, number of commands and number of failed attempts, with the       *)
(* invariants of OrderedMutationsInvariants.                               *)
(***************************************************************************)
EXTENDS OrderedMutationsInvariants, SequenceTheorems, FiniteSetTheorems, TLAPS

-----------------------------------------------------------------------------
\* What the repository's statements do to the rows of one game

\* No statement but the confirmation's makes a row confirmed.
Tame(r, after, op) ==
    /\ after \in Rows
    /\ \A q \in Players :
        /\ after[q].op \in {r[q].op, op, NoOperation}
        /\ after[q].status = "confirmed" => r[q].status = "confirmed"

LEMMA RowFields ==
    ASSUME NEW r \in Rows, NEW p \in Players
    PROVE  r[p] \in Row /\ r[p].status \in Statuses /\ r[p].at \in Nat /\ r[p].op \in OperationIds
BY DEF Rows, Row

LEMMA UpdateIsTame ==
    ASSUME NEW r \in Rows, NEW p \in Players, NEW op \in OperationIds, NEW status \in Statuses,
           status = "confirmed" => r[p].status = "confirmed"
    PROVE  Tame(r, Update(r, p, op, status), op)
<1>1. CASE r[p].status = "none" \/ r[p].op = op
  BY <1>1 DEF Update, Tame
<1>2. CASE ~(r[p].status = "none" \/ r[p].op = op)
  <2> DEFINE row == [r[p] EXCEPT !.status = status, !.op = op]
  <2>1. row \in Row /\ row.status = status /\ row.op = op
    BY RowFields DEF Row
  <2>2. Update(r, p, op, status) = [r EXCEPT ![p] = row]
    BY <1>2 DEF Update, Rows
  <2> HIDE DEF row
  <2>3. [r EXCEPT ![p] = row] \in Rows /\ [r EXCEPT ![p] = row][p] = row
        /\ \A q \in Players \ {p} : [r EXCEPT ![p] = row][q] = r[q]
    BY <2>1 DEF Rows
  <2> QED
    BY <2>1, <2>2, <2>3 DEF Tame
<1> QED
  BY <1>1, <1>2

LEMMA MoveIsTame ==
    ASSUME NEW r \in Rows, NEW p \in Players, NEW op \in OperationIds, NEW time \in Nat
    PROVE  Tame(r, MoveRow(r, p, op, time), op)
<1>1. CASE r[p].status = "none" \/ r[p].op = op
  BY <1>1 DEF MoveRow, Tame
<1>2. CASE ~(r[p].status = "none" \/ r[p].op = op)
  <2> DEFINE row == [r[p] EXCEPT !.at = time, !.op = op]
  <2>1. row \in Row /\ row.status = r[p].status /\ row.op = op
    BY RowFields DEF Row
  <2>2. MoveRow(r, p, op, time) = [r EXCEPT ![p] = row]
    BY <1>2 DEF MoveRow, Rows
  <2> HIDE DEF row
  <2>3. [r EXCEPT ![p] = row] \in Rows /\ [r EXCEPT ![p] = row][p] = row
        /\ \A q \in Players \ {p} : [r EXCEPT ![p] = row][q] = r[q]
    BY <2>1 DEF Rows
  <2> QED
    BY <2>1, <2>2, <2>3 DEF Tame
<1> QED
  BY <1>1, <1>2

LEMMA SwapIsTame ==
    ASSUME NEW r \in Rows, NEW p \in Players, NEW q \in Players, NEW op \in OperationIds,
           NEW pAt \in Nat, NEW qAt \in Nat
    PROVE  Tame(r, SwapRows(r, op, p, pAt, q, qAt), op)
<1> DEFINE between == MoveRow(r, p, op, qAt)
<1>1. Tame(r, between, op)
  BY MoveIsTame
<1> HIDE DEF between
<1>2. Tame(between, MoveRow(between, q, op, pAt), op)
  BY <1>1, MoveIsTame DEF Tame
<1>3. SwapRows(r, op, p, pAt, q, qAt) = MoveRow(between, q, op, pAt)
  BY DEF SwapRows, between
<1> QED
  BY <1>1, <1>2, <1>3 DEF Tame

LEMMA SiftIsTame ==
    ASSUME NEW r \in Rows, NEW shift \in Nat, NEW op
    PROVE  Tame(r, SiftRows(r, shift), op)
<1>1. ASSUME NEW p \in Players
      PROVE  /\ [r[p] EXCEPT !.at = @ + shift] \in Row
             /\ [r[p] EXCEPT !.at = @ + shift].status = r[p].status
             /\ [r[p] EXCEPT !.at = @ + shift].op = r[p].op
  BY RowFields DEF Row
<1>2. ASSUME NEW p \in Players
      PROVE  SiftRows(r, shift)[p] \in Row /\ SiftRows(r, shift)[p].status = r[p].status
             /\ SiftRows(r, shift)[p].op = r[p].op
  BY <1>1, RowFields DEF SiftRows
<1>3. SiftRows(r, shift) \in Rows
  BY <1>2 DEF SiftRows, Rows
<1> QED
  BY <1>2, <1>3 DEF Tame

LEMMA EnlistIsTame ==
    ASSUME NEW r \in Rows, NEW p \in Players, NEW op \in OperationIds, NEW time \in Nat
    PROVE  Tame(r, EnlistRow(r, p, op, time), op)
<1> DEFINE row == [status |-> "waiting", at |-> time, op |-> op]
<1>1. row \in Row /\ row.status = "waiting" /\ row.op = op
  BY DEF Row, Statuses
<1>2. EnlistRow(r, p, op, time) = [r EXCEPT ![p] = row]
  BY DEF EnlistRow
<1> HIDE DEF row
<1> QED
  BY <1>1, <1>2 DEF Tame, Rows

LEMMA NoRowIsTame ==
    ASSUME NEW r \in Rows, NEW op
    PROVE  /\ \A p \in Players : Tame(r, [r EXCEPT ![p] = NoRow], op)
           /\ Tame(r, [p \in Players |-> NoRow], op)
<1>1. NoRow \in Row /\ NoRow.status = "none" /\ NoRow.op = NoOperation
  BY RowsAssumption DEF NoRow, Row, Statuses
<1> HIDE DEF NoRow
<1> QED
  BY <1>1 DEF Tame, Rows

-----------------------------------------------------------------------------
\* Commands and attempts

LEMMA QueuedType ==
    ASSUME Structure, NEW g \in Groups, NEW i \in 1 .. Len(queue[g])
    PROVE  /\ queue[g] \in Seq(Command) /\ queue[g][i] \in Command /\ queue[g][i].op \in 1 .. MaxOps
           /\ queue[g][i].event \in Events
<1>1. queue[g] \in Seq(Command)
  BY DEF Structure, TypeOK
<1>2. queue[g][i] \in Command
  BY <1>1, ElementOfSeq
<1> QED
  BY <1>1, <1>2 DEF Command

\* The command an attempt is at.
LEMMA AtHead ==
    ASSUME Structure, NEW g \in Groups, queue[g] # <<>>
    PROVE  LET c == CommandAt(g) IN
           /\ 1 \in 1 .. Len(queue[g]) /\ c = queue[g][1] /\ c \in Command /\ GroupOf(c) = g
           /\ WellFormed(c) /\ c.op \in 1 .. MaxOps /\ c.op <= published
           /\ c.op \in OperationIds /\ c.event \in Events /\ c.replaced \subseteq Events /\ c.kind \in Kinds
<1>1. queue[g] \in Seq(Command)
  BY DEF Structure, TypeOK
<1>2. 1 \in 1 .. Len(queue[g]) /\ CommandAt(g) = queue[g][1] /\ queue[g][1] \in Command
  BY <1>1, EmptySeq, LenProperties, HeadTailProperties DEF CommandAt
<1>3. GroupOf(queue[g][1]) = g /\ WellFormed(queue[g][1]) /\ queue[g][1].op <= published
  BY <1>2 DEF Structure, TypeOK, QueuesSound
<1> QED
  BY <1>2, <1>3, OrderedMutationsAssumption DEF Command

\* An author or a target is a player.
LEMMA KeyOf ==
    ASSUME NEW c, WellFormed(c), c.kind \in ByPlayer \cup ByTarget
    PROVE  Key(c) \in Players /\ c.player = {Key(c)}
<1>1. PICK p \in Players : c.player = {p}
  BY DEF WellFormed
<1> QED
  BY <1>1 DEF Key

\* A confirmation waits in its player's group.
LEMMA PlayersGroup ==
    ASSUME NEW c, NEW d, c.kind = "confirm", d.kind = "confirm", Key(c) = Key(d)
    PROVE  GroupOf(c) = GroupOf(d)
BY DEF GroupOf

\* What an attempt has read is kept when it goes on.
LEMMA ContinueEffect ==
    ASSUME Structure, NEW g \in Groups, NEW attempt \in Attempt, Continue(g, attempt), attempt.todo # <<>>
    PROVE  LET after == [attempt EXCEPT !.todo = Tail(@)] IN
           /\ work' = [work EXCEPT ![g] = after] /\ after \in Attempt
           /\ after.todo = Tail(attempt.todo) /\ after.refused = attempt.refused
           /\ after.replaced = attempt.replaced /\ after.time = attempt.time
           /\ after.mate = attempt.mate /\ after.mateTime = attempt.mateTime
           /\ after.entries = attempt.entries
           /\ \A step : Pending(after, step) => Pending(attempt, step)
           /\ attempt.todo[Len(attempt.todo)] = "reply" /\ after.todo # <<>>
                => after.todo[Len(after.todo)] = "reply"
<1> DEFINE after == [attempt EXCEPT !.todo = Tail(@)]
<1>1. attempt.todo \in Seq(Steps)
  BY DEF Attempt
<1>2. /\ Tail(attempt.todo) \in Seq(Steps) /\ Len(Tail(attempt.todo)) = Len(attempt.todo) - 1
      /\ \A i \in 1 .. Len(Tail(attempt.todo)) : Tail(attempt.todo)[i] = attempt.todo[i + 1]
  BY <1>1, HeadTailProperties
<1>3. work' = [work EXCEPT ![g] = after]
  BY DEF Continue
<1>4. /\ after \in Attempt /\ after.todo = Tail(attempt.todo) /\ after.refused = attempt.refused
      /\ after.replaced = attempt.replaced /\ after.time = attempt.time
      /\ after.mate = attempt.mate /\ after.mateTime = attempt.mateTime /\ after.entries = attempt.entries
  BY <1>2 DEF Attempt
<1> HIDE DEF after
<1>5. \A i \in 1 .. Len(after.todo) : i + 1 \in 1 .. Len(attempt.todo) /\ after.todo[i] = attempt.todo[i + 1]
  BY <1>1, <1>2, <1>4, LenProperties
<1>6. \A step : Pending(after, step) => Pending(attempt, step)
  BY <1>5 DEF Pending
<1>7. after.todo # <<>> => after.todo[Len(after.todo)] = attempt.todo[Len(attempt.todo)]
  <2> SUFFICES ASSUME after.todo # <<>> PROVE after.todo[Len(after.todo)] = attempt.todo[Len(attempt.todo)]
    OBVIOUS
  <2>1. Len(after.todo) \in 1 .. Len(after.todo) /\ Len(after.todo) + 1 = Len(attempt.todo)
    BY <1>1, <1>2, <1>4, EmptySeq, LenProperties
  <2> QED
    BY <1>5, <2>1
<1> USE DEF after
<1> QED
  BY <1>3, <1>4, <1>6, <1>7

\* A step of an attempt, as the structure sees it: what it records is of its
\* own operation.
LEMMA StructureKept ==
    ASSUME Structure, NEW g \in Groups, queue[g] # <<>>,
           queue' = queue, published' = published, crashes' \in 0 .. MaxCrashes,
           NEW a \in Attempt, work' = [work EXCEPT ![g] = a],
           a.todo # <<>> => a.todo[Len(a.todo)] = "reply",
           games' \in [Events -> Game], rows' \in [Events -> Rows],
           \A e \in Events, p \in Players : rows'[e][p].op \in {rows[e][p].op, CommandAt(g).op, NoOperation},
           \A e \in Events : games'[e].removal.op \in {games[e].removal.op, CommandAt(g).op},
           applied' \subseteq applied \cup {CommandAt(g).op}
    PROVE  Structure'
<1> DEFINE c == CommandAt(g)
<1>1. /\ c = queue[g][1] /\ 1 \in 1 .. Len(queue[g]) /\ c.op \in 1 .. MaxOps /\ c.op <= published
  BY AtHead
<1> HIDE DEF c
<1>2. work' \in [Groups -> Attempt] /\ work'[g] = a /\ \A h \in Groups \ {g} : work'[h] = work[h]
  BY DEF Structure, TypeOK
<1>3. TypeOK'
  BY <1>2 DEF Structure, TypeOK, GroupOf, Key
<1>4. EndsWithReply'
  BY <1>2 DEF Structure, EndsWithReply
<1>5. ASSUME NEW op \in 1 .. MaxOps, op # c.op, Fresh(op)
      PROVE  Fresh(op)'
  BY <1>5, OrderedMutationsAssumption DEF Fresh, c
<1>6. QueuesSound'
  <2>1. ASSUME NEW h \in Groups, NEW i \in 1 .. Len(queue[h]), i > 1
        PROVE  Fresh(queue[h][i].op)'
    <3>1. queue[h][i].op # c.op /\ Fresh(queue[h][i].op)
      BY <1>1, <2>1 DEF Structure, OpsDiffer, QueuesSound
    <3>2. queue[h][i].op \in 1 .. MaxOps
      BY QueuedType
    <3> QED
      BY <1>5, <3>1, <3>2
  <2> QED
    BY <2>1 DEF Structure, QueuesSound, WellFormed
<1>7. OpsToCome'
  <2>1. ASSUME NEW op \in published + 1 .. MaxOps
        PROVE  Fresh(op)'
    <3>1. op # c.op /\ op \in 1 .. MaxOps /\ Fresh(op)
      BY <1>1, OrderedMutationsAssumption DEF Structure, OpsToCome, TypeOK
    <3> QED
      BY <1>5, <3>1
  <2> QED
    BY <2>1 DEF OpsToCome
<1>8. OpsDiffer'
  BY DEF Structure, OpsDiffer
<1> QED
  BY <1>3, <1>4, <1>6, <1>7, <1>8 DEF Structure

-----------------------------------------------------------------------------
\* Plans: the steps an attempt sets out to make

IsPlan(s) == s \in Seq(Steps) /\ s # <<>> /\ s[Len(s)] = "reply"

LEMMA PlanAfter ==
    ASSUME NEW s \in Seq(Steps), NEW t, IsPlan(t)
    PROVE  IsPlan(s \o t)
<1>1. t \in Seq(Steps) /\ Len(t) \in Nat /\ Len(t) # 0 /\ Len(s) \in Nat
  BY EmptySeq, LenProperties DEF IsPlan
<1>2. /\ s \o t \in Seq(Steps) /\ Len(s \o t) = Len(s) + Len(t)
      /\ (s \o t)[Len(s) + Len(t)] = t[Len(s) + Len(t) - Len(s)]
  BY <1>1, ConcatProperties
<1>3. s \o t # <<>>
  BY <1>1, <1>2, EmptySeq
<1>4. Len(s) + Len(t) - Len(s) = Len(t)
  BY <1>1
<1> QED
  BY <1>2, <1>3, <1>4 DEF IsPlan

LEMMA WhenType ==
    ASSUME NEW condition, NEW s \in Seq(Steps)
    PROVE  When(condition, s) \in Seq(Steps)
BY EmptySeq DEF When

LEMMA PromotionsType ==
    ASSUME NEW e, NEW c, NEW eligible
    PROVE  Promotions(e, c, eligible) \in Seq(Steps)
<1>1. <<"look">> \in Seq(Steps) /\ <<"reserve">> \in Seq(Steps) /\ <<"link">> \in Seq(Steps)
  BY DEF Steps
<1> QED
  BY <1>1, WhenType, ConcatProperties DEF Promotions

LEMMA FixedPlans ==
    /\ IsPlan(<<"reply">>) /\ IsPlan(<<"write", "reply">>)
    /\ IsPlan(<<"read", "send", "reply">>)
    /\ IsPlan(<<"write", "read", "send", "reply">>)
    /\ IsPlan(<<"write", "tellReserve", "tellLink", "read", "send", "reply">>)
    /\ IsPlan(<<"read", "send", "tellReserve", "tellLink", "reply">>)
    /\ IsPlan(<<"removal", "look", "write", "read", "send", "reply">>)
    /\ IsPlan(<<"removal", "write", "read", "send", "reply">>)
BY DEF IsPlan, Steps

LEMMA Pieces ==
    /\ <<"removal">> \in Seq(Steps) /\ <<"write">> \in Seq(Steps) /\ <<"read", "send">> \in Seq(Steps)
    /\ <<"tellReserve", "tellLink">> \in Seq(Steps) /\ <<"erase", "drop">> \in Seq(Steps)
    /\ <<>> \in Seq(Steps)
BY DEF Steps

LEMMA IdleType == Idle \in Attempt /\ Idle.todo = <<>>
BY EmptySeq DEF Idle, Attempt

-----------------------------------------------------------------------------
\* What a step of an attempt may change, a confirmation's write excepted

Effect(g, a) ==
    /\ work' = [work EXCEPT ![g] = a]
    /\ a.todo # <<>> => a.todo[Len(a.todo)] = "reply"
    /\ queue' = queue /\ published' = published /\ crashes' \in 0 .. MaxCrashes
    /\ games' \in [Events -> Game] /\ rows' \in [Events -> Rows]
    /\ applied' \subseteq applied \cup {CommandAt(g).op}
    /\ \A e \in Events :
        /\ games'[e].removal.op \in {games[e].removal.op, CommandAt(g).op}
        /\ games'[e].exists => games[e].exists
        /\ CommandAt(g).kind # "unarchive" => (games[e].archived => games'[e].archived)
        /\ Tame(rows[e], rows'[e], CommandAt(g).op)
    /\ CommandAt(g).kind = "confirm" =>
           \A e \in Events, p \in Players : rows'[e][p].op \in {rows[e][p].op, NoOperation}
    /\ \/ Pending(a, "write") => Pending(work[g], "write") /\ a.replaced = work[g].replaced
       \/ CommandAt(g).kind = "confirm" => Elsewhere(CommandAt(g)) \subseteq a.replaced

LEMMA EffectStructure ==
    ASSUME Structure, NEW g \in Groups, queue[g] # <<>>, NEW a \in Attempt, Effect(g, a)
    PROVE  Structure'
BY StructureKept DEF Effect, Tame

LEMMA EffectOneGame ==
    ASSUME Structure, OneGame, "unarchive" \notin Kinds,
           NEW g \in Groups, queue[g] # <<>>, NEW a \in Attempt, Effect(g, a)
    PROVE  OneGame'
<1> DEFINE c == CommandAt(g)
<1>1. /\ c = queue[g][1] /\ 1 \in 1 .. Len(queue[g]) /\ c.op \in 1 .. MaxOps /\ c.kind # "unarchive"
      /\ c.op # NoOperation
  BY AtHead, OrderedMutationsAssumption
<1>2. \A e \in Events : Live(e)' => Live(e)
  BY <1>1 DEF Effect, Live
<1>3. \A e \in Events, p \in Players : rows'[e][p].status = "confirmed" => rows[e][p].status = "confirmed"
  BY DEF Effect, Tame
<1>4. \A p \in Players : ConfirmedIn(p)' \subseteq ConfirmedIn(p)
  BY <1>2, <1>3 DEF ConfirmedIn
<1>5. OneConfirmedPerDate'
  BY <1>4 DEF OneGame, OneConfirmedPerDate
<1>6. GivenUp'
  <2> SUFFICES ASSUME NEW h \in Groups, NEW i \in 1 .. Len(queue[h]), queue[h][i].kind = "confirm",
                      NEW f \in Events \ {queue[h][i].event}, NEW p \in Players,
                      rows'[f][p].op = queue[h][i].op, rows'[f][p].status = "confirmed"
               PROVE  FALSE
    BY DEF GivenUp, Effect
  <2>1. queue[h][i].op \in 1 .. MaxOps /\ queue[h][i].op # NoOperation
    BY QueuedType, OrderedMutationsAssumption
  <2>2. rows'[f][p].op \in {rows[f][p].op, c.op}
    BY <2>1 DEF Effect, Tame
  <2>3. CASE rows'[f][p].op = rows[f][p].op
    <3>1. rows[f][p].op = queue[h][i].op /\ rows[f][p].status = "confirmed"
      BY <1>3, <2>3
    <3> QED
      BY <3>1, ZenonT(30) DEF OneGame, GivenUp
  <2>4. CASE rows'[f][p].op # rows[f][p].op
    <3>1. c.op = queue[h][i].op
      BY <2>2, <2>4
    <3>2. h = g /\ i = 1
      BY <1>1, <3>1 DEF Structure, OpsDiffer
    <3>3. c.kind = "confirm"
      BY <1>1, <3>2
    <3> QED
      BY <2>1, <2>4, <3>3 DEF Effect
  <2> QED
    BY <2>3, <2>4
<1>7. RivalsAreKnown'
  <2> SUFFICES ASSUME NEW h \in Groups, Pending(work'[h], "write"), CommandAt(h).kind = "confirm"
               PROVE  Elsewhere(CommandAt(h))' \subseteq work'[h].replaced
    BY DEF RivalsAreKnown, Effect, CommandAt, Pending
  <2>1. work'[g] = a /\ \A k \in Groups \ {g} : work'[k] = work[k]
    BY DEF Effect, Structure, TypeOK
  <2>2. queue[h] # <<>>
    <3>1. work'[h].todo # <<>>
      BY DEF Pending
    <3> QED
      BY <2>1, <3>1 DEF Structure, TypeOK
  <2>3. CommandAt(h)' = CommandAt(h) /\ Key(CommandAt(h)) \in Players
    BY <2>2, AtHead, KeyOf DEF Effect, CommandAt, ByPlayer
  <2>4. Elsewhere(CommandAt(h))' \subseteq Elsewhere(CommandAt(h))
    BY <1>4, <2>3 DEF Elsewhere, Conflict, Key
  <2>5. Elsewhere(CommandAt(h)) \subseteq work'[h].replaced
    <3>1. CASE h # g
      BY <2>1, <3>1 DEF OneGame, RivalsAreKnown
    <3>2. CASE h = g
      BY <2>1, <3>2 DEF OneGame, RivalsAreKnown, Effect
    <3> QED
      BY <3>1, <3>2
  <2> QED
    BY <2>4, <2>5
<1> QED
  BY <1>5, <1>6, <1>7 DEF OneGame

\* Steps that change nothing but the attempt.
LEMMA ReadEffect ==
    ASSUME Structure, NEW g \in Groups, queue[g] # <<>>, NEW a \in Attempt, work' = [work EXCEPT ![g] = a],
           a.todo # <<>> => a.todo[Len(a.todo)] = "reply",
           UNCHANGED <<games, rows, queue, published, applied>>, crashes' \in 0 .. MaxCrashes,
           \/ Pending(a, "write") => Pending(work[g], "write") /\ a.replaced = work[g].replaced
           \/ CommandAt(g).kind = "confirm" => Elsewhere(CommandAt(g)) \subseteq a.replaced
    PROVE  Effect(g, a)
<1>1. \A e \in Events : Tame(rows[e], rows[e], CommandAt(g).op)
  BY DEF Structure, TypeOK, Tame
<1>2. games \in [Events -> Game] /\ rows \in [Events -> Rows]
  BY DEF Structure, TypeOK
<1> QED
  BY <1>1, <1>2 DEF Effect

\* A record in the row of one game.
LEMMA RecordEffect ==
    ASSUME Structure, NEW g \in Groups, queue[g] # <<>>, NEW a \in Attempt, work' = [work EXCEPT ![g] = a],
           a.todo # <<>> => a.todo[Len(a.todo)] = "reply",
           Pending(a, "write") => Pending(work[g], "write") /\ a.replaced = work[g].replaced,
           UNCHANGED <<rows, queue, published, applied, crashes>>,
           NEW e, NEW game, games' = [games EXCEPT ![e] = game],
           e \in Events => /\ game \in Game /\ game.removal.op \in {games[e].removal.op, CommandAt(g).op}
                           /\ game.exists = games[e].exists /\ game.archived = games[e].archived
    PROVE  Effect(g, a)
<1>1. \A f \in Events : Tame(rows[f], rows[f], CommandAt(g).op)
  BY DEF Structure, TypeOK, Tame
<1>2. games' \in [Events -> Game] /\ \A f \in Events : games'[f] = IF f = e THEN game ELSE games[f]
  BY DEF Structure, TypeOK
<1>3. rows' \in [Events -> Rows] /\ crashes' \in 0 .. MaxCrashes
  BY DEF Structure, TypeOK
<1> QED
  BY <1>1, <1>2, <1>3 DEF Effect

\* The head of what is left to do.
LEMMA AtStep ==
    ASSUME Structure, NEW g \in Groups, work[g].todo # <<>>
    PROVE  /\ queue[g] # <<>> /\ work[g] \in Attempt /\ CommandAt(g).op \in OperationIds
           /\ work[g].todo[Len(work[g].todo)] = "reply"
           /\ CommandAt(g).event \in Events
<1>1. queue[g] # <<>> /\ work[g] \in Attempt
  BY DEF Structure, TypeOK
<1> QED
  BY <1>1, AtHead DEF Structure, EndsWithReply

\* Continuing with what the attempt has just read.
LEMMA ContinueReading ==
    ASSUME Structure, NEW g \in Groups, work[g].todo # <<>>,
           NEW attempt \in Attempt, attempt.todo = work[g].todo, attempt.replaced = work[g].replaced,
           Continue(g, attempt), UNCHANGED <<games, rows, queue, published, applied, crashes>>
    PROVE  \E a \in Attempt : Effect(g, a) /\ a = [attempt EXCEPT !.todo = Tail(@)]
<1> DEFINE a == [attempt EXCEPT !.todo = Tail(@)]
<1>1. queue[g] # <<>> /\ work[g].todo[Len(work[g].todo)] = "reply"
  BY AtStep
<1>2. /\ work' = [work EXCEPT ![g] = a] /\ a \in Attempt /\ a.replaced = attempt.replaced
      /\ \A step : Pending(a, step) => Pending(attempt, step)
      /\ a.todo # <<>> => a.todo[Len(a.todo)] = "reply"
  BY <1>1, ContinueEffect
<1> HIDE DEF a
<1>3. Pending(a, "write") => Pending(work[g], "write") /\ a.replaced = work[g].replaced
  BY <1>2 DEF Pending
<1>4. crashes' \in 0 .. MaxCrashes
  BY DEF Structure, TypeOK
<1>5. Effect(g, a)
  BY <1>1, <1>2, <1>3, <1>4, ReadEffect
<1> QED
  BY <1>2, <1>5 DEF a

\* Going on with the same data.
LEMMA ContinueWork ==
    ASSUME Structure, NEW g \in Groups, work[g].todo # <<>>, Continue(g, work[g])
    PROVE  \E a \in Attempt :
               /\ a = [work[g] EXCEPT !.todo = Tail(@)] /\ work' = [work EXCEPT ![g] = a]
               /\ a.todo # <<>> => a.todo[Len(a.todo)] = "reply"
               /\ Pending(a, "write") => Pending(work[g], "write") /\ a.replaced = work[g].replaced
<1> DEFINE a == [work[g] EXCEPT !.todo = Tail(@)]
<1>1. queue[g] # <<>> /\ work[g] \in Attempt /\ work[g].todo[Len(work[g].todo)] = "reply"
  BY AtStep
<1>2. /\ work' = [work EXCEPT ![g] = a] /\ a \in Attempt /\ a.replaced = work[g].replaced
      /\ \A step : Pending(a, step) => Pending(work[g], step)
      /\ a.todo # <<>> => a.todo[Len(a.todo)] = "reply"
  BY <1>1, ContinueEffect
<1> QED
  BY <1>2

LEMMA GameFields ==
    ASSUME Structure, NEW e \in Events
    PROVE  /\ games[e] \in Game /\ games[e].removal \in Removal /\ games[e].reserve \in Promotion
           /\ games[e].link \in Promotion /\ games[e].amount \in Nat /\ rows[e] \in Rows
           /\ games[e].removal.entries \subseteq Entry
BY DEF Structure, TypeOK, Game, Removal

LEMMA RecordRemovalEffect ==
    ASSUME Structure, NEW g \in Groups, RecordRemoval(g)
    PROVE  queue[g] # <<>> /\ \E a \in Attempt : Effect(g, a)
<1> DEFINE c == CommandAt(g)
           e == c.event
           record == IF games[e].removal.op = c.op
                     THEN [games[e].removal EXCEPT !.entries = @ \cup work[g].entries]
                     ELSE [op |-> c.op, entries |-> work[g].entries, done |-> {}]
           game == [games[e] EXCEPT !.removal = record]
<1>1. queue[g] # <<>> /\ work[g] \in Attempt /\ c.op \in OperationIds /\ e \in Events /\ work[g].todo # <<>>
  BY AtStep DEF RecordRemoval, At
<1>2. PICK a \in Attempt :
          /\ work' = [work EXCEPT ![g] = a]
          /\ a.todo # <<>> => a.todo[Len(a.todo)] = "reply"
          /\ Pending(a, "write") => Pending(work[g], "write") /\ a.replaced = work[g].replaced
  BY <1>1, ContinueWork DEF RecordRemoval
<1>3. games' = [games EXCEPT ![e] = game] /\ UNCHANGED <<rows, queue, published, applied, crashes>>
  <2>1. games' = [games EXCEPT ![e].removal =
                      IF games[e].removal.op = c.op
                      THEN [games[e].removal EXCEPT !.entries = @ \cup work[g].entries]
                      ELSE [op |-> c.op, entries |-> work[g].entries, done |-> {}]]
    BY DEF RecordRemoval
  <2>2. UNCHANGED <<rows, queue, published, applied, crashes>>
    BY DEF RecordRemoval, history
  <2> HIDE DEF c
  <2>3. games' = [games EXCEPT ![e] = game]
    BY <2>1, Zenon
  <2> QED
    BY <2>2, <2>3
<1>4. games[e] \in Game /\ games[e].removal \in Removal /\ work[g].entries \subseteq Entry
  BY <1>1, GameFields DEF Attempt
<1> HIDE DEF e, c
<1>5. record \in Removal /\ record.op \in {games[e].removal.op, c.op}
  BY <1>1, <1>4 DEF Removal
<1> HIDE DEF record
<1>6. game \in Game /\ game.removal = record /\ game.exists = games[e].exists /\ game.archived = games[e].archived
  BY <1>4, <1>5 DEF Game
<1> HIDE DEF game
<1>7. Effect(g, a)
  BY <1>1, <1>2, <1>3, <1>5, <1>6, RecordEffect DEF c
<1> QED
  BY <1>1, <1>7

LEMMA RecordPromotionsEffect ==
    ASSUME Structure, NEW g \in Groups, RecordReserve(g) \/ RecordLink(g)
    PROVE  queue[g] # <<>> /\ \E a \in Attempt : Effect(g, a)
<1> DEFINE c == CommandAt(g)
           e == DrawnOn(g)
<1>1. queue[g] # <<>> /\ work[g] \in Attempt /\ c.op \in OperationIds /\ work[g].todo # <<>>
  BY AtStep DEF RecordReserve, RecordLink, At
<1>2. PICK a \in Attempt :
          /\ work' = [work EXCEPT ![g] = a]
          /\ a.todo # <<>> => a.todo[Len(a.todo)] = "reply"
          /\ Pending(a, "write") => Pending(work[g], "write") /\ a.replaced = work[g].replaced
  BY <1>1, ContinueWork DEF RecordReserve, RecordLink
<1>3. UNCHANGED <<rows, queue, published, applied, crashes>>
  BY DEF RecordReserve, RecordLink, history
<1>4. e \in Events => games[e] \in Game /\ games[e].reserve \in Promotion /\ games[e].link \in Promotion
  BY GameFields
<1>5. work[g].candidates \subseteq Players /\ work[g].confirmed \subseteq Players
  BY <1>1 DEF Attempt
<1>6. CASE RecordReserve(g)
  <2> DEFINE record == [games[e].reserve EXCEPT !.op = c.op, !.keys = work[g].candidates, !.done = FALSE]
             game == [games[e] EXCEPT !.reserve = record]
  <2>1. games' = [games EXCEPT ![e] = game]
    BY <1>6 DEF RecordReserve
  <2> HIDE DEF e, c
  <2>2. e \in Events => record \in Promotion
    BY <1>1, <1>4, <1>5 DEF Promotion
  <2> HIDE DEF record
  <2>3. e \in Events => /\ game \in Game /\ game.removal = games[e].removal
                        /\ game.exists = games[e].exists /\ game.archived = games[e].archived
    BY <1>4, <2>2 DEF Game
  <2> HIDE DEF game
  <2>4. Effect(g, a)
    BY <1>1, <1>2, <1>3, <2>1, <2>3, RecordEffect
  <2> QED
    BY <1>1, <2>4
<1>7. CASE RecordLink(g)
  <2> DEFINE record == [games[e].link EXCEPT !.op = c.op, !.keys = work[g].confirmed, !.done = FALSE]
             game == [games[e] EXCEPT !.link = record]
  <2>1. games' = [games EXCEPT ![e] = game]
    BY <1>7 DEF RecordLink
  <2> HIDE DEF e, c
  <2>2. e \in Events => record \in Promotion
    BY <1>1, <1>4, <1>5 DEF Promotion
  <2> HIDE DEF record
  <2>3. e \in Events => /\ game \in Game /\ game.removal = games[e].removal
                        /\ game.exists = games[e].exists /\ game.archived = games[e].archived
    BY <1>4, <2>2 DEF Game
  <2> HIDE DEF game
  <2>4. Effect(g, a)
    BY <1>1, <1>2, <1>3, <2>1, <2>3, RecordEffect
  <2> QED
    BY <1>1, <2>4
<1> QED
  BY <1>6, <1>7

LEMMA LookEffect ==
    ASSUME Structure, NEW g \in Groups, Look(g)
    PROVE  queue[g] # <<>> /\ \E a \in Attempt : Effect(g, a)
<1> DEFINE c == CommandAt(g)
           r == rows[DrawnOn(g)]
           keys == Promoted(r, Key(c), work[g].amount)
<1>1. /\ queue[g] # <<>> /\ work[g] \in Attempt /\ work[g].todo # <<>> /\ Head(work[g].todo) = "look"
      /\ work[g].todo[Len(work[g].todo)] = "reply"
  BY AtStep DEF Look, At
<1>2. UNCHANGED <<games, rows, queue, published, applied, crashes>>
  BY DEF Look, history
<1>3. CASE Continue(g, [work[g] EXCEPT !.todo = Tail(@)])
  <2> DEFINE b == [work[g] EXCEPT !.todo = Tail(@)]
  <2>1. b \in Attempt /\ b.todo = Tail(work[g].todo) /\ b.replaced = work[g].replaced
    BY <1>1, HeadTailProperties DEF Attempt
  <2>2. /\ Tail(work[g].todo) # <<>> /\ Tail(work[g].todo)[Len(Tail(work[g].todo))] = "reply"
        /\ \A step : (\E i \in 1 .. Len(Tail(work[g].todo)) : Tail(work[g].todo)[i] = step)
                        => Pending(work[g], step)
    <3> DEFINE s == work[g].todo
    <3>1. /\ s \in Seq(Steps) /\ s # <<>> /\ s[1] = "look" /\ s[Len(s)] = "reply" /\ Len(s) \in Nat /\ Len(s) # 0
      BY <1>1, EmptySeq, HeadTailProperties, LenProperties DEF Attempt
    <3>2. /\ Tail(s) \in Seq(Steps) /\ Len(Tail(s)) = Len(s) - 1
          /\ \A i \in 1 .. Len(Tail(s)) : Tail(s)[i] = s[i + 1]
      BY <3>1, HeadTailProperties
    <3>3. \A step : Pending(work[g], step) <=> \E i \in 1 .. Len(s) : s[i] = step
      BY DEF Pending
    <3> HIDE DEF s
    <3>4. Len(s) > 1
      BY <3>1
    <3>5. Len(Tail(s)) \in 1 .. Len(Tail(s)) /\ Len(Tail(s)) + 1 = Len(s)
      BY <3>1, <3>2, <3>4
    <3>6. Tail(s)[Len(Tail(s))] = "reply" /\ Tail(s) # <<>>
      BY <3>1, <3>2, <3>5, EmptySeq
    <3>7. \A i \in 1 .. Len(Tail(s)) : i + 1 \in 1 .. Len(s)
      BY <3>1, <3>2
    <3>8. \A step : (\E i \in 1 .. Len(Tail(s)) : Tail(s)[i] = step) => \E i \in 1 .. Len(s) : s[i] = step
      BY <3>2, <3>7
    <3> QED
      BY <3>3, <3>6, <3>8 DEF s
  <2>3. Continue(g, b)
    BY <1>3
  <2> HIDE DEF b
  <2> DEFINE a == [b EXCEPT !.todo = Tail(@)]
  <2>4. /\ work' = [work EXCEPT ![g] = a] /\ a \in Attempt /\ a.replaced = work[g].replaced
        /\ \A step : Pending(a, step) => Pending(b, step)
        /\ a.todo # <<>> => a.todo[Len(a.todo)] = "reply"
    BY <2>1, <2>2, <2>3, ContinueEffect
  <2> HIDE DEF a
  <2>5. Pending(a, "write") => Pending(work[g], "write") /\ a.replaced = work[g].replaced
    <3>1. Pending(a, "write") => Pending(b, "write")
      BY <2>4
    <3>2. Pending(b, "write") => \E i \in 1 .. Len(Tail(work[g].todo)) : Tail(work[g].todo)[i] = "write"
      BY <2>1 DEF Pending
    <3>3. (\E i \in 1 .. Len(Tail(work[g].todo)) : Tail(work[g].todo)[i] = "write") => Pending(work[g], "write")
      BY <2>2
    <3> QED
      BY <2>4, <3>1, <3>2, <3>3
  <2>6. crashes' \in 0 .. MaxCrashes
    BY <1>2 DEF Structure, TypeOK
  <2> QED
    BY <1>1, <1>2, <2>4, <2>5, <2>6, ReadEffect
<1>4. ASSUME NEW shift \in Times, Continue(g, [work[g] EXCEPT !.time = shift])
      PROVE  \E a \in Attempt : Effect(g, a)
  <2> DEFINE b == [work[g] EXCEPT !.time = shift]
  <2>1. b \in Attempt /\ b.todo = work[g].todo /\ b.replaced = work[g].replaced
    BY <1>1, OrderedMutationsAssumption DEF Attempt
  <2>2. Continue(g, b)
    BY <1>4
  <2> HIDE DEF b
  <2> QED
    BY <1>1, <1>2, <2>1, <2>2, ContinueReading
<1>5. CASE Continue(g, [work[g] EXCEPT !.candidates = keys,
                                       !.confirmed = {q \in keys : r[q].status = "confirmed"}])
  <2>1. keys \subseteq Players
    BY DEF Promoted, Active
  <2> HIDE DEF keys
  <2> DEFINE sure == {q \in keys : r[q].status = "confirmed"}
             b == [work[g] EXCEPT !.candidates = keys, !.confirmed = sure]
  <2>2. sure \subseteq Players
    BY <2>1
  <2>3. Continue(g, b)
    BY <1>5
  <2> HIDE DEF sure
  <2>4. b \in Attempt /\ b.todo = work[g].todo /\ b.replaced = work[g].replaced
    BY <1>1, <2>1, <2>2 DEF Attempt
  <2> HIDE DEF b
  <2> QED
    BY <1>1, <1>2, <2>3, <2>4, ContinueReading
<1> QED
  BY <1>1, <1>3, <1>4, <1>5 DEF Look

\* Telling players and recording that they have been told.
LEMMA TellEffect ==
    ASSUME Structure, NEW g \in Groups, TellReserve(g) \/ TellLink(g)
    PROVE  queue[g] # <<>> /\ \E a \in Attempt : Effect(g, a)
<1> DEFINE e == DrawnOn(g)
<1>1. queue[g] # <<>> /\ work[g] \in Attempt /\ work[g].todo # <<>>
  BY AtStep DEF TellReserve, TellLink, At
<1>2. PICK a \in Attempt :
          /\ work' = [work EXCEPT ![g] = a]
          /\ a.todo # <<>> => a.todo[Len(a.todo)] = "reply"
          /\ Pending(a, "write") => Pending(work[g], "write") /\ a.replaced = work[g].replaced
  BY <1>1, ContinueWork DEF TellReserve, TellLink
<1>3. UNCHANGED <<rows, queue, published, applied, crashes>>
  BY DEF TellReserve, TellLink, history
<1>4. e \in Events => games[e] \in Game /\ games[e].reserve \in Promotion /\ games[e].link \in Promotion
  BY GameFields
<1>5. CASE games' = games
  <2>1. crashes' \in 0 .. MaxCrashes
    BY <1>3 DEF Structure, TypeOK
  <2> QED
    BY <1>1, <1>2, <1>3, <1>5, <2>1, ReadEffect
<1>6. CASE games' = [games EXCEPT ![e].reserve.done = TRUE]
  <2> DEFINE record == [games[e].reserve EXCEPT !.done = TRUE]
             game == [games[e] EXCEPT !.reserve = record]
  <2>1. games' = [games EXCEPT ![e] = game]
    BY <1>6
  <2> HIDE DEF e
  <2>2. e \in Events => record \in Promotion
    BY <1>4 DEF Promotion
  <2> HIDE DEF record
  <2>3. e \in Events => /\ game \in Game /\ game.removal = games[e].removal
                        /\ game.exists = games[e].exists /\ game.archived = games[e].archived
    BY <1>4, <2>2 DEF Game
  <2> HIDE DEF game
  <2> QED
    BY <1>1, <1>2, <1>3, <2>1, <2>3, RecordEffect
<1>7. CASE games' = [games EXCEPT ![e].link.done = TRUE]
  <2> DEFINE record == [games[e].link EXCEPT !.done = TRUE]
             game == [games[e] EXCEPT !.link = record]
  <2>1. games' = [games EXCEPT ![e] = game]
    BY <1>7
  <2> HIDE DEF e
  <2>2. e \in Events => record \in Promotion
    BY <1>4 DEF Promotion
  <2> HIDE DEF record
  <2>3. e \in Events => /\ game \in Game /\ game.removal = games[e].removal
                        /\ game.exists = games[e].exists /\ game.archived = games[e].archived
    BY <1>4, <2>2 DEF Game
  <2> HIDE DEF game
  <2> QED
    BY <1>1, <1>2, <1>3, <2>1, <2>3, RecordEffect
<1>8. games' = games \/ games' = [games EXCEPT ![e].reserve.done = TRUE]
      \/ games' = [games EXCEPT ![e].link.done = TRUE]
  BY DEF TellReserve, TellLink
<1> QED
  BY <1>1, <1>5, <1>6, <1>7, <1>8

LEMMA ReadNoticesEffect ==
    ASSUME Structure, NEW g \in Groups, Read(g)
    PROVE  queue[g] # <<>> /\ \E a \in Attempt : Effect(g, a)
<1>1. queue[g] # <<>> /\ work[g] \in Attempt /\ work[g].todo # <<>> /\ CommandAt(g).event \in Events
  BY AtStep DEF Read, At
<1> DEFINE due == Due(CommandAt(g))
           b == [work[g] EXCEPT !.entries = due]
<1>2. due \subseteq Entry
  <2>1. games[CommandAt(g).event].removal.entries \subseteq Entry
    BY <1>1, GameFields
  <2>2. Entries("opened", WithStatus(rows[CommandAt(g).event], "waiting")) \subseteq Entry
    BY DEF Entries, WithStatus, Entry
  <2> QED
    BY <2>1, <2>2 DEF Due, Current
<1>3. Continue(g, b) /\ UNCHANGED <<games, rows, queue, published, applied, crashes>>
  BY DEF Read, history
<1> HIDE DEF due
<1>4. b \in Attempt /\ b.todo = work[g].todo /\ b.replaced = work[g].replaced
  BY <1>1, <1>2 DEF Attempt
<1> HIDE DEF b
<1> QED
  BY <1>1, <1>3, <1>4, ContinueReading

LEMMA SendEffect ==
    ASSUME Structure, NEW g \in Groups, Send(g)
    PROVE  queue[g] # <<>> /\ \E a \in Attempt : Effect(g, a)
<1> DEFINE e == CommandAt(g).event
<1>1. /\ queue[g] # <<>> /\ work[g] \in Attempt /\ work[g].todo # <<>> /\ e \in Events
      /\ work[g].todo[Len(work[g].todo)] = "reply"
  BY AtStep DEF Send, At
<1>2. PICK n \in work[g].entries :
          /\ games' = IF n.way # "opened" /\ games[e].removal.op = CommandAt(g).op
                      THEN [games EXCEPT ![e].removal.done = @ \cup {n}] ELSE games
          /\ work' = [work EXCEPT ![g].entries = @ \ {n}]
  BY DEF Send
<1>3. UNCHANGED <<rows, queue, published, applied, crashes>>
  BY DEF Send
<1> DEFINE rest == work[g].entries \ {n}
           a == [work[g] EXCEPT !.entries = rest]
<1>4. n \in Entry /\ rest \subseteq Entry
  BY <1>1, <1>2 DEF Attempt
<1>5. work' = [work EXCEPT ![g] = a]
  BY <1>2
<1> HIDE DEF rest
<1>6. a \in Attempt /\ a.todo = work[g].todo /\ a.replaced = work[g].replaced
  BY <1>1, <1>4 DEF Attempt
<1> HIDE DEF a
<1>7. Pending(a, "write") => Pending(work[g], "write") /\ a.replaced = work[g].replaced
  BY <1>6 DEF Pending
<1>8. CASE games' = games
  <2>1. crashes' \in 0 .. MaxCrashes
    BY <1>3 DEF Structure, TypeOK
  <2>2. Effect(g, a)
    BY <1>1, <1>3, <1>5, <1>6, <1>7, <1>8, <2>1, ReadEffect
  <2> QED
    BY <1>1, <1>6, <2>2
<1>9. CASE games' = [games EXCEPT ![e].removal.done = @ \cup {n}]
  <2> DEFINE record == [games[e].removal EXCEPT !.done = @ \cup {n}]
             game == [games[e] EXCEPT !.removal = record]
  <2>1. games' = [games EXCEPT ![e] = game]
    BY <1>9
  <2>2. games[e] \in Game /\ games[e].removal \in Removal
    BY <1>1, GameFields
  <2> HIDE DEF e
  <2>3. record \in Removal /\ record.op = games[e].removal.op
    BY <1>4, <2>2 DEF Removal
  <2> HIDE DEF record
  <2>4. /\ game \in Game /\ game.removal = record
        /\ game.exists = games[e].exists /\ game.archived = games[e].archived
    BY <2>2, <2>3 DEF Game
  <2> HIDE DEF game
  <2>5. Effect(g, a)
    BY <1>1, <1>3, <1>5, <1>6, <1>7, <2>1, <2>3, <2>4, RecordEffect
  <2> QED
    BY <1>1, <1>6, <2>5
<1> QED
  BY <1>2, <1>8, <1>9

LEMMA AllSentEffect ==
    ASSUME Structure, NEW g \in Groups, AllSent(g)
    PROVE  queue[g] # <<>> /\ \E a \in Attempt : Effect(g, a)
<1>1. queue[g] # <<>> /\ work[g] \in Attempt /\ work[g].todo # <<>>
  BY AtStep DEF AllSent, At
<1>2. Continue(g, work[g]) /\ UNCHANGED <<games, rows, queue, published, applied, crashes>>
  BY DEF AllSent, history
<1> QED
  BY <1>1, <1>2, ContinueReading

\* A plan made from what has been read.
LEMMA BeginEffect ==
    ASSUME Structure, NEW g \in Groups, queue[g] # <<>>, NEW todo, IsPlan(todo), NEW attempt \in Attempt,
           Begin(g, todo, attempt),
           CommandAt(g).kind = "confirm" /\ (\E i \in 1 .. Len(todo) : todo[i] = "write")
               => Elsewhere(CommandAt(g)) \subseteq attempt.replaced
    PROVE  \E a \in Attempt : Effect(g, a)
<1> DEFINE a == [attempt EXCEPT !.todo = todo]
<1>1. work' = [work EXCEPT ![g] = a] /\ UNCHANGED <<games, rows, queue, published, applied, crashes>>
  BY DEF Begin, history
<1>2. a \in Attempt /\ a.todo = todo /\ a.replaced = attempt.replaced
  BY DEF IsPlan, Attempt
<1> HIDE DEF a
<1>3. a.todo[Len(a.todo)] = "reply"
  BY <1>2 DEF IsPlan
<1>4. CASE CommandAt(g).kind = "confirm" /\ \E i \in 1 .. Len(todo) : todo[i] = "write"
  <2>1. crashes' \in 0 .. MaxCrashes
    BY <1>1 DEF Structure, TypeOK
  <2> QED
    BY <1>1, <1>2, <1>3, <1>4, <2>1, ReadEffect
<1>5. CASE ~(CommandAt(g).kind = "confirm" /\ \E i \in 1 .. Len(todo) : todo[i] = "write")
  <2>1. crashes' \in 0 .. MaxCrashes
    BY <1>1 DEF Structure, TypeOK
  <2>2. CommandAt(g).kind # "confirm" \/ ~Pending(a, "write")
    BY <1>2, <1>5 DEF Pending
  <2> QED
    BY <1>1, <1>2, <1>3, <2>1, <2>2, ReadEffect
<1> QED
  BY <1>4, <1>5

LEMMA RefuseEffect ==
    ASSUME Structure, NEW g \in Groups, queue[g] # <<>>, Refuse(g) \/ Deny(g)
    PROVE  \E a \in Attempt : Effect(g, a)
<1> DEFINE refusal == [Idle EXCEPT !.refused = TRUE]
           denial == [Idle EXCEPT !.refused = TRUE, !.denied = TRUE]
<1>1. refusal \in Attempt /\ denial \in Attempt
  BY IdleType DEF Attempt
<1>2. Begin(g, <<"reply">>, refusal) \/ Begin(g, <<"reply">>, denial)
  BY DEF Refuse, Deny
<1> HIDE DEF refusal, denial
<1>3. ~\E i \in 1 .. Len(<<"reply">>) : <<"reply">>[i] = "write"
  OBVIOUS
<1> QED
  BY <1>1, <1>2, <1>3, FixedPlans, BeginEffect

LEMMA GiveUpEffect ==
    ASSUME Structure, NEW g \in Groups, LoseGame(g) \/ Fail(g)
    PROVE  queue[g] # <<>> /\ \E a \in Attempt : Effect(g, a)
<1>1. queue[g] # <<>>
  BY AtStep DEF LoseGame, Fail, At
<1>2. CASE LoseGame(g)
  BY <1>1, <1>2, RefuseEffect DEF LoseGame
<1>3. CASE Fail(g)
  <2>1. /\ work' = [work EXCEPT ![g] = Idle] /\ UNCHANGED <<games, rows, queue, published, applied>>
        /\ crashes' \in 0 .. MaxCrashes
    BY <1>3, OrderedMutationsAssumption DEF Fail, history, Structure, TypeOK
  <2>2. ~Pending(Idle, "write")
    BY IdleType DEF Pending
  <2> QED
    BY <1>1, <2>1, <2>2, IdleType, ReadEffect
<1> QED
  BY <1>1, <1>2, <1>3

LEMMA EntriesType ==
    ASSUME NEW way \in {"up", "down", "out", "cancelled", "opened"}, NEW keys \in SUBSET Players
    PROVE  Entries(way, keys) \subseteq Entry
BY DEF Entries, Entry

LEMMA MainType == ASSUME NEW r, NEW n PROVE MainRoster(r, n) \subseteq Players
BY DEF MainRoster, Active

\* Plans of the operations on the queue of a game.
LEMMA LoadRosterEffect ==
    ASSUME Structure, NEW g \in Groups, queue[g] # <<>>, NEW c, c = CommandAt(g),
           LoadEnlist(g, c) \/ LoadCancel(g, c) \/ LoadRemove(g, c)
    PROVE  \E a \in Attempt : Effect(g, a)
<1>1. c \in Command /\ WellFormed(c) /\ c.event \in Events /\ c.kind # "confirm" /\ games[c.event].amount \in Nat
  BY AtHead, GameFields DEF LoadEnlist, LoadCancel, LoadRemove
<1>2. c.player \subseteq Players
  BY <1>1 DEF Command
<1>3. CASE LoadEnlist(g, c)
  <2>1. CASE Begin(g, <<"reply">>, Idle)
    BY <1>1, <2>1, IdleType, FixedPlans, BeginEffect
  <2>2. ASSUME NEW time \in Times, Begin(g, <<"write", "reply">>, [Idle EXCEPT !.time = time])
        PROVE  \E a \in Attempt : Effect(g, a)
    <3> DEFINE attempt == [Idle EXCEPT !.time = time]
    <3>1. attempt \in Attempt
      BY IdleType, OrderedMutationsAssumption DEF Attempt
    <3>2. Begin(g, <<"write", "reply">>, attempt)
      BY <2>2
    <3> HIDE DEF attempt
    <3> QED
      BY <1>1, <3>1, <3>2, FixedPlans, BeginEffect
  <2> QED
    BY <1>3, <2>1, <2>2 DEF LoadEnlist
<1>4. CASE LoadCancel(g, c)
  <2> DEFINE active == RowOf(c).status # "cancelled"
             entries == IF active THEN Entries("cancelled", c.player) ELSE {}
             attempt == [Idle EXCEPT !.amount = GameOf(c).amount, !.entries = entries]
             before == When(GameOf(c).removal.op # c.op, <<"removal">>) \o Promotions(c.event, c, active)
             todo == before \o <<"write", "tellReserve", "tellLink", "read", "send", "reply">>
  <2>1. Begin(g, todo, attempt)
    BY <1>4 DEF LoadCancel
  <2>2. entries \subseteq Entry
    BY <1>2, EntriesType
  <2>3. before \in Seq(Steps)
    BY Pieces, WhenType, PromotionsType, ConcatProperties
  <2> HIDE DEF entries, before, active
  <2>4. attempt \in Attempt
    BY <1>1, <2>2, IdleType DEF Attempt, GameOf
  <2>5. IsPlan(todo)
    BY <2>3, FixedPlans, PlanAfter
  <2> HIDE DEF attempt, todo
  <2> QED
    BY <1>1, <2>1, <2>4, <2>5, BeginEffect
<1>5. CASE LoadRemove(g, c)
  <2> DEFINE present == RowOf(c).status # "none"
             entries == IF present THEN Entries("out", c.player) ELSE {}
             attempt == [Idle EXCEPT !.amount = GameOf(c).amount, !.entries = entries]
             before == When(GameOf(c).removal.op # c.op, <<"removal">>) \o Promotions(c.event, c, present)
                       \o When(present, <<"write">>)
             todo == before \o <<"read", "send", "tellReserve", "tellLink", "reply">>
  <2>1. Begin(g, todo, attempt)
    BY <1>5 DEF LoadRemove
  <2>2. entries \subseteq Entry
    BY <1>2, EntriesType
  <2>3. before \in Seq(Steps)
    BY Pieces, WhenType, PromotionsType, ConcatProperties
  <2> HIDE DEF entries, before, present
  <2>4. attempt \in Attempt
    BY <1>1, <2>2, IdleType DEF Attempt, GameOf
  <2>5. IsPlan(todo)
    BY <2>3, FixedPlans, PlanAfter
  <2> HIDE DEF attempt, todo
  <2> QED
    BY <1>1, <2>1, <2>4, <2>5, BeginEffect
<1> QED
  BY <1>3, <1>4, <1>5

\* Plans of the masters' operations.
LEMMA LoadMastersEffect ==
    ASSUME Structure, NEW g \in Groups, queue[g] # <<>>, NEW c, c = CommandAt(g),
           LoadSift(g, c) \/ LoadPromote(g, c) \/ LoadAmount(g, c)
    PROVE  \E a \in Attempt : Effect(g, a)
<1>1. c \in Command /\ WellFormed(c) /\ c.event \in Events /\ c.kind # "confirm" /\ rows[c.event] \in Rows
  BY AtHead, GameFields DEF LoadSift, LoadPromote, LoadAmount
<1>2. c.player \subseteq Players
  BY <1>1 DEF Command
<1>3. CASE LoadSift(g, c)
  <2>1. CASE Begin(g, When(GameOf(c).removal.op # c.op, <<"removal">>) \o <<"read", "send", "reply">>, Idle)
    <3>1. IsPlan(When(GameOf(c).removal.op # c.op, <<"removal">>) \o <<"read", "send", "reply">>)
      BY Pieces, WhenType, FixedPlans, PlanAfter
    <3> QED
      BY <1>1, <2>1, <3>1, IdleType, BeginEffect
  <2>2. ASSUME NEW ups \in SUBSET Players, NEW downs \in SUBSET Players,
               Begin(g, <<"removal", "look", "write", "read", "send", "reply">>,
                     [Idle EXCEPT !.entries = Entries("up", ups) \cup Entries("down", downs)])
        PROVE  \E a \in Attempt : Effect(g, a)
    <3> DEFINE entries == Entries("up", ups) \cup Entries("down", downs)
               attempt == [Idle EXCEPT !.entries = entries]
    <3>1. entries \subseteq Entry
      BY EntriesType
    <3>2. Begin(g, <<"removal", "look", "write", "read", "send", "reply">>, attempt)
      BY <2>2
    <3> HIDE DEF entries
    <3>3. attempt \in Attempt
      BY <3>1, IdleType DEF Attempt
    <3> HIDE DEF attempt
    <3> QED
      BY <1>1, <3>2, <3>3, FixedPlans, BeginEffect
  <2>3. ASSUME NEW shift \in Times,
               LET main == MainRoster(rows[c.event], GameOf(c).amount)
                   after == MainRoster(SiftRows(rows[c.event], shift), GameOf(c).amount)
               IN  Begin(g, <<"removal", "look", "write", "read", "send", "reply">>,
                         [Idle EXCEPT !.entries = Entries("up", after \ main) \cup Entries("down", main \ after)])
        PROVE  \E a \in Attempt : Effect(g, a)
    <3> DEFINE main == MainRoster(rows[c.event], GameOf(c).amount)
               after == MainRoster(SiftRows(rows[c.event], shift), GameOf(c).amount)
    <3>1. after \ main \in SUBSET Players /\ main \ after \in SUBSET Players
      BY MainType
    <3>2. Begin(g, <<"removal", "look", "write", "read", "send", "reply">>,
                [Idle EXCEPT !.entries = Entries("up", after \ main) \cup Entries("down", main \ after)])
      BY <2>3
    <3> HIDE DEF main, after
    <3> QED
      BY <2>2, <3>1, <3>2
  <2> QED
    BY <1>3, <2>1, <2>3 DEF LoadSift
<1>4. CASE LoadPromote(g, c)
  <2>1. CASE Begin(g, <<"read", "send", "reply">>, Idle)
    BY <1>1, <2>1, IdleType, FixedPlans, BeginEffect
  <2>2. ASSUME NEW p \in Players,
               Begin(g, <<"removal", "write", "read", "send", "reply">>,
                     [Idle EXCEPT !.entries = Entries("up", c.player) \cup Entries("down", {p}),
                                  !.time = RowOf(c).at,
                                  !.mate = {p}, !.mateTime = rows[c.event][p].at])
        PROVE  \E a \in Attempt : Effect(g, a)
    <3> DEFINE entries == Entries("up", c.player) \cup Entries("down", {p})
               time == RowOf(c).at
               mateTime == rows[c.event][p].at
               attempt == [Idle EXCEPT !.entries = entries, !.time = time,
                                       !.mate = {p}, !.mateTime = mateTime]
    <3>1. entries \subseteq Entry
      BY <1>2, EntriesType
    <3>2. Key(c) \in Players
      BY <1>1, <1>4, KeyOf DEF LoadPromote, ByTarget
    <3>3. time \in Nat /\ mateTime \in Nat
      BY <1>1, <3>2, RowFields DEF RowOf
    <3>4. Begin(g, <<"removal", "write", "read", "send", "reply">>, attempt)
      BY <2>2
    <3> HIDE DEF entries, time, mateTime
    <3>5. attempt \in Attempt
      BY <3>1, <3>3, IdleType DEF Attempt
    <3> HIDE DEF attempt
    <3> QED
      BY <1>1, <3>4, <3>5, FixedPlans, BeginEffect
  <2> QED
    BY <1>4, <2>1, <2>2 DEF LoadPromote
<1>5. CASE LoadAmount(g, c)
  <2> DEFINE entries == Entries("up", MainRoster(rows[c.event], c.amount) \ MainRoster(rows[c.event], GameOf(c).amount))
             attempt == [Idle EXCEPT !.entries = entries]
             todo == When(GameOf(c).removal.op # c.op, <<"removal">>) \o <<"write", "read", "send", "reply">>
  <2>1. Begin(g, todo, attempt)
    BY <1>5 DEF LoadAmount
  <2>2. entries \subseteq Entry
    BY MainType, EntriesType
  <2> HIDE DEF entries
  <2>3. attempt \in Attempt
    BY <2>2, IdleType DEF Attempt
  <2>4. IsPlan(todo)
    BY Pieces, WhenType, FixedPlans, PlanAfter
  <2> HIDE DEF attempt, todo
  <2> QED
    BY <1>1, <2>1, <2>3, <2>4, BeginEffect
<1> QED
  BY <1>3, <1>4, <1>5

\* Plans of the operations on the row of the game.
LEMMA LoadGameEffect ==
    ASSUME Structure, NEW g \in Groups, queue[g] # <<>>, NEW c, c = CommandAt(g),
           LoadStatus(g, c) \/ LoadArchival(g, c)
    PROVE  \E a \in Attempt : Effect(g, a)
<1>1. c.kind # "confirm"
  BY DEF LoadStatus, LoadArchival
<1>2. ASSUME NEW todo, IsPlan(todo), Begin(g, todo, Idle)
      PROVE  \E a \in Attempt : Effect(g, a)
  BY <1>1, <1>2, IdleType, BeginEffect
<1>3. \A condition : /\ IsPlan(<<"write">> \o When(condition, <<"read", "send">>) \o <<"reply">>)
                     /\ IsPlan(When(condition, <<"write">>) \o <<"reply">>)
                     /\ IsPlan(When(condition, <<"erase", "drop">>) \o <<"reply">>)
  <2> TAKE condition
  <2>1. /\ When(condition, <<"read", "send">>) \in Seq(Steps) /\ When(condition, <<"write">>) \in Seq(Steps)
        /\ When(condition, <<"erase", "drop">>) \in Seq(Steps)
    BY Pieces, WhenType
  <2>2. <<"write">> \o When(condition, <<"read", "send">>) \in Seq(Steps)
    BY <2>1, Pieces, ConcatProperties
  <2> QED
    BY <2>1, <2>2, FixedPlans, PlanAfter
<1> QED
  BY <1>2, <1>3, FixedPlans DEF LoadStatus, LoadArchival

\* The games a confirmation gives up are all those it conflicts with.
LEMMA LoadConfirmEffect ==
    ASSUME Structure, NEW g \in Groups, queue[g] # <<>>, NEW c, c = CommandAt(g),
           LoadConfirm(g, c), ~ConfirmRefused(c)
    PROVE  \E a \in Attempt : Effect(g, a)
<1> DEFINE given(f) == rows[f][Key(c)].status
           replaced == {f \in c.replaced : given(f) = "confirmed" \/ AlreadyApplied(c)}
           game == CHOOSE f \in replaced : TRUE
           amount == IF replaced = {} THEN 0 ELSE games[game].amount
           attempt == [Idle EXCEPT !.replaced = replaced, !.amount = amount]
           promote == IF replaced = {} THEN <<>>
                      ELSE Promotions(game, c, given(game) \in {"waiting", "confirmed"})
           todo == promote \o <<"write">> \o When(replaced # {}, <<"tellReserve", "tellLink">>) \o <<"reply">>
<1>1. Begin(g, todo, attempt)
  BY DEF LoadConfirm
<1>2. c \in Command /\ c.replaced \subseteq Events
  BY AtHead
<1>3. replaced \subseteq Events
  BY <1>2
<1>4. amount \in Nat
  <2>1. replaced # {} => game \in replaced
    OBVIOUS
  <2> QED
    BY <1>3, <2>1, GameFields
<1>5. promote \in Seq(Steps)
  BY Pieces, PromotionsType
<1>6. Elsewhere(c) \subseteq replaced
  BY DEF ConfirmRefused, Elsewhere, ConfirmedIn
<1>7. IsPlan(todo)
  <2> DEFINE tell == When(replaced # {}, <<"tellReserve", "tellLink">>)
  <2>1. tell \in Seq(Steps)
    BY Pieces, WhenType
  <2> HIDE DEF promote, tell
  <2>2. promote \o <<"write">> \o tell \in Seq(Steps)
    BY <1>5, <2>1, Pieces, ConcatProperties
  <2> QED
    BY <2>2, FixedPlans, PlanAfter DEF tell
<1> HIDE DEF replaced, amount, todo
<1>8. attempt \in Attempt /\ attempt.replaced = replaced
  BY <1>3, <1>4, IdleType DEF Attempt
<1> HIDE DEF attempt
<1> QED
  BY <1>1, <1>6, <1>7, <1>8, BeginEffect

LEMMA LoadEffect ==
    ASSUME Structure, NEW g \in Groups, Load(g)
    PROVE  queue[g] # <<>> /\ \E a \in Attempt : Effect(g, a)
<1> DEFINE c == CommandAt(g)
<1>1. queue[g] # <<>> /\ c = Head(queue[g])
  BY DEF Load, CommandAt
<1>2. CASE Refuse(g) \/ Deny(g)
  BY <1>1, <1>2, RefuseEffect
<1>3. CASE ~Refused(c) /\ LoadConfirm(g, c)
  <2>1. ~ConfirmRefused(c)
    BY <1>3 DEF Refused, LoadConfirm
  <2> QED
    BY <1>1, <1>3, <2>1, LoadConfirmEffect
<1>4. CASE LoadEnlist(g, c) \/ LoadCancel(g, c) \/ LoadRemove(g, c)
  BY <1>1, <1>4, LoadRosterEffect
<1>5. CASE LoadSift(g, c) \/ LoadPromote(g, c) \/ LoadAmount(g, c)
  BY <1>1, <1>5, LoadMastersEffect
<1>6. CASE LoadStatus(g, c) \/ LoadArchival(g, c)
  BY <1>1, <1>6, LoadGameEffect
<1> HIDE DEF c
<1> QED
  BY <1>1, <1>2, <1>3, <1>4, <1>5, <1>6 DEF Load

\* A write of one transaction.
LEMMA CommitEffect ==
    ASSUME Structure, NEW g \in Groups, work[g].todo # <<>>,
           NEW newGames \in [Events -> Game], NEW newRows \in [Events -> Rows], Commit(g, newGames, newRows),
           \A e \in Events :
               /\ newGames[e].removal = games[e].removal
               /\ newGames[e].exists => games[e].exists
               /\ CommandAt(g).kind # "unarchive" => (games[e].archived => newGames[e].archived)
               /\ Tame(rows[e], newRows[e], CommandAt(g).op),
           CommandAt(g).kind = "confirm" =>
               \A e \in Events, p \in Players : newRows[e][p].op \in {rows[e][p].op, NoOperation}
    PROVE  queue[g] # <<>> /\ \E a \in Attempt : Effect(g, a)
<1>1. queue[g] # <<>>
  BY AtStep
<1>2. PICK a \in Attempt :
          /\ work' = [work EXCEPT ![g] = a]
          /\ a.todo # <<>> => a.todo[Len(a.todo)] = "reply"
          /\ Pending(a, "write") => Pending(work[g], "write") /\ a.replaced = work[g].replaced
  BY ContinueWork DEF Commit
<1>3. /\ games' = newGames /\ rows' = newRows /\ applied' \subseteq applied \cup {CommandAt(g).op}
      /\ UNCHANGED <<queue, published, crashes>>
  BY DEF Commit
<1>4. crashes' \in 0 .. MaxCrashes
  BY <1>3 DEF Structure, TypeOK
<1>5. Effect(g, a)
  BY <1>2, <1>3, <1>4 DEF Effect
<1> QED
  BY <1>1, <1>5

\* A write to the registrations of the command's game.
LEMMA CommitRows ==
    ASSUME Structure, NEW g \in Groups, work[g].todo # <<>>, NEW after,
           Commit(g, games, [rows EXCEPT ![CommandAt(g).event] = after]),
           Tame(rows[CommandAt(g).event], after, CommandAt(g).op),
           CommandAt(g).kind = "confirm" =>
               \A p \in Players : after[p].op \in {rows[CommandAt(g).event][p].op, NoOperation}
    PROVE  queue[g] # <<>> /\ \E a \in Attempt : Effect(g, a)
<1> DEFINE e == CommandAt(g).event
           newRows == [rows EXCEPT ![e] = after]
<1>1. e \in Events /\ after \in Rows /\ games \in [Events -> Game] /\ rows \in [Events -> Rows]
  BY AtStep DEF Tame, Structure, TypeOK
<1>2. Commit(g, games, newRows)
  OBVIOUS
<1>3. newRows \in [Events -> Rows] /\ newRows[e] = after /\ \A f \in Events \ {e} : newRows[f] = rows[f]
  BY <1>1
<1> HIDE DEF newRows
<1>4. \A f \in Events : Tame(rows[f], newRows[f], CommandAt(g).op)
  BY <1>1, <1>3 DEF Tame
<1>5. CommandAt(g).kind = "confirm" =>
          \A f \in Events, p \in Players : newRows[f][p].op \in {rows[f][p].op, NoOperation}
  BY <1>3
<1> QED
  BY <1>1, <1>2, <1>3, <1>4, <1>5, CommitEffect

\* A write to the row of the command's game.
LEMMA CommitGame ==
    ASSUME Structure, NEW g \in Groups, work[g].todo # <<>>, NEW game \in Game,
           Commit(g, [games EXCEPT ![CommandAt(g).event] = game], rows),
           LET old == games[CommandAt(g).event] IN
               /\ game.removal = old.removal /\ (game.exists => old.exists)
               /\ CommandAt(g).kind # "unarchive" => (old.archived => game.archived)
    PROVE  queue[g] # <<>> /\ \E a \in Attempt : Effect(g, a)
<1> DEFINE e == CommandAt(g).event
           newGames == [games EXCEPT ![e] = game]
<1>1. e \in Events /\ games \in [Events -> Game] /\ rows \in [Events -> Rows]
  BY AtStep DEF Structure, TypeOK
<1>2. Commit(g, newGames, rows)
  OBVIOUS
<1>3. newGames \in [Events -> Game] /\ newGames[e] = game /\ \A f \in Events \ {e} : newGames[f] = games[f]
  BY <1>1
<1> HIDE DEF newGames
<1>4. \A f \in Events : Tame(rows[f], rows[f], CommandAt(g).op)
  BY <1>1 DEF Tame
<1> QED
  BY <1>1, <1>2, <1>3, <1>4, CommitEffect

LEMMA RowWriteEffect ==
    ASSUME Structure, NEW g \in Groups,
           \/ WriteEnlist(g) \/ WriteCancel(g) \/ WriteTouch(g) \/ WriteRemove(g)
           \/ WriteSift(g) \/ WritePromote(g) \/ EraseRows(g)
    PROVE  queue[g] # <<>> /\ \E a \in Attempt : Effect(g, a)
<1> DEFINE c == CommandAt(g)
           e == c.event
           p == Key(c)
<1>1. work[g].todo # <<>>
  BY DEF WriteEnlist, WriteCancel, WriteTouch, WriteRemove, WriteSift, WritePromote, EraseRows, At
<1>2. /\ queue[g] # <<>> /\ work[g] \in Attempt /\ c.op \in OperationIds /\ e \in Events /\ WellFormed(c)
      /\ rows[e] \in Rows /\ work[g].time \in Nat /\ work[g].mateTime \in Nat /\ work[g].mate \subseteq Players
  BY <1>1, AtStep, AtHead, GameFields DEF Attempt
<1>3. CASE WriteEnlist(g)
  <2>1. c.kind # "confirm" /\ p \in Players
    BY <1>2, <1>3, KeyOf DEF WriteEnlist, ByPlayer
  <2>2. Commit(g, games, [rows EXCEPT ![e] = EnlistRow(rows[e], p, c.op, work[g].time)])
    BY <1>3 DEF WriteEnlist
  <2> QED
    BY <1>1, <1>2, <2>1, <2>2, EnlistIsTame, CommitRows
<1>4. CASE WriteCancel(g)
  <2>1. c.kind # "confirm" /\ p \in Players
    BY <1>2, <1>4, KeyOf DEF WriteCancel, ByPlayer
  <2>2. Commit(g, games, [rows EXCEPT ![e] = Update(rows[e], p, c.op, "cancelled")])
    BY <1>4 DEF WriteCancel, CancelRow
  <2>3. Tame(rows[e], Update(rows[e], p, c.op, "cancelled"), c.op)
    BY <1>2, <2>1, UpdateIsTame DEF Statuses
  <2> QED
    BY <1>1, <2>1, <2>2, <2>3, CommitRows
<1>5. CASE WriteTouch(g)
  <2>1. c.kind # "confirm" /\ p \in Players
    BY <1>2, <1>5, KeyOf DEF WriteTouch, ByPlayer
  <2>2. Commit(g, games, [rows EXCEPT ![e] = Update(rows[e], p, c.op, rows[e][p].status)])
    BY <1>5 DEF WriteTouch, TouchRow
  <2>3. Tame(rows[e], Update(rows[e], p, c.op, rows[e][p].status), c.op)
    BY <1>2, <2>1, UpdateIsTame, RowFields
  <2> QED
    BY <1>1, <2>1, <2>2, <2>3, CommitRows
<1>6. CASE WriteRemove(g)
  <2>1. c.kind # "confirm" /\ p \in Players
    BY <1>2, <1>6, KeyOf DEF WriteRemove, ByTarget
  <2>2. Commit(g, games, [rows EXCEPT ![e] = [rows[e] EXCEPT ![p] = NoRow]])
    BY <1>6 DEF WriteRemove
  <2> QED
    BY <1>1, <1>2, <2>1, <2>2, NoRowIsTame, CommitRows
<1>7. CASE WriteSift(g)
  <2>1. c.kind # "confirm"
    BY <1>7 DEF WriteSift
  <2>2. Commit(g, games, [rows EXCEPT ![e] = SiftRows(rows[e], work[g].time)])
    BY <1>7 DEF WriteSift
  <2> QED
    BY <1>1, <1>2, <2>1, <2>2, SiftIsTame, CommitRows
<1>8. CASE WritePromote(g)
  <2>1. c.kind # "confirm" /\ p \in Players
    BY <1>2, <1>8, KeyOf DEF WritePromote, ByTarget
  <2>2. PICK q \in work[g].mate :
            Commit(g, games, [rows EXCEPT ![e] = SwapRows(rows[e], c.op, p, work[g].time, q, work[g].mateTime)])
    BY <1>8 DEF WritePromote
  <2> QED
    BY <1>1, <1>2, <2>1, <2>2, SwapIsTame, CommitRows
<1>9. CASE EraseRows(g)
  <2>1. Commit(g, games, [rows EXCEPT ![e] = [q \in Players |-> NoRow]])
    BY <1>9 DEF EraseRows
  <2>2. \A q \in Players : [x \in Players |-> NoRow][q].op = NoOperation
    BY DEF NoRow
  <2> QED
    BY <1>1, <1>2, <2>1, <2>2, NoRowIsTame, CommitRows
<1> QED
  BY <1>3, <1>4, <1>5, <1>6, <1>7, <1>8, <1>9

LEMMA GameWriteEffect ==
    ASSUME Structure, NEW g \in Groups,
           WriteAmount(g) \/ WriteStatus(g) \/ WriteArchival(g) \/ DropGame(g)
    PROVE  queue[g] # <<>> /\ \E a \in Attempt : Effect(g, a)
<1> DEFINE c == CommandAt(g)
           e == c.event
           old == games[e]
<1>1. work[g].todo # <<>>
  BY DEF WriteAmount, WriteStatus, WriteArchival, DropGame, At
<1>2. /\ queue[g] # <<>> /\ c \in Command /\ e \in Events /\ old \in Game /\ c.amount \in Nat
  <2> HIDE DEF c
  <2>1. queue[g] # <<>> /\ c \in Command /\ e \in Events
    BY <1>1, AtStep, AtHead DEF c
  <2>2. c.amount \in Amounts \cup {0}
    BY <2>1 DEF Command
  <2>3. Amounts \subseteq Nat
    BY OrderedMutationsAssumption
  <2>4. c.amount \in Nat
    <3>1. ASSUME NEW n \in Amounts \cup {0}
          PROVE  n \in Nat
      BY <2>3
    <3> QED
      BY <2>2, <3>1
  <2>5. old \in Game
    BY <2>1, GameFields
  <2> QED
    BY <2>1, <2>4, <2>5
<1>3. ASSUME NEW amount \in Nat
      PROVE  LET game == [old EXCEPT !.amount = amount] IN
             game \in Game /\ game.removal = old.removal /\ game.exists = old.exists /\ game.archived = old.archived
  BY <1>2 DEF Game
<1>4. ASSUME NEW status \in GameStatuses
      PROVE  LET game == [old EXCEPT !.status = status] IN
             game \in Game /\ game.removal = old.removal /\ game.exists = old.exists /\ game.archived = old.archived
  BY <1>2 DEF Game
<1>5. CASE WriteAmount(g)
  <2>1. Commit(g, [games EXCEPT ![e] = [old EXCEPT !.amount = c.amount]], rows)
    BY <1>5 DEF WriteAmount
  <2> QED
    BY <1>1, <1>2, <1>3, <2>1, CommitGame
<1>6. CASE WriteStatus(g)
  <2>1. Commit(g, [games EXCEPT ![e] = [old EXCEPT !.status = NewStatus(c.kind)]], rows)
    BY <1>6 DEF WriteStatus
  <2>2. NewStatus(c.kind) \in GameStatuses
    BY <1>6 DEF WriteStatus, NewStatus, GameStatuses
  <2> QED
    BY <1>1, <1>4, <2>1, <2>2, CommitGame
<1>7. CASE DropGame(g)
  <2> DEFINE game == [old EXCEPT !.exists = FALSE]
  <2>1. Commit(g, [games EXCEPT ![e] = game], rows)
    BY <1>7 DEF DropGame
  <2>2. game \in Game /\ game.removal = old.removal /\ game.exists = FALSE /\ game.archived = old.archived
    BY <1>2 DEF Game
  <2> HIDE DEF game
  <2> QED
    BY <1>1, <2>1, <2>2, CommitGame
<1>8. CASE WriteArchival(g) /\ c.kind = "archive"
  <2> DEFINE game == [old EXCEPT !.status = "closed", !.archived = TRUE]
  <2>1. Commit(g, [games EXCEPT ![e].status = "closed", ![e].archived = TRUE], rows)
    BY <1>8 DEF WriteArchival
  <2>2. [games EXCEPT ![e].status = "closed", ![e].archived = TRUE] = [games EXCEPT ![e] = game]
    BY <1>2 DEF Structure, TypeOK
  <2>3. game \in Game /\ game.removal = old.removal /\ game.exists = old.exists /\ game.archived = TRUE
    BY <1>2 DEF Game, GameStatuses
  <2>4. Commit(g, [games EXCEPT ![e] = game], rows)
    BY <2>1, <2>2
  <2> HIDE DEF game
  <2> QED
    BY <1>1, <2>3, <2>4, CommitGame
<1>9. CASE WriteArchival(g) /\ c.kind = "unarchive"
  <2> DEFINE game == [old EXCEPT !.archived = FALSE]
  <2>1. Commit(g, [games EXCEPT ![e] = game], rows)
    BY <1>9 DEF WriteArchival
  <2>2. game \in Game /\ game.removal = old.removal /\ game.exists = old.exists
    BY <1>2 DEF Game
  <2> HIDE DEF game
  <2> QED
    BY <1>1, <1>9, <2>1, <2>2, CommitGame
<1>10. WriteArchival(g) => c.kind \in {"archive", "unarchive"}
  BY DEF WriteArchival
<1> QED
  BY <1>5, <1>6, <1>7, <1>8, <1>9, <1>10

-----------------------------------------------------------------------------
\* Confirming: the write that gives up the other game

\* What an UPDATE that is not repeated does to a row.
LEMMA UpdateEffect ==
    ASSUME NEW r \in Rows, NEW p \in Players, NEW op \in OperationIds, NEW status \in Statuses
    PROVE  /\ Update(r, p, op, status) \in Rows
           /\ \A q \in Players \ {p} : Update(r, p, op, status)[q] = r[q]
           /\ r[p].status = "none" \/ r[p].op = op => Update(r, p, op, status)[p] = r[p]
           /\ ~(r[p].status = "none" \/ r[p].op = op)
                => Update(r, p, op, status)[p].status = status /\ Update(r, p, op, status)[p].op = op
<1>1. CASE r[p].status = "none" \/ r[p].op = op
  BY <1>1 DEF Update
<1>2. CASE ~(r[p].status = "none" \/ r[p].op = op)
  <2> DEFINE row == [r[p] EXCEPT !.status = status, !.op = op]
  <2>1. row \in Row /\ row.status = status /\ row.op = op
    BY RowFields DEF Row
  <2>2. Update(r, p, op, status) = [r EXCEPT ![p] = row]
    BY <1>2 DEF Update, Rows
  <2> HIDE DEF row
  <2>3. [r EXCEPT ![p] = row] \in Rows /\ [r EXCEPT ![p] = row][p] = row
        /\ \A q \in Players \ {p} : [r EXCEPT ![p] = row][q] = r[q]
    BY <2>1 DEF Rows
  <2> QED
    BY <1>2, <2>1, <2>2, <2>3
<1> QED
  BY <1>1, <1>2

\* The rows of the player in each game after a confirmation.
LEMMA ConfirmWrite ==
    ASSUME Structure, NEW g \in Groups, WriteConfirm(g)
    PROVE  LET c == CommandAt(g)
               p == Key(c)
           IN  /\ p \in Players /\ rows' \in [Events -> Rows] /\ games' = games
               /\ \A e \in Events : \A q \in Players \ {p} : rows'[e][q] = rows[e][q]
               /\ \A e \in Events : rows'[e][p].op \in {rows[e][p].op, c.op, NoOperation}
               /\ rows'[c.event][p].op # c.op => rows'[c.event][p] = rows[c.event][p]
               /\ \A e \in Events \ {c.event} :
                    /\ rows'[e][p].status = "confirmed" => rows'[e][p] = rows[e][p]
                    /\ rows'[e][p].op = c.op /\ rows[e][p].op # c.op => rows'[e][p].status # "confirmed"
                    /\ e \in work[g].replaced /\ rows[e][p].op # c.op => rows'[e][p].status # "confirmed"
<1> DEFINE c == CommandAt(g)
           p == Key(c)
           GiveUp(r) == IF p \in Linked THEN CancelRow(r, p, c.op) ELSE [r EXCEPT ![p] = NoRow]
<1>1. c.op \in OperationIds /\ p \in Players /\ \A e \in Events : rows[e] \in Rows
  <2>1. work[g].todo # <<>> /\ c.kind = "confirm"
    BY DEF WriteConfirm, At
  <2>2. queue[g] # <<>> /\ c.op \in OperationIds /\ WellFormed(c)
    BY <2>1, AtStep, AtHead
  <2> QED
    BY <2>1, <2>2, KeyOf, GameFields DEF ByPlayer
<1>2. /\ games' = games
      /\ rows' = [e \in Events |->
                    IF e = c.event THEN ConfirmRow(rows[e], p, c.op)
                    ELSE IF e \in work[g].replaced THEN GiveUp(rows[e]) ELSE rows[e]]
  BY DEF WriteConfirm, Commit
<1> HIDE DEF c
<1> HIDE DEF p
<1>3. ASSUME NEW r \in Rows
      PROVE  /\ ConfirmRow(r, p, c.op) \in Rows
             /\ \A q \in Players \ {p} : ConfirmRow(r, p, c.op)[q] = r[q]
             /\ ConfirmRow(r, p, c.op)[p].op \in {r[p].op, c.op}
             /\ ConfirmRow(r, p, c.op)[p].op # c.op => ConfirmRow(r, p, c.op)[p] = r[p]
  <2> DEFINE s == Update(r, p, c.op, "confirmed")
  <2>1. "confirmed" \in Statuses
    BY DEF Statuses
  <2>2. /\ s \in Rows /\ \A q \in Players \ {p} : s[q] = r[q]
        /\ r[p].status = "none" \/ r[p].op = c.op => s[p] = r[p]
        /\ ~(r[p].status = "none" \/ r[p].op = c.op) => s[p].op = c.op
    BY <1>1, <2>1, UpdateEffect
  <2>3. ConfirmRow(r, p, c.op) = s
    BY DEF ConfirmRow
  <2> HIDE DEF s
  <2> QED
    BY <2>2, <2>3
<1>4. ASSUME NEW r \in Rows
      PROVE  /\ GiveUp(r) \in Rows
             /\ \A q \in Players \ {p} : GiveUp(r)[q] = r[q]
             /\ GiveUp(r)[p].op \in {r[p].op, c.op, NoOperation}
             /\ GiveUp(r)[p].status = "confirmed" => GiveUp(r)[p] = r[p]
             /\ GiveUp(r)[p].op = c.op /\ r[p].op # c.op => GiveUp(r)[p].status # "confirmed"
             /\ r[p].op # c.op => GiveUp(r)[p].status # "confirmed"
  <2>1. CASE p \in Linked
    <3> DEFINE s == CancelRow(r, p, c.op)
    <3>0. "cancelled" \in Statuses /\ s = Update(r, p, c.op, "cancelled")
      BY DEF Statuses, CancelRow
    <3>1. /\ s \in Rows /\ \A q \in Players \ {p} : s[q] = r[q]
          /\ r[p].status = "none" \/ r[p].op = c.op => s[p] = r[p]
          /\ ~(r[p].status = "none" \/ r[p].op = c.op) => s[p].status = "cancelled" /\ s[p].op = c.op
      <4> HIDE DEF s
      <4> QED
        BY <1>1, <3>0, UpdateEffect
    <3>2. GiveUp(r) = s
      BY <2>1
    <3> HIDE DEF s, GiveUp
    <3> QED
      BY <3>1, <3>2
  <2>2. CASE p \notin Linked
    <3>1. NoRow \in Row /\ NoRow.status = "none" /\ NoRow.op = NoOperation
      BY RowsAssumption DEF NoRow, Row, Statuses
    <3>2. GiveUp(r) = [r EXCEPT ![p] = NoRow]
      BY <2>2
    <3> HIDE DEF NoRow, GiveUp
    <3>3. GiveUp(r) \in Rows /\ GiveUp(r)[p] = NoRow /\ \A q \in Players \ {p} : GiveUp(r)[q] = r[q]
      BY <1>1, <3>1, <3>2 DEF Rows
    <3> QED
      BY <3>1, <3>3
  <2> QED
    BY <2>1, <2>2
<1> HIDE DEF GiveUp
<1>5. ASSUME NEW e \in Events
      PROVE  /\ e = c.event => rows'[e] = ConfirmRow(rows[e], p, c.op)
             /\ e # c.event => rows'[e] = GiveUp(rows[e]) \/ rows'[e] = rows[e]
             /\ e # c.event /\ e \in work[g].replaced => rows'[e] = GiveUp(rows[e])
  BY <1>2
<1>6. rows' \in [Events -> Rows]
  <2>1. \A e \in Events : rows'[e] \in Rows
    BY <1>1, <1>3, <1>4, <1>5
  <2>2. rows' = [e \in Events |-> rows'[e]]
    BY <1>2
  <2> QED
    BY <2>1, <2>2
<1>7. \A e \in Events : \A q \in Players \ {p} : rows'[e][q] = rows[e][q]
  BY <1>1, <1>3, <1>4, <1>5
<1>8. \A e \in Events : rows'[e][p].op \in {rows[e][p].op, c.op, NoOperation}
  BY <1>1, <1>3, <1>4, <1>5
<1>9. ASSUME NEW e \in Events \ {c.event}
      PROVE  /\ rows'[e][p].status = "confirmed" => rows'[e][p] = rows[e][p]
             /\ rows'[e][p].op = c.op /\ rows[e][p].op # c.op => rows'[e][p].status # "confirmed"
             /\ e \in work[g].replaced /\ rows[e][p].op # c.op => rows'[e][p].status # "confirmed"
  BY <1>1, <1>4, <1>5
<1>10. c.event \in Events => (rows'[c.event][p].op # c.op => rows'[c.event][p] = rows[c.event][p])
  BY <1>1, <1>3, <1>5
<1>11. c.event \in Events
  <2>1. work[g].todo # <<>>
    BY DEF WriteConfirm, At
  <2> QED
    BY <2>1, AtStep, AtHead DEF c
<1> QED
  BY <1>1, <1>2, <1>6, <1>7, <1>8, <1>9, <1>10, <1>11 DEF c, p

LEMMA ConfirmStructure ==
    ASSUME Structure, NEW g \in Groups, WriteConfirm(g)
    PROVE  Structure'
<1>1. work[g].todo # <<>> /\ Continue(g, work[g])
  BY DEF WriteConfirm, At, Commit
<1>2. PICK a \in Attempt :
          /\ work' = [work EXCEPT ![g] = a]
          /\ a.todo # <<>> => a.todo[Len(a.todo)] = "reply"
  BY <1>1, ContinueWork
<1>3. /\ queue[g] # <<>> /\ games' = games /\ queue' = queue /\ published' = published /\ crashes' = crashes
      /\ applied' \subseteq applied \cup {CommandAt(g).op}
  BY <1>1, AtStep, ConfirmWrite DEF WriteConfirm, Commit
<1>4. /\ rows' \in [Events -> Rows]
      /\ \A e \in Events, p \in Players : rows'[e][p].op \in {rows[e][p].op, CommandAt(g).op, NoOperation}
  BY ConfirmWrite
<1>5. crashes' \in 0 .. MaxCrashes /\ games' \in [Events -> Game]
  BY <1>3 DEF Structure, TypeOK
<1> QED
  BY <1>2, <1>3, <1>4, <1>5, StructureKept

\* Of two games of a player that conflict, at most one is confirmed: the other
\* one is given up in the same transaction.
LEMMA ConfirmOneGame ==
    ASSUME Structure, OneGame, NEW g \in Groups, WriteConfirm(g)
    PROVE  OneGame'
<1> DEFINE c == CommandAt(g)
<1>0. PICK p \in Players : p = Key(c)
  BY ConfirmWrite
<1>1. /\ rows' \in [Events -> Rows] /\ games' = games
      /\ \A e \in Events : \A q \in Players \ {p} : rows'[e][q] = rows[e][q]
      /\ \A e \in Events \ {c.event} :
            /\ rows'[e][p].status = "confirmed" => rows'[e][p] = rows[e][p]
            /\ rows'[e][p].op = c.op /\ rows[e][p].op # c.op => rows'[e][p].status # "confirmed"
            /\ e \in work[g].replaced /\ rows[e][p].op # c.op => rows'[e][p].status # "confirmed"
      /\ \A e \in Events : rows'[e][p].op \in {rows[e][p].op, c.op, NoOperation}
      /\ rows'[c.event][p].op # c.op => rows'[c.event][p] = rows[c.event][p]
  BY <1>0, ConfirmWrite
<1>2. /\ queue[g] # <<>> /\ c.kind = "confirm" /\ Pending(work[g], "write") /\ queue' = queue
      /\ c = queue[g][1] /\ 1 \in 1 .. Len(queue[g]) /\ GroupOf(c) = g /\ c.event \in Events
      /\ Continue(g, work[g]) /\ work[g].todo # <<>>
  <2>1. At(g, "write") /\ c.kind = "confirm" /\ queue' = queue /\ Continue(g, work[g]) /\ work[g].todo # <<>>
    BY DEF WriteConfirm, Commit, At
  <2>2. queue[g] # <<>> /\ work[g].todo \in Seq(Steps)
    BY <2>1, AtStep DEF Attempt
  <2>3. Pending(work[g], "write")
    <3> DEFINE todo == work[g].todo
    <3>1. todo \in Seq(Steps) /\ todo # <<>> /\ Head(todo) = "write"
      BY <2>1, <2>2 DEF At
    <3>2. 1 \in 1 .. Len(todo) /\ todo[1] = "write"
      BY <3>1, EmptySeq, LenProperties, HeadTailProperties
    <3> QED
      BY <3>2 DEF Pending
  <2> QED
    BY <2>1, <2>2, <2>3, AtHead
<1>3. Elsewhere(c) \subseteq work[g].replaced
  BY <1>2 DEF OneGame, RivalsAreKnown
<1>4. \A f \in Events \ {c.event} : rows[f][p].op = c.op => rows[f][p].status # "confirmed"
  BY <1>1, <1>2 DEF OneGame, GivenUp
<1> HIDE DEF c
<1>5. \A e \in Events : Live(e)' <=> Live(e)
  BY <1>1 DEF Live
<1>6. \A q \in Players \ {p} : ConfirmedIn(q)' = ConfirmedIn(q)
  BY <1>1, <1>5 DEF ConfirmedIn
<1>7. \A f \in Events \ {c.event} : f \in ConfirmedIn(p)' => f \in ConfirmedIn(p) /\ ~Conflict(c.event, f)
  <2> SUFFICES ASSUME NEW f \in Events \ {c.event}, f \in ConfirmedIn(p)'
               PROVE  f \in ConfirmedIn(p) /\ ~Conflict(c.event, f)
    OBVIOUS
  <2>0. Live(f) /\ rows'[f][p].status = "confirmed"
    BY <1>5 DEF ConfirmedIn
  <2>1. rows'[f][p] = rows[f][p] /\ f \in ConfirmedIn(p)
    BY <1>1, <2>0 DEF ConfirmedIn
  <2>2. rows[f][p].op # c.op /\ f \notin work[g].replaced
    BY <1>1, <1>4, <2>0, <2>1
  <2>3. ~Conflict(c.event, f)
    BY <1>0, <1>3, <2>1, <2>2 DEF Elsewhere
  <2> QED
    BY <2>1, <2>3
<1>8. OneConfirmedPerDate'
  <2> SUFFICES ASSUME NEW q \in Players, NEW e \in ConfirmedIn(q)', NEW f \in ConfirmedIn(q)', Conflict(e, f)
               PROVE  FALSE
    BY DEF OneConfirmedPerDate, Conflict
  <2>1. CASE q # p
    BY <1>6, <2>1 DEF OneGame, OneConfirmedPerDate
  <2>2. CASE q = p
    <3>1. e \in Events /\ f \in Events /\ e # f /\ Conflict(f, e)
      BY DEF ConfirmedIn, Conflict
    <3>2. e \in ConfirmedIn(p)' /\ f \in ConfirmedIn(p)'
      BY <2>2
    <3>3. e # c.event /\ f # c.event
      BY <1>7, <3>1, <3>2
    <3>4. e \in ConfirmedIn(p) /\ f \in ConfirmedIn(p)
      BY <1>7, <3>1, <3>2, <3>3
    <3> QED
      BY <1>1, <3>4 DEF OneGame, OneConfirmedPerDate
  <2> QED
    BY <2>1, <2>2
<1>9. GivenUp'
  <2> SUFFICES ASSUME NEW h \in Groups, NEW i \in 1 .. Len(queue[h]), queue[h][i].kind = "confirm",
                      NEW f \in Events \ {queue[h][i].event}, NEW q \in Players,
                      rows'[f][q].op = queue[h][i].op, rows'[f][q].status = "confirmed"
               PROVE  FALSE
    BY <1>2 DEF GivenUp
  <2> DEFINE d == queue[h][i]
  <2>1. d.op \in 1 .. MaxOps /\ d.op # NoOperation
    BY QueuedType, OrderedMutationsAssumption
  <2>2. ~(rows[f][q].op = d.op /\ rows[f][q].status = "confirmed")
    BY DEF OneGame, GivenUp
  <2>3. q = p
    BY <1>1, <2>2
  <2>4. CASE f # c.event
    BY <1>1, <2>2, <2>3, <2>4
  <2>5. CASE f = c.event
    <3>1. d.op = c.op => h = g /\ i = 1
      BY <1>2 DEF Structure, OpsDiffer
    <3>2. d.op # c.op
      BY <1>2, <2>5, <3>1
    <3>3. rows'[f][p] = rows[f][p]
      BY <1>1, <2>3, <2>5, <3>2
    <3> QED
      BY <2>2, <2>3, <3>3
  <2> QED
    BY <2>4, <2>5
<1>10. RivalsAreKnown'
  <2> SUFFICES ASSUME NEW h \in Groups, Pending(work'[h], "write"), CommandAt(h).kind = "confirm",
                      NEW f \in Elsewhere(CommandAt(h))'
               PROVE  f \in work'[h].replaced
    BY <1>2 DEF RivalsAreKnown, CommandAt
  <2> DEFINE d == CommandAt(h)
  <2>0. queue[h] # <<>>
    <3>1. PICK a \in Attempt : work' = [work EXCEPT ![g] = a]
      BY <1>2, ContinueWork
    <3>2. work'[h].todo # <<>>
      BY DEF Pending
    <3>3. h # g => work[h].todo # <<>>
      BY <3>1, <3>2 DEF Structure, TypeOK
    <3> QED
      BY <1>2, <3>3, AtStep
  <2>1. PICK k \in Players : k = Key(d)
    <3>1. WellFormed(d) /\ d.kind = "confirm"
      BY <2>0, AtHead
    <3> QED
      BY <3>1, KeyOf DEF ByPlayer
  <2>2. f \in ConfirmedIn(k)' /\ Conflict(d.event, f) /\ f \in Events
    <3>1. CommandAt(h)' = d
      BY <1>2 DEF CommandAt
    <3>2. Elsewhere(d)' = {e \in ConfirmedIn(k)' : Conflict(d.event, e)}
      BY <2>1, <3>1 DEF Elsewhere, Conflict, Key
    <3> QED
      BY <3>2 DEF ConfirmedIn
  <2>3. CASE h = g
    <3>1. k = p /\ d.event = c.event
      BY <1>0, <2>1, <2>3 DEF c
    <3>2. f # c.event
      BY <2>2, <3>1 DEF Conflict
    <3> QED
      BY <1>7, <2>2, <3>1, <3>2
  <2>4. CASE h # g
    <3>1. work'[h] = work[h]
      <4>1. PICK a \in Attempt : work' = [work EXCEPT ![g] = a]
        BY <1>2, ContinueWork
      <4> QED
        BY <2>4, <4>1 DEF Structure, TypeOK
    <3>2. k # p
      <4>1. GroupOf(d) = h /\ d.kind = "confirm"
        BY <2>0, AtHead
      <4> QED
        BY <1>0, <1>2, <2>1, <2>4, <4>1, PlayersGroup
    <3>3. f \in Elsewhere(d)
      BY <1>6, <2>1, <2>2, <3>2 DEF Elsewhere
    <3>4. Elsewhere(d) \subseteq work[h].replaced
      BY <3>1 DEF OneGame, RivalsAreKnown
    <3> QED
      BY <3>1, <3>3, <3>4
  <2> QED
    BY <2>3, <2>4
<1> QED
  BY <1>8, <1>9, <1>10 DEF OneGame

-----------------------------------------------------------------------------
\* The answer, which lets the next command come to the head

LEMMA ReplyEffect ==
    ASSUME Structure, NEW g \in Groups, Reply(g)
    PROVE  /\ queue[g] # <<>>
           /\ \A h \in Groups \ {g} : queue'[h] = queue[h] /\ work'[h] = work[h]
           /\ work'[g] = Idle /\ work' \in [Groups -> Attempt]
           /\ queue'[g] \in Seq(Command) /\ Len(queue'[g]) = Len(queue[g]) - 1
           /\ \A i \in 1 .. Len(queue'[g]) :
                i + 1 \in 1 .. Len(queue[g]) /\ i + 1 > 1 /\ queue'[g][i] = queue[g][i + 1]
           /\ \A h \in Groups : \A i \in 1 .. Len(queue'[h]) :
                \E j \in 1 .. Len(queue[h]) : j >= i /\ queue'[h][i] = queue[h][j]
           /\ queue' = [queue EXCEPT ![g] = Tail(@)]
<1>1. queue[g] # <<>> /\ queue[g] \in Seq(Command)
  BY AtStep DEF Reply, At, Structure, TypeOK
<1>2. /\ queue' = [queue EXCEPT ![g] = Tail(@)] /\ work' = [work EXCEPT ![g] = Idle]
      /\ queue'[g] = Tail(queue[g])
      /\ \A h \in Groups \ {g} : queue'[h] = queue[h] /\ work'[h] = work[h]
      /\ work'[g] = Idle /\ work' \in [Groups -> Attempt]
  BY IdleType DEF Reply, Structure, TypeOK
<1>3. /\ Tail(queue[g]) \in Seq(Command) /\ Len(Tail(queue[g])) = Len(queue[g]) - 1
      /\ \A i \in 1 .. Len(Tail(queue[g])) : Tail(queue[g])[i] = queue[g][i + 1]
  <2>1. \A i \in 1 .. Len(Tail(queue[g])) : Tail(queue[g])[i] = queue[g][i + 1]
    BY <1>1, HeadTailProperties
  <2> QED
    BY <1>1, <2>1, HeadTailProperties
<1>4. \A i \in 1 .. Len(queue'[g]) :
          i + 1 \in 1 .. Len(queue[g]) /\ i + 1 > 1 /\ queue'[g][i] = queue[g][i + 1]
  <2> DEFINE s == queue[g]
             t == Tail(queue[g])
  <2>1. Len(s) \in Nat /\ Len(t) = Len(s) - 1
    BY <1>1, <1>3, LenProperties
  <2>2. \A i \in 1 .. Len(t) : t[i] = s[i + 1]
    BY <1>3
  <2> HIDE DEF s, t
  <2>3. \A i \in 1 .. Len(t) : i + 1 \in 1 .. Len(s) /\ i + 1 > 1 /\ t[i] = s[i + 1]
    BY <2>1, <2>2
  <2> QED
    BY <1>2, <2>3 DEF s, t
<1>5. \A h \in Groups : \A i \in 1 .. Len(queue'[h]) :
          \E j \in 1 .. Len(queue[h]) : j >= i /\ queue'[h][i] = queue[h][j]
  <2> SUFFICES ASSUME NEW h \in Groups, NEW i \in 1 .. Len(queue'[h])
               PROVE  \E j \in 1 .. Len(queue[h]) : j >= i /\ queue'[h][i] = queue[h][j]
    OBVIOUS
  <2>1. CASE h = g
    BY <1>4, <2>1
  <2>2. CASE h # g
    BY <1>2, <2>2
  <2> QED
    BY <2>1, <2>2
<1> QED
  BY <1>1, <1>2, <1>3, <1>4, <1>5

\* The next command has left nothing behind yet.
LEMMA ReplyStructure ==
    ASSUME Structure, NEW g \in Groups, Reply(g)
    PROVE  Structure'
<1>1. /\ \A h \in Groups \ {g} : queue'[h] = queue[h] /\ work'[h] = work[h]
      /\ work'[g] = Idle /\ work' \in [Groups -> Attempt]
      /\ queue'[g] \in Seq(Command) /\ Len(queue'[g]) = Len(queue[g]) - 1
      /\ \A i \in 1 .. Len(queue'[g]) :
             i + 1 \in 1 .. Len(queue[g]) /\ i + 1 > 1 /\ queue'[g][i] = queue[g][i + 1]
      /\ \A h \in Groups : \A i \in 1 .. Len(queue'[h]) :
             \E j \in 1 .. Len(queue[h]) : j >= i /\ queue'[h][i] = queue[h][j]
      /\ queue' = [queue EXCEPT ![g] = Tail(@)]
  BY ReplyEffect
<1>2. UNCHANGED <<games, rows, published, crashes, applied>>
  BY DEF Reply, history
<1>3. TypeOK'
  <2>1. queue' \in [Groups -> Seq(Command)]
    BY <1>1 DEF Structure, TypeOK
  <2>2. \A h \in Groups : \A i \in 1 .. Len(queue'[h]) : GroupOf(queue'[h][i]) = h
    <3> SUFFICES ASSUME NEW h \in Groups, NEW i \in 1 .. Len(queue'[h])
                 PROVE  GroupOf(queue'[h][i]) = h
      OBVIOUS
    <3>1. PICK j \in 1 .. Len(queue[h]) : queue'[h][i] = queue[h][j]
      BY <1>1
    <3>2. GroupOf(queue[h][j]) = h
      BY DEF Structure, TypeOK
    <3> QED
      BY <3>1, <3>2
  <2>3. \A h \in Groups : work'[h].todo # <<>> => queue'[h] # <<>>
    BY <1>1, IdleType DEF Structure, TypeOK
  <2> QED
    BY <1>1, <1>2, <2>1, <2>2, <2>3 DEF Structure, TypeOK, GroupOf, Key
<1>4. \A op : Fresh(op) => Fresh(op)'
  BY <1>2 DEF Fresh
<1>5. QueuesSound'
  <2>1. ASSUME NEW h \in Groups, NEW i \in 1 .. Len(queue'[h]), NEW d, d = queue'[h][i]
        PROVE  WellFormed(d) /\ d.op <= published /\ (i > 1 => Fresh(d.op)')
    <3>1. PICK j \in 1 .. Len(queue[h]) : j >= i /\ d = queue[h][j]
      BY <1>1, <2>1
    <3>2. WellFormed(d) /\ d.op <= published /\ (j > 1 => Fresh(d.op))
      BY <3>1 DEF Structure, QueuesSound
    <3> QED
      BY <1>4, <3>1, <3>2
  <2>2. ASSUME NEW h \in Groups, NEW i \in 1 .. Len(queue'[h])
        PROVE  WellFormed(queue[h][i])' /\ queue'[h][i].op <= published' /\ (i > 1 => Fresh(queue[h][i].op)')
    <3>1. WellFormed(queue'[h][i]) /\ queue'[h][i].op <= published
      BY <2>1
    <3>2. i > 1 => Fresh(queue[h][i].op)'
      BY <2>1 DEF Fresh
    <3> QED
      BY <1>2, <3>1, <3>2 DEF WellFormed
  <2> QED
    BY <2>2 DEF QueuesSound
<1>6. OpsDiffer'
  <2> SUFFICES ASSUME NEW h \in Groups, NEW k \in Groups,
                      NEW i \in 1 .. Len(queue'[h]), NEW j \in 1 .. Len(queue'[k]),
                      queue'[h][i].op = queue'[k][j].op
               PROVE  h = k /\ i = j
    BY DEF OpsDiffer
  <2>1. CASE h = g /\ k = g
    <3>1. i + 1 = j + 1
      BY <1>1, <2>1 DEF Structure, OpsDiffer
    <3> QED
      BY <2>1, <3>1
  <2>2. CASE h = g /\ k # g
    BY <1>1, <2>2 DEF Structure, OpsDiffer
  <2>3. CASE h # g /\ k = g
    BY <1>1, <2>3 DEF Structure, OpsDiffer
  <2>4. CASE h # g /\ k # g
    BY <1>1, <2>4 DEF Structure, OpsDiffer
  <2> QED
    BY <2>1, <2>2, <2>3, <2>4
<1>7. OpsToCome'
  BY <1>2, <1>4 DEF Structure, OpsToCome
<1>8. EndsWithReply'
  BY <1>1, IdleType DEF Structure, EndsWithReply
<1> QED
  BY <1>3, <1>5, <1>6, <1>7, <1>8 DEF Structure

LEMMA ReplyOneGame ==
    ASSUME Structure, OneGame, NEW g \in Groups, Reply(g)
    PROVE  OneGame'
<1>1. /\ queue[g] # <<>>
      /\ \A h \in Groups \ {g} : queue'[h] = queue[h] /\ work'[h] = work[h]
      /\ work'[g] = Idle
      /\ \A h \in Groups : \A i \in 1 .. Len(queue'[h]) :
             \E j \in 1 .. Len(queue[h]) : j >= i /\ queue'[h][i] = queue[h][j]
  BY ReplyEffect
<1>2. games' = games /\ rows' = rows
  BY DEF Reply
<1>3. OneConfirmedPerDate'
  BY <1>2 DEF OneGame, OneConfirmedPerDate, ConfirmedIn, Live, Conflict
<1>4. GivenUp'
  <2> SUFFICES ASSUME NEW h \in Groups, NEW i \in 1 .. Len(queue'[h]), queue'[h][i].kind = "confirm",
                      NEW f \in Events \ {queue'[h][i].event}, NEW p \in Players,
                      rows[f][p].op = queue'[h][i].op
               PROVE  rows[f][p].status # "confirmed"
    BY <1>2 DEF GivenUp
  <2>1. PICK j \in 1 .. Len(queue[h]) : queue'[h][i] = queue[h][j]
    BY <1>1
  <2> QED
    BY <2>1 DEF OneGame, GivenUp
<1>5. RivalsAreKnown'
  <2> SUFFICES ASSUME NEW h \in Groups, Pending(work'[h], "write"), CommandAt(h)'.kind = "confirm"
               PROVE  Elsewhere(CommandAt(h))' \subseteq work'[h].replaced
    BY DEF RivalsAreKnown, Pending
  <2>1. h # g
    <3>1. \A i \in 1 .. Len(Idle.todo) : FALSE
      BY IdleType, EmptySeq
    <3> QED
      BY <1>1, <3>1 DEF Pending
  <2>2. CommandAt(h)' = CommandAt(h) /\ work'[h] = work[h]
    BY <1>1, <2>1 DEF CommandAt
  <2>3. Elsewhere(CommandAt(h))' = Elsewhere(CommandAt(h))
    BY <1>2, <2>2 DEF Elsewhere, ConfirmedIn, Live, Conflict, Key
  <2> QED
    BY <2>2, <2>3 DEF OneGame, RivalsAreKnown
<1> QED
  BY <1>3, <1>4, <1>5 DEF OneGame

-----------------------------------------------------------------------------
\* Publishing

LEMMA PublishedCommand ==
    ASSUME NEW op \in 1 .. MaxOps, NEW c \in Commands(op)
    PROVE  c \in Command /\ c.op = op /\ WellFormed(c) /\ GroupOf(c) \in Groups
<1>1. \/ \E r \in SUBSET Events, k \in Kinds \cap (ByPlayer \cup ByTarget), e \in Events, p \in Players :
             c = [op |-> op, kind |-> k, event |-> e, player |-> {p}, replaced |-> r, amount |-> 0]
      \/ \E k \in Kinds \cap (ByMaster \ {"amount"}), e \in Events :
             c = [op |-> op, kind |-> k, event |-> e, player |-> {}, replaced |-> {}, amount |-> 0]
      \/ \E k \in Kinds \cap {"amount"}, e \in Events, a \in Amounts :
             c = [op |-> op, kind |-> k, event |-> e, player |-> {}, replaced |-> {}, amount |-> a]
  <2> DEFINE OfPlayer(k, e, p) ==
               {[op |-> op, kind |-> k, event |-> e, player |-> {p}, replaced |-> r, amount |-> 0] :
                   r \in Replaceable(k, e, p)}
             OfPlayers == UNION {OfPlayer(k, e, p) :
                   k \in Kinds \cap (ByPlayer \cup ByTarget), e \in Events, p \in Players}
             OfMasters == {[op |-> op, kind |-> k, event |-> e, player |-> {}, replaced |-> {}, amount |-> 0] :
                   k \in Kinds \cap (ByMaster \ {"amount"}), e \in Events}
             OfAmounts == {[op |-> op, kind |-> k, event |-> e, player |-> {}, replaced |-> {}, amount |-> a] :
                   k \in Kinds \cap {"amount"}, e \in Events, a \in Amounts}
  <2>1. \A k, e, p : Replaceable(k, e, p) \subseteq SUBSET Events
    BY DEF Replaceable, ConfirmedIn
  <2>2. c \in OfPlayers \/ c \in OfMasters \/ c \in OfAmounts
    <3>1. Commands(op) = OfPlayers \cup OfMasters \cup OfAmounts
      BY DEF Commands
    <3> HIDE DEF OfPlayers, OfMasters, OfAmounts
    <3> QED
      BY <3>1
  <2>3. CASE c \in OfPlayers
    <3>1. PICK k \in Kinds \cap (ByPlayer \cup ByTarget), e \in Events, p \in Players : c \in OfPlayer(k, e, p)
      <4> HIDE DEF OfPlayer
      <4> QED
        BY <2>3
    <3>2. PICK r \in Replaceable(k, e, p) :
             c = [op |-> op, kind |-> k, event |-> e, player |-> {p}, replaced |-> r, amount |-> 0]
      BY <3>1
    <3>3. r \in SUBSET Events
      BY <2>1
    <3> QED
      BY <3>2, <3>3
  <2>4. CASE c \in OfMasters
    BY <2>4
  <2>5. CASE c \in OfAmounts
    BY <2>5
  <2> HIDE DEF OfPlayers, OfMasters, OfAmounts
  <2> QED
    BY <2>2, <2>3, <2>4, <2>5
<1>2. CASE \E r \in SUBSET Events, k \in Kinds \cap (ByPlayer \cup ByTarget), e \in Events, p \in Players :
             c = [op |-> op, kind |-> k, event |-> e, player |-> {p}, replaced |-> r, amount |-> 0]
  <2>1. PICK r \in SUBSET Events, k \in Kinds \cap (ByPlayer \cup ByTarget), e \in Events, p \in Players :
             c = [op |-> op, kind |-> k, event |-> e, player |-> {p}, replaced |-> r, amount |-> 0]
    BY <1>2
  <2>2. /\ c.op = op /\ c.kind = k /\ c.event = e /\ c.player = {p} /\ c.replaced = r /\ c.amount = 0
        /\ c \in Command
    BY <2>1 DEF Command
  <2>3. c.kind # "amount"
    BY <2>2 DEF ByPlayer, ByTarget
  <2>4. WellFormed(c)
    BY <2>2, <2>3 DEF WellFormed
  <2>5. c.kind = "confirm" => Key(c) \in Players
    BY <2>2 DEF Key
  <2> QED
    BY <2>2, <2>4, <2>5 DEF GroupOf, Groups
<1>3. CASE \E k \in Kinds \cap (ByMaster \ {"amount"}), e \in Events :
             c = [op |-> op, kind |-> k, event |-> e, player |-> {}, replaced |-> {}, amount |-> 0]
  <2>1. PICK k \in Kinds \cap (ByMaster \ {"amount"}), e \in Events :
             c = [op |-> op, kind |-> k, event |-> e, player |-> {}, replaced |-> {}, amount |-> 0]
    BY <1>3
  <2>2. c.op = op /\ c.kind = k /\ c.event = e /\ c \in Command
    BY <2>1 DEF Command
  <2>3. c.kind \notin ByPlayer \cup ByTarget \cup {"amount"}
    BY <2>2 DEF ByPlayer, ByTarget, ByMaster
  <2> QED
    BY <2>2, <2>3 DEF GroupOf, Groups, WellFormed, ByPlayer
<1>4. CASE \E k \in Kinds \cap {"amount"}, e \in Events, a \in Amounts :
             c = [op |-> op, kind |-> k, event |-> e, player |-> {}, replaced |-> {}, amount |-> a]
  <2>1. PICK k \in Kinds \cap {"amount"}, e \in Events, a \in Amounts :
             c = [op |-> op, kind |-> k, event |-> e, player |-> {}, replaced |-> {}, amount |-> a]
    BY <1>4
  <2>2. c.op = op /\ c.kind = "amount" /\ c.event = e /\ c.amount = a /\ c \in Command
    BY <2>1 DEF Command
  <2>3. c.kind \notin ByPlayer \cup ByTarget
    BY <2>2 DEF ByPlayer, ByTarget
  <2> QED
    BY <2>2, <2>3 DEF GroupOf, Groups, WellFormed
<1> QED
  BY <1>1, <1>2, <1>3, <1>4

\* A published command goes to the end of its group, with an operation id that
\* no record holds.
LEMMA PublishEffect ==
    ASSUME Structure, Publish
    PROVE  /\ UNCHANGED <<games, rows, work, applied, crashes>> /\ published' = published + 1
           /\ published + 1 \in 1 .. MaxOps /\ Fresh(published + 1)
           /\ \E c \in Command :
                /\ c.op = published + 1 /\ WellFormed(c) /\ GroupOf(c) \in Groups
                /\ queue' = [queue EXCEPT ![GroupOf(c)] = Append(@, c)]
                /\ queue' \in [Groups -> Seq(Command)]
                /\ \A g \in Groups : \A i \in 1 .. Len(queue'[g]) :
                     \/ i \in 1 .. Len(queue[g]) /\ queue'[g][i] = queue[g][i]
                     \/ g = GroupOf(c) /\ i = Len(queue[g]) + 1 /\ queue'[g][i] = c
                /\ \A g \in Groups : queue[g] # <<>> => CommandAt(g)' = CommandAt(g)
                /\ \A g \in Groups : queue[g] # <<>> => queue'[g] # <<>>
<1>1. /\ UNCHANGED <<games, rows, work, applied, crashes>> /\ published' = published + 1
      /\ published < MaxOps
  BY DEF Publish, history
<1>2. published \in 0 .. MaxOps /\ MaxOps \in Nat
  BY OrderedMutationsAssumption DEF Structure, TypeOK
<1>3. published + 1 \in 1 .. MaxOps /\ published + 1 \in published + 1 .. MaxOps
  BY <1>1, <1>2
<1>4. Fresh(published + 1)
  BY <1>3 DEF Structure, OpsToCome
<1>5. PICK c \in Commands(published + 1) : queue' = [queue EXCEPT ![GroupOf(c)] = Append(@, c)]
  BY DEF Publish
<1>6. c \in Command /\ c.op = published + 1 /\ WellFormed(c) /\ GroupOf(c) \in Groups
  BY <1>3, <1>5, PublishedCommand
<1> DEFINE h == GroupOf(c)
<1>7. queue \in [Groups -> Seq(Command)] /\ queue[h] \in Seq(Command)
  BY <1>6 DEF Structure, TypeOK
<1> HIDE DEF h
<1>8. /\ Append(queue[h], c) \in Seq(Command) /\ Len(Append(queue[h], c)) = Len(queue[h]) + 1
      /\ \A i \in 1 .. Len(queue[h]) : Append(queue[h], c)[i] = queue[h][i]
      /\ Append(queue[h], c)[Len(queue[h]) + 1] = c
      /\ Len(queue[h]) \in Nat
  BY <1>6, <1>7, AppendProperties, LenProperties
<1>9. /\ queue'[h] = Append(queue[h], c) /\ \A g \in Groups \ {h} : queue'[g] = queue[g]
      /\ queue' \in [Groups -> Seq(Command)]
  BY <1>5, <1>6, <1>7, <1>8 DEF h
<1>10. ASSUME NEW g \in Groups, NEW i \in 1 .. Len(queue'[g])
       PROVE  \/ i \in 1 .. Len(queue[g]) /\ queue'[g][i] = queue[g][i]
              \/ g = h /\ i = Len(queue[g]) + 1 /\ queue'[g][i] = c
  <2>1. CASE g = h
    <3> DEFINE n == Len(queue[h])
    <3>1. n \in Nat /\ i \in 1 .. n + 1
      BY <1>8, <1>9, <1>10, <2>1
    <3> HIDE DEF n
    <3>2. i \in 1 .. n \/ i = n + 1
      BY <3>1
    <3> QED
      BY <1>8, <1>9, <2>1, <3>2 DEF n
  <2>2. CASE g # h
    BY <1>9, <1>10, <2>2
  <2> QED
    BY <2>1, <2>2
<1>11. ASSUME NEW g \in Groups, queue[g] # <<>>
       PROVE  Head(queue'[g]) = Head(queue[g]) /\ queue'[g] # <<>>
  <2>1. CASE g = h
    <3> DEFINE s == queue[h]
               t == queue'[h]
    <3>1. s \in Seq(Command) /\ s # <<>> /\ t \in Seq(Command) /\ Len(s) \in Nat /\ Len(t) = Len(s) + 1
          /\ \A i \in 1 .. Len(s) : t[i] = s[i]
      BY <1>7, <1>8, <1>9, <1>11, <2>1
    <3> HIDE DEF s, t
    <3>2. Len(s) # 0
      BY <3>1, EmptySeq
    <3>3. 1 \in 1 .. Len(s) /\ t[1] = s[1] /\ t # <<>>
      BY <3>1, <3>2, EmptySeq
    <3>4. Head(s) = s[1] /\ Head(t) = t[1]
      BY <3>1, <3>3
    <3> QED
      BY <2>1, <3>3, <3>4 DEF s, t
  <2>2. CASE g # h
    BY <1>9, <1>11, <2>2
  <2> QED
    BY <2>1, <2>2
<1>12. /\ queue' = [queue EXCEPT ![GroupOf(c)] = Append(@, c)]
       /\ \A g \in Groups : queue[g] # <<>> => CommandAt(g)' = CommandAt(g)
  BY <1>5, <1>11 DEF CommandAt
<1> QED
  BY <1>1, <1>3, <1>4, <1>6, <1>9, <1>10, <1>11, <1>12 DEF h

LEMMA PublishStructure ==
    ASSUME Structure, Publish
    PROVE  Structure'
<1>1. /\ UNCHANGED <<games, rows, work, applied, crashes>> /\ published' = published + 1
      /\ published + 1 \in 1 .. MaxOps /\ Fresh(published + 1)
  BY PublishEffect
<1>2. PICK c \in Command :
          /\ c.op = published + 1 /\ WellFormed(c) /\ GroupOf(c) \in Groups
          /\ queue' \in [Groups -> Seq(Command)]
          /\ \A g \in Groups : \A i \in 1 .. Len(queue'[g]) :
               \/ i \in 1 .. Len(queue[g]) /\ queue'[g][i] = queue[g][i]
               \/ g = GroupOf(c) /\ i = Len(queue[g]) + 1 /\ queue'[g][i] = c
          /\ \A g \in Groups : queue[g] # <<>> => queue'[g] # <<>>
  BY PublishEffect
<1>3. published \in Nat /\ published' \in 0 .. MaxOps
  BY <1>1, OrderedMutationsAssumption DEF Structure, TypeOK
<1>4. TypeOK'
  <2>1. ASSUME NEW g \in Groups, NEW i \in 1 .. Len(queue'[g])
        PROVE  GroupOf(queue'[g][i]) = g
    <3>1. CASE i \in 1 .. Len(queue[g]) /\ queue'[g][i] = queue[g][i]
      BY <3>1 DEF Structure, TypeOK
    <3>2. CASE g = GroupOf(c) /\ queue'[g][i] = c
      BY <3>2
    <3> QED
      BY <1>2, <3>1, <3>2
  <2>2. \A g \in Groups : work'[g].todo # <<>> => queue'[g] # <<>>
    BY <1>1, <1>2 DEF Structure, TypeOK
  <2> QED
    BY <1>1, <1>2, <1>3, <2>1, <2>2 DEF Structure, TypeOK, GroupOf, Key
<1>5. \A op : Fresh(op) => Fresh(op)'
  BY <1>1 DEF Fresh
<1>6. QueuesSound'
  <2>1. ASSUME NEW g \in Groups, NEW i \in 1 .. Len(queue'[g]), NEW d, d = queue'[g][i]
        PROVE  WellFormed(d) /\ d.op <= published + 1 /\ (i > 1 => Fresh(d.op)')
    <3>1. CASE i \in 1 .. Len(queue[g]) /\ d = queue[g][i]
      <4>1. WellFormed(d) /\ d.op <= published /\ (i > 1 => Fresh(d.op)) /\ d.op \in 1 .. MaxOps
        BY <3>1, QueuedType DEF Structure, QueuesSound
      <4> QED
        BY <1>3, <1>5, <4>1
    <3>2. CASE d = c
      BY <1>1, <1>2, <1>3, <1>5, <3>2
    <3> QED
      BY <1>2, <2>1, <3>1, <3>2
  <2>2. ASSUME NEW g \in Groups, NEW i \in 1 .. Len(queue'[g])
        PROVE  WellFormed(queue[g][i])' /\ queue'[g][i].op <= published' /\ (i > 1 => Fresh(queue[g][i].op)')
    <3>1. WellFormed(queue'[g][i]) /\ queue'[g][i].op <= published + 1
      BY <2>1
    <3>2. i > 1 => Fresh(queue[g][i].op)'
      BY <2>1 DEF Fresh
    <3> QED
      BY <1>1, <3>1, <3>2 DEF WellFormed
  <2> QED
    BY <2>2 DEF QueuesSound
<1>7. OpsDiffer'
  <2>1. ASSUME NEW g \in Groups, NEW i \in 1 .. Len(queue[g])
        PROVE  queue[g][i].op # c.op
    <3>1. queue[g][i].op \in 1 .. MaxOps /\ queue[g][i].op <= published
      BY QueuedType DEF Structure, QueuesSound
    <3> QED
      BY <1>2, <1>3, <3>1
  <2> SUFFICES ASSUME NEW g \in Groups, NEW h \in Groups,
                      NEW i \in 1 .. Len(queue'[g]), NEW j \in 1 .. Len(queue'[h]),
                      queue'[g][i].op = queue'[h][j].op
               PROVE  g = h /\ i = j
    BY DEF OpsDiffer
  <2>2. \/ i \in 1 .. Len(queue[g]) /\ queue'[g][i] = queue[g][i]
        \/ g = GroupOf(c) /\ i = Len(queue[g]) + 1 /\ queue'[g][i] = c
    BY <1>2
  <2>3. \/ j \in 1 .. Len(queue[h]) /\ queue'[h][j] = queue[h][j]
        \/ h = GroupOf(c) /\ j = Len(queue[h]) + 1 /\ queue'[h][j] = c
    BY <1>2
  <2>4. CASE /\ i \in 1 .. Len(queue[g]) /\ queue'[g][i] = queue[g][i]
             /\ j \in 1 .. Len(queue[h]) /\ queue'[h][j] = queue[h][j]
    <3>1. queue[g][i].op = queue[h][j].op
      BY <2>4
    <3> QED
      BY <2>4, <3>1 DEF Structure, OpsDiffer
  <2>5. CASE /\ i \in 1 .. Len(queue[g]) /\ queue'[g][i] = queue[g][i]
             /\ queue'[h][j] = c
    BY <2>1, <2>5
  <2>6. CASE /\ j \in 1 .. Len(queue[h]) /\ queue'[h][j] = queue[h][j]
             /\ queue'[g][i] = c
    BY <2>1, <2>6
  <2> QED
    BY <2>2, <2>3, <2>4, <2>5, <2>6
<1>8. OpsToCome'
  <2> SUFFICES ASSUME NEW op \in published' + 1 .. MaxOps PROVE Fresh(op)'
    BY DEF OpsToCome
  <2>1. op \in published + 1 .. MaxOps
    BY <1>1, <1>3, OrderedMutationsAssumption
  <2> QED
    BY <1>5, <2>1 DEF Structure, OpsToCome
<1>9. EndsWithReply'
  BY <1>1 DEF Structure, EndsWithReply
<1> QED
  BY <1>4, <1>6, <1>7, <1>8, <1>9 DEF Structure

LEMMA PublishOneGame ==
    ASSUME Structure, OneGame, Publish
    PROVE  OneGame'
<1>1. /\ UNCHANGED <<games, rows, work>>
      /\ published + 1 \in 1 .. MaxOps /\ Fresh(published + 1)
  BY PublishEffect
<1>2. PICK c \in Command :
          /\ c.op = published + 1
          /\ \A g \in Groups : \A i \in 1 .. Len(queue'[g]) :
               \/ i \in 1 .. Len(queue[g]) /\ queue'[g][i] = queue[g][i]
               \/ g = GroupOf(c) /\ i = Len(queue[g]) + 1 /\ queue'[g][i] = c
          /\ \A g \in Groups : queue[g] # <<>> => CommandAt(g)' = CommandAt(g)
  BY PublishEffect
<1>3. OneConfirmedPerDate'
  BY <1>1 DEF OneGame, OneConfirmedPerDate, ConfirmedIn, Live, Conflict
<1>4. GivenUp'
  <2> SUFFICES ASSUME NEW g \in Groups, NEW i \in 1 .. Len(queue'[g]), queue'[g][i].kind = "confirm",
                      NEW f \in Events \ {queue'[g][i].event}, NEW p \in Players,
                      rows[f][p].op = queue'[g][i].op
               PROVE  rows[f][p].status # "confirmed"
    BY <1>1 DEF GivenUp
  <2>1. CASE i \in 1 .. Len(queue[g]) /\ queue'[g][i] = queue[g][i]
    BY <2>1 DEF OneGame, GivenUp
  <2>2. CASE queue'[g][i] = c
    BY <1>1, <1>2, <2>2 DEF Fresh
  <2> QED
    BY <1>2, <2>1, <2>2
<1>5. RivalsAreKnown'
  <2> SUFFICES ASSUME NEW h \in Groups, Pending(work[h], "write"), CommandAt(h)'.kind = "confirm"
               PROVE  Elsewhere(CommandAt(h))' \subseteq work[h].replaced
    BY <1>1 DEF RivalsAreKnown, Pending
  <2>1. work[h].todo # <<>>
    BY EmptySeq DEF Pending
  <2>2. CommandAt(h)' = CommandAt(h)
    BY <1>2, <2>1, AtStep
  <2>3. Elsewhere(CommandAt(h))' = Elsewhere(CommandAt(h))
    BY <1>1, <2>2 DEF Elsewhere, ConfirmedIn, Live, Conflict, Key
  <2> QED
    BY <2>2, <2>3 DEF OneGame, RivalsAreKnown
<1> QED
  BY <1>3, <1>4, <1>5 DEF OneGame

-----------------------------------------------------------------------------
\* The theorems

LEMMA InitStructure == Init => Structure
<1> SUFFICES ASSUME Init PROVE Structure
  OBVIOUS
<1>1. /\ games \in [Events -> {NewGame(a) : a \in Amounts}] /\ rows \in [Events -> StartRows]
      /\ queue = [g \in Groups |-> <<>>] /\ work = [g \in Groups |-> Idle]
      /\ published = 0 /\ crashes = 0 /\ applied = {}
  BY DEF Init
<1>2. ASSUME NEW a \in Amounts
      PROVE  NewGame(a) \in Game /\ NewGame(a).removal.op = NoOperation
  <2>1. [op |-> NoOperation, keys |-> {}, done |-> FALSE] \in Promotion
    BY OrderedMutationsAssumption DEF Promotion
  <2>2. [op |-> NoOperation, entries |-> {}, done |-> {}] \in Removal
    BY OrderedMutationsAssumption DEF Removal
  <2>3. a \in Nat /\ StartStatus \in GameStatuses
    BY OrderedMutationsAssumption
  <2> QED
    BY <2>1, <2>2, <2>3 DEF NewGame, Game
<1>3. games \in [Events -> Game] /\ \A e \in Events : games[e].removal.op = NoOperation
  BY <1>1, <1>2
<1>4. rows \in [Events -> Rows] /\ \A e \in Events, p \in Players : rows[e][p].op = NoOperation
  BY <1>1, OrderedMutationsAssumption
<1>5. \A g \in Groups : queue[g] = <<>> /\ Len(queue[g]) = 0 /\ work[g] = Idle
  BY <1>1, EmptySeq
<1>6. TypeOK
  <2>1. queue \in [Groups -> Seq(Command)] /\ work \in [Groups -> Attempt]
    BY <1>1, IdleType, EmptySeq
  <2>2. published \in 0 .. MaxOps /\ crashes \in 0 .. MaxCrashes
    BY <1>1, OrderedMutationsAssumption
  <2> QED
    BY <1>3, <1>4, <1>5, <2>1, <2>2, IdleType DEF TypeOK
<1>7. QueuesSound /\ OpsDiffer
  BY <1>5 DEF QueuesSound, OpsDiffer
<1>8. OpsToCome
  BY <1>1, <1>3, <1>4, OrderedMutationsAssumption DEF OpsToCome, Fresh
<1>9. EndsWithReply
  BY <1>5, IdleType DEF EndsWithReply
<1> QED
  BY <1>6, <1>7, <1>8, <1>9 DEF Structure

LEMMA InitOneGame == Init => OneGame
<1> SUFFICES ASSUME Init PROVE OneGame
  OBVIOUS
<1>1. /\ OneConfirmedPerDate
      /\ queue = [g \in Groups |-> <<>>] /\ work = [g \in Groups |-> Idle]
  BY DEF Init
<1>2. \A g \in Groups : Len(queue[g]) = 0 /\ Len(work[g].todo) = 0
  BY <1>1, EmptySeq, IdleType
<1>3. GivenUp
  BY <1>2 DEF GivenUp
<1>4. RivalsAreKnown
  BY <1>2 DEF RivalsAreKnown, Pending
<1> QED
  BY <1>1, <1>3, <1>4 DEF OneGame

\* Every step of an attempt but the confirmation's write and the answer.
LEMMA StepEffect ==
    ASSUME Structure, NEW g \in Groups, Step(g) \/ Fail(g), ~WriteConfirm(g), ~Reply(g)
    PROVE  queue[g] # <<>> /\ \E a \in Attempt : Effect(g, a)
<1>1. CASE Load(g)
  BY <1>1, LoadEffect
<1>2. CASE RecordRemoval(g)
  BY <1>2, RecordRemovalEffect
<1>3. CASE RecordReserve(g) \/ RecordLink(g)
  BY <1>3, RecordPromotionsEffect
<1>4. CASE Look(g)
  BY <1>4, LookEffect
<1>5. CASE Write(g)
  BY <1>5, RowWriteEffect, GameWriteEffect DEF Write
<1>6. CASE TellReserve(g) \/ TellLink(g)
  BY <1>6, TellEffect
<1>7. CASE Read(g)
  BY <1>7, ReadNoticesEffect
<1>8. CASE Send(g)
  BY <1>8, SendEffect
<1>9. CASE AllSent(g)
  BY <1>9, AllSentEffect
<1>10. CASE LoseGame(g) \/ Fail(g)
  BY <1>10, GiveUpEffect
<1> QED
  BY <1>1, <1>2, <1>3, <1>4, <1>5, <1>6, <1>7, <1>8, <1>9, <1>10 DEF Step

LEMMA StutterKeeps ==
    ASSUME UNCHANGED vars
    PROVE  (Structure => Structure') /\ (OneGame => OneGame')
<1>1. Structure => Structure'
  <2>1. TypeOK => TypeOK'
    BY DEF vars, TypeOK, GroupOf, Key
  <2>2. \A op : Fresh(op) => Fresh(op)'
    BY DEF vars, Fresh
  <2>3. QueuesSound => QueuesSound'
    <3> SUFFICES ASSUME QueuesSound, NEW g \in Groups, NEW i \in 1 .. Len(queue[g])
                 PROVE  /\ WellFormed(queue[g][i])' /\ queue[g][i].op <= published
                        /\ i > 1 => Fresh(queue[g][i].op)'
      BY DEF vars, QueuesSound
    <3> QED
      BY DEF vars, QueuesSound, WellFormed, Fresh
  <2>4. (OpsDiffer => OpsDiffer') /\ (EndsWithReply => EndsWithReply')
    BY DEF vars, OpsDiffer, EndsWithReply
  <2>5. OpsToCome => OpsToCome'
    BY <2>2 DEF vars, OpsToCome
  <2> QED
    BY <2>1, <2>3, <2>4, <2>5 DEF Structure
<1>2. OneGame => OneGame'
  BY DEF vars, OneGame, OneConfirmedPerDate, GivenUp, RivalsAreKnown, ConfirmedIn, Live, Elsewhere,
         Conflict, Key, CommandAt, Pending
<1> QED
  BY <1>1, <1>2

LEMMA NextStructure == Structure /\ [Next]_vars => Structure'
<1> SUFFICES ASSUME Structure, [Next]_vars PROVE Structure'
  OBVIOUS
<1>1. CASE Publish
  BY <1>1, PublishStructure
<1>2. ASSUME NEW g \in Groups, Step(g) \/ Fail(g)
      PROVE  Structure'
  <2>1. CASE WriteConfirm(g)
    BY <2>1, ConfirmStructure
  <2>2. CASE Reply(g)
    BY <2>2, ReplyStructure
  <2>3. CASE ~WriteConfirm(g) /\ ~Reply(g)
    BY <1>2, <2>3, StepEffect, EffectStructure
  <2> QED
    BY <2>1, <2>2, <2>3
<1>3. CASE UNCHANGED vars
  BY <1>3, StutterKeeps
<1> QED
  BY <1>1, <1>2, <1>3 DEF Next, Done

LEMMA NextOneGame ==
    ASSUME "unarchive" \notin Kinds, Structure, OneGame, [Next]_vars
    PROVE  OneGame'
<1>1. CASE Publish
  BY <1>1, PublishOneGame
<1>2. ASSUME NEW g \in Groups, Step(g) \/ Fail(g)
      PROVE  OneGame'
  <2>1. CASE WriteConfirm(g)
    BY <2>1, ConfirmOneGame
  <2>2. CASE Reply(g)
    BY <2>2, ReplyOneGame
  <2>3. CASE ~WriteConfirm(g) /\ ~Reply(g)
    BY <1>2, <2>3, StepEffect, EffectOneGame
  <2> QED
    BY <2>1, <2>2, <2>3
<1>3. CASE UNCHANGED vars
  BY <1>3, StutterKeeps
<1> QED
  BY <1>1, <1>2, <1>3 DEF Next, Done

\* Whatever the commands, the attempts that fail and the order in which the
\* groups go on: commands keep to the group that queue_group_id names, in the
\* order of their operation ids, and no record of an operation exists before its
\* command has come to the head.
THEOREM Structured == Spec => []Structure
<1> QED
  BY InitStructure, NextStructure, PTL DEF Spec

\* A player has never confirmed two games of one date whose confirmation times
\* conflict, while no master takes a game out of the archive: confirmations of
\* one player are ordered, and the one that is written gives up, in the same
\* transaction, every rival its attempt has read, also when it is repeated.
THEOREM OneConfirmation ==
    ASSUME "unarchive" \notin Kinds
    PROVE  Spec => []OneConfirmedPerDate
<1>1. Init => Structure /\ OneGame
  BY InitStructure, InitOneGame
<1>2. Structure /\ OneGame /\ [Next]_vars => (Structure /\ OneGame)'
  BY NextStructure, NextOneGame
<1>3. OneGame => OneConfirmedPerDate
  BY DEF OneGame
<1> QED
  BY <1>1, <1>2, <1>3, PTL DEF Spec

-----------------------------------------------------------------------------
\* One FIFO group per game: the commands of a game while confirmations,

\* which have groups of their own, are left out

LEMMA RejectedIsRefused ==
    ASSUME NEW c, c.kind # "confirm"
    PROVE  /\ Refused(c) <=> Rejected(c, games[c.event], rows[c.event])
           /\ AlreadySwapped(c) <=> Swapped(c, games[c.event], rows[c.event])
BY DEF Refused, Rejected, EnlistRefused, PromoteRefused, AlreadySwapped, Swapped, RowOf, GameOf, Up

\* What is left of a plan when its first step has been made.
LEMMA RestOfPlan ==
    ASSUME NEW w \in Attempt, w.todo # <<>>, NEW a \in Attempt, a.todo = Tail(w.todo)
    PROVE  /\ \A step : Pending(a, step) => Pending(w, step)
           /\ \A step : Pending(w, step) => Pending(a, step) \/ Head(w.todo) = step
           /\ Pending(w, Head(w.todo))
           /\ WritesInOrder(w.todo) => WritesInOrder(a.todo)
<1> DEFINE s == w.todo
           t == a.todo
<1>1. s \in Seq(Steps) /\ Len(s) \in Nat /\ Len(s) # 0 /\ Head(s) = s[1] /\ t = Tail(s)
  BY EmptySeq, HeadTailProperties, LenProperties DEF Attempt
<1>2. Len(t) = Len(s) - 1 /\ \A i \in 1 .. Len(t) : t[i] = s[i + 1]
  BY <1>1, HeadTailProperties
<1> HIDE DEF s, t
<1>3. \A i \in 1 .. Len(t) : i + 1 \in 1 .. Len(s) /\ t[i] = s[i + 1]
  BY <1>1, <1>2
<1>4. \A i \in 1 .. Len(s) : i = 1 \/ (i - 1 \in 1 .. Len(t) /\ t[i - 1] = s[i])
  <2> SUFFICES ASSUME NEW i \in 1 .. Len(s), i # 1 PROVE i - 1 \in 1 .. Len(t) /\ t[i - 1] = s[i]
    OBVIOUS
  <2>1. i - 1 \in 1 .. Len(t) /\ i - 1 + 1 = i
    BY <1>1, <1>2
  <2> QED
    BY <1>2, <2>1
<1>5. WritesInOrder(s) => WritesInOrder(t)
  <2> SUFFICES ASSUME WritesInOrder(s), NEW i \in 1 .. Len(t), NEW j \in 1 .. Len(t), t[j] = "write"
               PROVE  /\ t[i] = "write" => i = j
                      /\ t[i] \in {"removal", "look"} => i < j
                      /\ t[i] \in {"read", "send"} => j < i
    BY DEF WritesInOrder
  <2>1. /\ s[i + 1] = "write" => i + 1 = j + 1
        /\ s[i + 1] \in {"removal", "look"} => i + 1 < j + 1
        /\ s[i + 1] \in {"read", "send"} => j + 1 < i + 1
    BY <1>3 DEF WritesInOrder
  <2> QED
    BY <1>3, <2>1
<1>6. \A step : (\E i \in 1 .. Len(t) : t[i] = step) => \E i \in 1 .. Len(s) : s[i] = step
  BY <1>3
<1>7. \A step : (\E i \in 1 .. Len(s) : s[i] = step) => (\E i \in 1 .. Len(t) : t[i] = step) \/ Head(s) = step
  BY <1>1, <1>4
<1>8. \E i \in 1 .. Len(s) : s[i] = Head(s)
  BY <1>1
<1> QED
  BY <1>5, <1>6, <1>7, <1>8 DEF Pending, s, t

\* Where a plan stands when its next step is the write, or comes after it.
LEMMA AroundTheWrite ==
    ASSUME NEW w \in Attempt, w.todo # <<>>, WritesInOrder(w.todo)
    PROVE  /\ Head(w.todo) = "write" => ~Pending(w, "removal") /\ ~Pending(w, "look")
           /\ Head(w.todo) \in {"read", "send"} => ~Pending(w, "write")
           /\ \A a \in Attempt : Head(w.todo) = "write" /\ a.todo = Tail(w.todo) => ~Pending(a, "write")
<1>1. /\ w.todo \in Seq(Steps) /\ Len(w.todo) \in Nat /\ Len(w.todo) # 0 /\ Head(w.todo) = w.todo[1]
      /\ 1 \in 1 .. Len(w.todo)
  BY EmptySeq, HeadTailProperties, LenProperties DEF Attempt
<1>2. Head(w.todo) = "write" => ~Pending(w, "removal") /\ ~Pending(w, "look")
  BY <1>1 DEF WritesInOrder, Pending
<1>3. Head(w.todo) \in {"read", "send"} => ~Pending(w, "write")
  BY <1>1 DEF WritesInOrder, Pending
<1>4. ASSUME NEW a \in Attempt, Head(w.todo) = "write", a.todo = Tail(w.todo), Pending(a, "write")
      PROVE  FALSE
  <2>1. /\ Len(Tail(w.todo)) = Len(w.todo) - 1
        /\ \A i \in 1 .. Len(Tail(w.todo)) : Tail(w.todo)[i] = w.todo[i + 1]
    BY <1>1, HeadTailProperties
  <2>2. PICK i \in 1 .. Len(Tail(w.todo)) : Tail(w.todo)[i] = "write"
    BY <1>4 DEF Pending
  <2>3. i + 1 \in 1 .. Len(w.todo) /\ w.todo[i + 1] = "write" /\ i + 1 # 1
    BY <1>1, <2>1, <2>2
  <2> QED
    BY <1>1, <1>4, <2>3 DEF WritesInOrder
<1> QED
  BY <1>2, <1>3, <1>4

\* A change of a game's row that no command waiting for the game sees: another
\* notice or promotion record, but the operation's own snapshot only grows.
Mild(c, game, after) ==
    /\ after.exists = game.exists /\ after.archived = game.archived
    /\ after.status = game.status /\ after.amount = game.amount
    /\ game.removal.op = c.op => after.removal.op = c.op /\ game.removal.entries \subseteq after.removal.entries

LEMMA MildKeepsVerdict ==
    ASSUME NEW c, NEW game, NEW after, NEW r, Mild(c, game, after)
    PROVE  /\ Swapped(c, game, r) => Swapped(c, after, r)
           /\ Rejected(c, after, r) => Rejected(c, game, r)
           /\ Recorded(c, game) => Recorded(c, after)
<1>1. Swapped(c, game, r) => Swapped(c, after, r)
  BY DEF Mild, Swapped, Current
<1>2. Rejected(c, after, r) => Rejected(c, game, r)
  BY <1>1 DEF Mild, Rejected
<1> QED
  BY <1>1, <1>2 DEF Mild, Recorded

\* A step of an attempt that leaves the registrations alone.
LEMMA QuietStepInTurn ==
    ASSUME NEW c, NEW w, NEW game, NEW r, NEW effective, InTurn(c, w, game, r, effective),
           w.todo # <<>>, Head(w.todo) # "reply", NEW after, Mild(c, game, after), NEW a,
           a.refused = w.refused, a.mate = w.mate, a.mateTime = w.mateTime,
           \A step : Pending(a, step) => Pending(w, step),
           WritesInOrder(w.todo) => WritesInOrder(a.todo),
           c.kind # "sift" => a.time = w.time,
           c.kind = "sift" /\ Pending(a, "write") =>
               \/ Pending(a, "look") \/ (~Pending(w, "look") /\ a.time = w.time)
               \/ a.time \in Times /\ IsShift(r, a.time),
           c.kind = "promote" /\ Pending(a, "write") =>
               /\ w.entries \subseteq a.entries
               /\ (Up(c) \in w.entries => Recorded(c, after)) \/ (Pending(w, "removal") => Pending(a, "removal"))
    PROVE  InTurn(c, a, after, r, effective)
<1>1. ~w.refused /\ ~a.refused
  <2>1. Head(<<"reply">>) = "reply"
    OBVIOUS
  <2> QED
    BY <2>1 DEF InTurn, Admitted
<1>2. /\ Swapped(c, game, r) => Swapped(c, after, r)
      /\ Rejected(c, after, r) => Rejected(c, game, r)
      /\ Recorded(c, game) => Recorded(c, after)
  BY MildKeepsVerdict
<1>3. Admitted(c, a, after, r, effective)
  BY <1>1, <1>2 DEF InTurn, Admitted
<1>4. Ready(c, a, after, r, effective)
  <2> SUFFICES ASSUME Pending(a, "write")
               PROVE  /\ c.kind \in {"enlist", "sift", "promote"} => WritesInOrder(a.todo)
                      /\ c.kind = "enlist" => EnlistReady(c, a, r)
                      /\ c.kind = "sift" => SiftReady(c, a, r)
                      /\ c.kind = "promote" => ~effective /\ PromoteReady(c, a, after, r)
    BY DEF Ready
  <2>1. /\ c.kind \in {"enlist", "sift", "promote"} => WritesInOrder(w.todo)
        /\ c.kind = "enlist" => EnlistReady(c, w, r)
        /\ c.kind = "sift" => SiftReady(c, w, r)
        /\ c.kind = "promote" => ~effective /\ PromoteReady(c, w, game, r)
    BY DEF InTurn, Ready
  <2>2. c.kind = "enlist" => EnlistReady(c, a, r)
    BY <2>1 DEF EnlistReady
  <2>3. c.kind = "sift" => SiftReady(c, a, r)
    BY <2>1 DEF SiftReady
  <2>4. c.kind = "promote" => PromoteReady(c, a, after, r)
    BY <1>2, <2>1 DEF PromoteReady, Mild
  <2> QED
    BY <2>1, <2>2, <2>3, <2>4
<1> QED
  BY <1>3, <1>4 DEF InTurn

-----------------------------------------------------------------------------
\* The other games

\* A step at the head of the queue of a game: it leaves the row `game` and the
\* registrations `r` of that game.
StepOf(g, a, game, r) ==
    LET c == CommandAt(g) IN
    /\ work' = [work EXCEPT ![g] = a] /\ queue' = queue
    /\ games' = [games EXCEPT ![c.event] = game] /\ rows' = [rows EXCEPT ![c.event] = r]
    /\ applied' = applied \/ applied' = applied \cup {c.op}
    /\ r # rows[c.event] => c.op \in applied'

LEMMA StepKeepsTurns ==
    ASSUME Structure, OneAtATime, "confirm" \notin Kinds, NEW g \in Groups, queue[g] # <<>>,
           NEW a, NEW game, NEW r, StepOf(g, a, game, r),
           InTurn(CommandAt(g), a, game, r, CommandAt(g).op \in applied'),
           DistinctTimes(r), Tame(rows[CommandAt(g).event], r, CommandAt(g).op)
    PROVE  OneAtATime'
<1> DEFINE c == CommandAt(g)
           e == c.event
<1>1. /\ c = queue[g][1] /\ 1 \in 1 .. Len(queue[g]) /\ e \in Events /\ c.kind # "confirm"
      /\ GroupOf(c) = g /\ c.op \in 1 .. MaxOps
  BY AtHead
<1>2. g = <<"event", e>>
  BY <1>1 DEF GroupOf
<1>3. /\ work'[g] = a /\ \A h \in Groups \ {g} : work'[h] = work[h]
      /\ rows'[e] = r /\ \A f \in Events \ {e} : rows'[f] = rows[f]
      /\ games'[e] = game /\ \A f \in Events \ {e} : games'[f] = games[f]
      /\ queue' = queue
      /\ applied \subseteq applied' /\ applied' \subseteq applied \cup {c.op}
      /\ r # rows[e] => c.op \in applied'
  BY <1>1 DEF StepOf, Structure, TypeOK
<1>4. QueueTimesDistinct'
  <2>1. ASSUME NEW f \in Events PROVE DistinctTimes(rows'[f])
    BY <1>3 DEF OneAtATime, QueueTimesDistinct
  <2> QED
    BY <2>1 DEF QueueTimesDistinct, DistinctTimes, Active
<1>5. MarksAreApplied'
  <2> SUFFICES ASSUME NEW f \in Events, NEW p \in Players, rows'[f][p].op # NoOperation
               PROVE  rows'[f][p].op \in applied'
    BY DEF MarksAreApplied
  <2>1. CASE rows'[f] = rows[f]
    BY <1>3, <2>1 DEF OneAtATime, MarksAreApplied
  <2>2. CASE rows'[f] # rows[f]
    <3>1. f = e /\ c.op \in applied'
      BY <1>3, <2>2
    <3>2. r[p].op \in {rows[e][p].op, c.op, NoOperation}
      BY DEF Tame
    <3> QED
      BY <1>3, <3>1, <3>2 DEF OneAtATime, MarksAreApplied
  <2> QED
    BY <2>1, <2>2
<1>6. ASSUME NEW h \in Groups, queue[h] # <<>>, NEW d, d = CommandAt(h)
      PROVE  InTurn(d, work'[h], games'[d.event], rows'[d.event], d.op \in applied')
  <2>1. CASE h = g
    BY <1>3, <1>6, <2>1
  <2>2. CASE h # g
    <3>1. /\ d = queue[h][1] /\ 1 \in 1 .. Len(queue[h]) /\ d.event \in Events /\ d.kind # "confirm"
          /\ GroupOf(d) = h
      BY <1>6, AtHead
    <3>2. h = <<"event", d.event>>
      BY <3>1 DEF GroupOf
    <3>3. d.event # e
      BY <1>2, <2>2, <3>2
    <3>4. d.op # c.op
      BY <1>1, <2>2, <3>1 DEF Structure, OpsDiffer
    <3>5. (d.op \in applied') = (d.op \in applied)
      BY <1>3, <3>4
    <3>6. InTurn(d, work[h], games[d.event], rows[d.event], d.op \in applied)
      BY <1>6 DEF OneAtATime, EveryHeadInTurn
    <3> HIDE DEF c
    <3>7. work'[h] = work[h] /\ games'[d.event] = games[d.event] /\ rows'[d.event] = rows[d.event]
      BY <1>3, <2>2, <3>1, <3>3
    <3> QED
      BY <3>5, <3>6, <3>7
  <2> QED
    BY <2>1, <2>2
<1>7. EveryHeadInTurn'
  <2>1. \A h \in Groups : CommandAt(h)' = CommandAt(h) /\ queue'[h] = queue[h]
    BY <1>3 DEF CommandAt
  <2> QED
    BY <1>6, <2>1 DEF EveryHeadInTurn
<1>8. NobodyRefused'
  BY <1>3 DEF OneAtATime, NobodyRefused
<1> QED
  BY <1>4, <1>5, <1>7, <1>8 DEF OneAtATime

-----------------------------------------------------------------------------
\* Steps that leave every queue as it is

Untouched == \A e \in Events : rows'[e] = rows[e] /\ games'[e].amount = games[e].amount

\* The command an attempt is at, and its game.
LEMMA AtTurn ==
    ASSUME Structure, OneAtATime, "confirm" \notin Kinds, NEW g \in Groups, queue[g] # <<>>
    PROVE  LET c == CommandAt(g)
               e == c.event
           IN  /\ c \in Command /\ c.kind # "confirm" /\ c.op \in 1 .. MaxOps /\ c.op \in OperationIds
               /\ c.op # NoOperation /\ WellFormed(c) /\ e \in Events /\ work[g] \in Attempt
               /\ games[e] \in Game /\ rows[e] \in Rows /\ DistinctTimes(rows[e])
               /\ DrawnOn(g) = e
               /\ InTurn(c, work[g], games[e], rows[e], c.op \in applied)
<1> DEFINE c == CommandAt(g)
<1>1. /\ c \in Command /\ c.kind # "confirm" /\ c.op \in 1 .. MaxOps /\ c.op \in OperationIds
      /\ WellFormed(c) /\ c.event \in Events
  BY AtHead
<1>2. c.op # NoOperation
  BY <1>1, OrderedMutationsAssumption
<1>3. work[g] \in Attempt /\ games[c.event] \in Game /\ rows[c.event] \in Rows
  BY <1>1 DEF Structure, TypeOK
<1>4. DistinctTimes(rows[c.event]) /\ InTurn(c, work[g], games[c.event], rows[c.event], c.op \in applied)
  BY <1>1 DEF OneAtATime, QueueTimesDistinct, EveryHeadInTurn
<1>5. DrawnOn(g) = c.event
  BY <1>1 DEF DrawnOn
<1> QED
  BY <1>1, <1>2, <1>3, <1>4, <1>5

\* A step that leaves the registrations alone, and of its game's row what the
\* commands depend on.
LEMMA QuietStepKeepsTurns ==
    ASSUME Structure, OneAtATime, "confirm" \notin Kinds, NEW g \in Groups, queue[g] # <<>>,
           UNCHANGED <<rows, queue, applied>>,
           NEW game, Mild(CommandAt(g), games[CommandAt(g).event], game),
           games' = [games EXCEPT ![CommandAt(g).event] = game],
           NEW a, work' = [work EXCEPT ![g] = a],
           InTurn(CommandAt(g), a, game, rows[CommandAt(g).event], CommandAt(g).op \in applied)
    PROVE  OneAtATime' /\ Untouched
<1> DEFINE c == CommandAt(g)
           e == c.event
           r == rows[e]
<1>1. /\ e \in Events /\ r \in Rows /\ DistinctTimes(r)
      /\ rows \in [Events -> Rows] /\ games \in [Events -> Game]
  BY AtTurn DEF Structure, TypeOK
<1>2. Tame(r, r, c.op)
  BY <1>1 DEF Tame
<1>3. rows' = [rows EXCEPT ![e] = r]
  BY <1>1
<1>4. StepOf(g, a, game, r)
  BY <1>3 DEF StepOf
<1>5. InTurn(c, a, game, r, c.op \in applied')
  OBVIOUS
<1>6. OneAtATime'
  BY <1>1, <1>2, <1>4, <1>5, StepKeepsTurns
<1>7. Untouched
  <2> SUFFICES ASSUME NEW f \in Events PROVE rows'[f] = rows[f] /\ games'[f].amount = games[f].amount
    BY DEF Untouched
  <2> HIDE DEF e
  <2>1. games'[f] = IF f = e THEN game ELSE games[f]
    BY <1>1 DEF e
  <2>2. game.amount = games[e].amount
    BY DEF Mild, e, c
  <2> QED
    BY <2>1, <2>2
<1> QED
  BY <1>6, <1>7

\* Going on with the plan.
LEMMA GoingOnKeepsTurns ==
    ASSUME Structure, OneAtATime, "confirm" \notin Kinds, NEW g \in Groups, work[g].todo # <<>>,
           Head(work[g].todo) # "reply",
           UNCHANGED <<rows, queue, applied>>,
           NEW game, Mild(CommandAt(g), games[CommandAt(g).event], game),
           games' = [games EXCEPT ![CommandAt(g).event] = game],
           NEW b \in Attempt, Continue(g, b), b.todo = work[g].todo, b.refused = work[g].refused,
           b.mate = work[g].mate, b.mateTime = work[g].mateTime,
           \/ b.time = work[g].time /\ (CommandAt(g).kind = "sift" => Head(work[g].todo) # "look")
           \/ /\ CommandAt(g).kind = "sift" /\ b.time \in Times
              /\ IsShift(rows[CommandAt(g).event], b.time),
           b.entries = work[g].entries \/ Head(work[g].todo) \in {"read", "send"},
           Head(work[g].todo) = "removal" /\ Up(CommandAt(g)) \in work[g].entries
               => Recorded(CommandAt(g), game)
    PROVE  OneAtATime' /\ Untouched
<1> DEFINE c == CommandAt(g)
           e == c.event
           w == work[g]
           a == [b EXCEPT !.todo = Tail(@)]
<1>1. /\ queue[g] # <<>> /\ w \in Attempt
      /\ InTurn(c, w, games[e], rows[e], c.op \in applied)
  BY AtStep, AtTurn
<1>2. /\ work' = [work EXCEPT ![g] = a] /\ a \in Attempt /\ a.todo = Tail(w.todo) /\ a.refused = w.refused
      /\ a.time = b.time /\ a.mate = w.mate /\ a.mateTime = w.mateTime /\ a.entries = b.entries
  <2>1. b.todo # <<>>
    OBVIOUS
  <2>2. /\ work' = [work EXCEPT ![g] = a] /\ a \in Attempt /\ a.todo = Tail(b.todo) /\ a.refused = b.refused
        /\ a.time = b.time /\ a.mate = b.mate /\ a.mateTime = b.mateTime /\ a.entries = b.entries
    BY <2>1, ContinueEffect
  <2> QED
    BY <2>2
<1> HIDE DEF a
<1>3. /\ \A step : Pending(a, step) => Pending(w, step)
      /\ \A step : Pending(w, step) => Pending(a, step) \/ Head(w.todo) = step
      /\ WritesInOrder(w.todo) => WritesInOrder(a.todo)
  BY <1>1, <1>2, RestOfPlan
<1>4. c.kind = "sift" /\ Pending(a, "write") =>
          \/ Pending(a, "look") \/ (~Pending(w, "look") /\ a.time = w.time)
          \/ a.time \in Times /\ IsShift(rows[e], a.time)
  BY <1>2, <1>3
<1>5. c.kind # "sift" => a.time = w.time
  BY <1>2
<1>6. c.kind = "promote" /\ Pending(a, "write") =>
          /\ w.entries \subseteq a.entries
          /\ (Up(c) \in w.entries => Recorded(c, game)) \/ (Pending(w, "removal") => Pending(a, "removal"))
  <2> SUFFICES ASSUME c.kind = "promote", Pending(a, "write")
               PROVE  /\ w.entries \subseteq a.entries
                      /\ \/ Up(c) \in w.entries => Recorded(c, game)
                         \/ Pending(w, "removal") => Pending(a, "removal")
    OBVIOUS
  <2>1. WritesInOrder(w.todo) /\ Pending(w, "write")
    BY <1>1, <1>3 DEF InTurn, Ready
  <2>2. Head(w.todo) \notin {"read", "send"}
    BY <1>1, <2>1, AroundTheWrite
  <2> QED
    BY <1>2, <1>3, <2>2
<1>7. InTurn(c, a, game, rows[e], c.op \in applied)
  <2> HIDE DEF c, w
  <2>1. Mild(c, games[e], game) /\ w.todo # <<>> /\ Head(w.todo) # "reply"
    BY DEF c, w
  <2> HIDE DEF e
  <2> QED
    BY <1>1, <1>2, <1>3, <1>4, <1>5, <1>6, <2>1, QuietStepInTurn
<1> QED
  BY <1>1, <1>2, <1>7, QuietStepKeepsTurns

LEMMA RecordingKeepsTurns ==
    ASSUME Structure, OneAtATime, "confirm" \notin Kinds, NEW g \in Groups,
           RecordRemoval(g) \/ RecordReserve(g) \/ RecordLink(g)
    PROVE  OneAtATime' /\ Untouched
<1> DEFINE c == CommandAt(g)
           e == c.event
           w == work[g]
<1>1. /\ w.todo # <<>> /\ Head(w.todo) \in {"removal", "reserve", "link"} /\ Continue(g, w)
      /\ UNCHANGED <<rows, queue, applied>>
  BY DEF RecordRemoval, RecordReserve, RecordLink, At, history
<1>2. /\ queue[g] # <<>> /\ w \in Attempt /\ e \in Events /\ DrawnOn(g) = e /\ c.kind # "confirm"
      /\ games[e] \in Game /\ games[e].removal \in Removal /\ games[e].reserve \in Promotion
      /\ games[e].link \in Promotion
  BY <1>1, AtStep, AtTurn, GameFields
<1>3. CASE RecordRemoval(g)
  <2> DEFINE old == games[e].removal
             record == IF old.op = c.op
                       THEN [old EXCEPT !.entries = @ \cup w.entries]
                       ELSE [op |-> c.op, entries |-> w.entries, done |-> {}]
             game == [games[e] EXCEPT !.removal = record]
  <2>1. games' = [games EXCEPT ![e] = game]
    <3>1. games' = [games EXCEPT ![e].removal =
                        IF games[e].removal.op = c.op
                        THEN [games[e].removal EXCEPT !.entries = @ \cup w.entries]
                        ELSE [op |-> c.op, entries |-> w.entries, done |-> {}]]
      BY <1>3 DEF RecordRemoval
    <3> HIDE DEF c, w
    <3> QED
      BY <3>1, Zenon
  <2> HIDE DEF e, w
  <2>2. /\ record.op = c.op /\ w.entries \subseteq record.entries
        /\ old.op = c.op => old.entries \subseteq record.entries
    BY <1>2 DEF Removal
  <2> HIDE DEF record, old
  <2>3. /\ game.removal = record /\ game.exists = games[e].exists /\ game.archived = games[e].archived
        /\ game.status = games[e].status /\ game.amount = games[e].amount
    BY <1>2 DEF Game
  <2> HIDE DEF game
  <2>4. Mild(c, games[e], game)
    BY <2>2, <2>3 DEF Mild, old
  <2>5. Up(c) \in w.entries => Recorded(c, game)
    BY <2>2, <2>3 DEF Recorded
  <2>6. c.kind = "sift" => Head(w.todo) # "look"
    BY <1>1
  <2> QED
    BY <1>1, <1>2, <2>1, <2>4, <2>5, <2>6, GoingOnKeepsTurns DEF e, w
<1>4. ASSUME NEW game, games' = [games EXCEPT ![e] = game], game.removal = games[e].removal,
             game.exists = games[e].exists, game.archived = games[e].archived,
             game.status = games[e].status, game.amount = games[e].amount, ~RecordRemoval(g)
      PROVE  OneAtATime' /\ Untouched
  <2>1. Mild(c, games[e], game)
    BY <1>4 DEF Mild
  <2>2. Head(w.todo) # "removal" /\ Head(w.todo) # "look" /\ Head(w.todo) # "reply"
    BY <1>1, <1>4 DEF RecordReserve, RecordLink, At
  <2> QED
    BY <1>1, <1>2, <1>4, <2>1, <2>2, GoingOnKeepsTurns
<1>5. CASE RecordReserve(g) /\ ~RecordRemoval(g)
  <2> DEFINE record == [games[e].reserve EXCEPT !.op = c.op, !.keys = w.candidates, !.done = FALSE]
             game == [games[e] EXCEPT !.reserve = record]
  <2>1. games' = [games EXCEPT ![e] = game]
    BY <1>2, <1>5 DEF RecordReserve
  <2> HIDE DEF record, e, c
  <2>2. /\ game.removal = games[e].removal /\ game.exists = games[e].exists /\ game.archived = games[e].archived
        /\ game.status = games[e].status /\ game.amount = games[e].amount
    BY <1>2 DEF Game
  <2> HIDE DEF game
  <2> QED
    BY <1>4, <1>5, <2>1, <2>2
<1>6. CASE RecordLink(g) /\ ~RecordRemoval(g)
  <2> DEFINE record == [games[e].link EXCEPT !.op = c.op, !.keys = w.confirmed, !.done = FALSE]
             game == [games[e] EXCEPT !.link = record]
  <2>1. games' = [games EXCEPT ![e] = game]
    BY <1>2, <1>6 DEF RecordLink
  <2> HIDE DEF record, e, c
  <2>2. /\ game.removal = games[e].removal /\ game.exists = games[e].exists /\ game.archived = games[e].archived
        /\ game.status = games[e].status /\ game.amount = games[e].amount
    BY <1>2 DEF Game
  <2> HIDE DEF game
  <2> QED
    BY <1>4, <1>6, <2>1, <2>2
<1> QED
  BY <1>3, <1>5, <1>6

\* Steps that read or that tell somebody.
LEMMA TellingKeepsTurns ==
    ASSUME Structure, OneAtATime, "confirm" \notin Kinds, NEW g \in Groups,
           TellReserve(g) \/ TellLink(g) \/ Read(g) \/ AllSent(g)
    PROVE  OneAtATime' /\ Untouched
<1> DEFINE c == CommandAt(g)
           e == c.event
           w == work[g]
<1>1. /\ w.todo # <<>> /\ Head(w.todo) \in {"tellReserve", "tellLink", "read", "send"}
      /\ UNCHANGED <<rows, queue, applied>>
  BY DEF TellReserve, TellLink, Read, AllSent, At, history
<1>2. /\ queue[g] # <<>> /\ w \in Attempt /\ e \in Events /\ DrawnOn(g) = e
      /\ games[e] \in Game /\ games[e].reserve \in Promotion /\ games[e].link \in Promotion
      /\ games \in [Events -> Game]
  BY <1>1, AtStep, AtTurn, GameFields DEF Structure, TypeOK
<1>3. ASSUME NEW game, games' = [games EXCEPT ![e] = game], game.removal = games[e].removal,
             game.exists = games[e].exists, game.archived = games[e].archived,
             game.status = games[e].status, game.amount = games[e].amount,
             NEW entries \in SUBSET Entry, Continue(g, [w EXCEPT !.entries = entries]),
             entries = w.entries \/ Head(w.todo) \in {"read", "send"}
      PROVE  OneAtATime' /\ Untouched
  <2> DEFINE b == [w EXCEPT !.entries = entries]
  <2>1. Mild(c, games[e], game)
    BY <1>3 DEF Mild
  <2>2. /\ b \in Attempt /\ b.todo = w.todo /\ b.refused = w.refused /\ b.mate = w.mate
        /\ b.mateTime = w.mateTime /\ b.time = w.time /\ b.entries = entries
    BY <1>2 DEF Attempt
  <2>3. Continue(g, b)
    BY <1>3
  <2> HIDE DEF b
  <2>4. Head(w.todo) # "removal" /\ Head(w.todo) # "look" /\ Head(w.todo) # "reply"
    BY <1>1
  <2> QED
    BY <1>1, <1>2, <1>3, <2>1, <2>2, <2>3, <2>4, GoingOnKeepsTurns
<1>4. /\ [w EXCEPT !.entries = w.entries] = w /\ w.entries \in SUBSET Entry
      /\ games = [games EXCEPT ![e] = games[e]]
  BY <1>2 DEF Attempt
<1>5. CASE games' = games /\ Continue(g, w)
  BY <1>3, <1>4, <1>5
<1>6. CASE games' = [games EXCEPT ![e].reserve.done = TRUE] /\ Continue(g, w)
  <2> DEFINE record == [games[e].reserve EXCEPT !.done = TRUE]
             game == [games[e] EXCEPT !.reserve = record]
  <2>1. games' = [games EXCEPT ![e] = game]
    BY <1>6
  <2> HIDE DEF record, e, w
  <2>2. /\ game.removal = games[e].removal /\ game.exists = games[e].exists /\ game.archived = games[e].archived
        /\ game.status = games[e].status /\ game.amount = games[e].amount
    BY <1>2 DEF Game
  <2> HIDE DEF game
  <2> QED
    BY <1>3, <1>4, <1>6, <2>1, <2>2
<1>7. CASE games' = [games EXCEPT ![e].link.done = TRUE] /\ Continue(g, w)
  <2> DEFINE record == [games[e].link EXCEPT !.done = TRUE]
             game == [games[e] EXCEPT !.link = record]
  <2>1. games' = [games EXCEPT ![e] = game]
    BY <1>7
  <2> HIDE DEF record, e, w
  <2>2. /\ game.removal = games[e].removal /\ game.exists = games[e].exists /\ game.archived = games[e].archived
        /\ game.status = games[e].status /\ game.amount = games[e].amount
    BY <1>2 DEF Game
  <2> HIDE DEF game
  <2> QED
    BY <1>3, <1>4, <1>7, <2>1, <2>2
<1>8. CASE Read(g)
  <2> DEFINE due == Due(c)
  <2>1. due \subseteq Entry
    <3>1. games[e].removal.entries \subseteq Entry
      BY <1>2, GameFields
    <3>2. Entries("opened", WithStatus(rows[e], "waiting")) \subseteq Entry
      BY DEF Entries, WithStatus, Entry
    <3> QED
      BY <3>1, <3>2 DEF Due, Current
  <2>2. Continue(g, [w EXCEPT !.entries = due]) /\ games' = games /\ Head(w.todo) = "read"
    BY <1>8 DEF Read, At
  <2> HIDE DEF due
  <2> QED
    BY <1>3, <1>4, <2>1, <2>2
<1>9. TellReserve(g) \/ TellLink(g) =>
          /\ Continue(g, w)
          /\ \/ games' = games \/ games' = [games EXCEPT ![e].reserve.done = TRUE]
             \/ games' = [games EXCEPT ![e].link.done = TRUE]
  BY <1>2 DEF TellReserve, TellLink
<1>10. AllSent(g) => games' = games /\ Continue(g, w)
  BY DEF AllSent
<1> QED
  BY <1>5, <1>6, <1>7, <1>8, <1>9, <1>10

\* A message is sent, and the marker that records it is set, in one step.
LEMMA SendingKeepsTurns ==
    ASSUME Structure, OneAtATime, "confirm" \notin Kinds, NEW g \in Groups, Send(g)
    PROVE  OneAtATime' /\ Untouched
<1> DEFINE c == CommandAt(g)
           e == c.event
           w == work[g]
<1>1. w.todo # <<>> /\ Head(w.todo) = "send" /\ UNCHANGED <<rows, queue, applied>>
  BY DEF Send, At
<1>2. /\ queue[g] # <<>> /\ w \in Attempt /\ e \in Events /\ games \in [Events -> Game]
      /\ games[e] \in Game /\ games[e].removal \in Removal
      /\ InTurn(c, w, games[e], rows[e], c.op \in applied)
  BY <1>1, AtStep, AtTurn, GameFields DEF Structure, TypeOK
<1>3. PICK n \in w.entries :
          /\ games' = IF n.way # "opened" /\ games[e].removal.op = c.op
                      THEN [games EXCEPT ![e].removal.done = @ \cup {n}] ELSE games
          /\ work' = [work EXCEPT ![g].entries = @ \ {n}]
  BY DEF Send
<1> DEFINE rest == w.entries \ {n}
           a == [w EXCEPT !.entries = rest]
<1>4. work' = [work EXCEPT ![g] = a]
  BY <1>3
<1> HIDE DEF rest
<1>5. /\ a.todo = w.todo /\ a.refused = w.refused /\ a.mate = w.mate
      /\ a.mateTime = w.mateTime /\ a.time = w.time
  BY <1>2 DEF Attempt
<1> HIDE DEF a
<1>6. \A step : Pending(a, step) <=> Pending(w, step)
  BY <1>5 DEF Pending
<1>7. ASSUME c.kind = "promote", Pending(a, "write") PROVE FALSE
  <2>1. WritesInOrder(w.todo) /\ Pending(w, "write")
    BY <1>2, <1>6, <1>7 DEF InTurn, Ready
  <2> QED
    BY <1>1, <1>2, <2>1, AroundTheWrite
<1>8. \E game : games' = [games EXCEPT ![e] = game] /\ Mild(c, games[e], game)
  <2>1. CASE games' = games
    <3>1. games' = [games EXCEPT ![e] = games[e]] /\ Mild(c, games[e], games[e])
      BY <1>2, <2>1 DEF Mild
    <3> QED
      BY <3>1
  <2>2. CASE games' = [games EXCEPT ![e].removal.done = @ \cup {n}]
    <3> DEFINE record == [games[e].removal EXCEPT !.done = @ \cup {n}]
               game == [games[e] EXCEPT !.removal = record]
    <3>1. games' = [games EXCEPT ![e] = game]
      BY <2>2
    <3> HIDE DEF e
    <3>2. record.op = games[e].removal.op /\ record.entries = games[e].removal.entries
      BY <1>2 DEF Removal
    <3> HIDE DEF record
    <3>3. /\ game.removal = record /\ game.exists = games[e].exists /\ game.archived = games[e].archived
          /\ game.status = games[e].status /\ game.amount = games[e].amount
      BY <1>2 DEF Game
    <3> HIDE DEF game
    <3>4. Mild(c, games[e], game)
      BY <3>2, <3>3 DEF Mild
    <3> QED
      BY <3>1, <3>4
  <2> QED
    BY <1>3, <2>1, <2>2
<1>9. PICK game : games' = [games EXCEPT ![e] = game] /\ Mild(c, games[e], game)
  BY <1>8
<1>10. InTurn(c, a, game, rows[e], c.op \in applied)
  <2> HIDE DEF c, w
  <2>1. Head(w.todo) # "reply" /\ (WritesInOrder(w.todo) => WritesInOrder(a.todo))
    BY <1>1, <1>5
  <2>2. c.kind = "sift" /\ Pending(a, "write") =>
            \/ Pending(a, "look") \/ (~Pending(w, "look") /\ a.time = w.time)
            \/ a.time \in Times /\ IsShift(rows[e], a.time)
    BY <1>5, <1>6
  <2> HIDE DEF e
  <2> QED
    BY <1>1, <1>2, <1>5, <1>6, <1>7, <1>9, <2>1, <2>2, QuietStepInTurn
<1> QED
  BY <1>1, <1>2, <1>4, <1>9, <1>10, QuietStepKeepsTurns

\* The queue is read again, in a sift for the shift.
LEMMA LookingKeepsTurns ==
    ASSUME Structure, OneAtATime, "confirm" \notin Kinds, NEW g \in Groups, Look(g)
    PROVE  OneAtATime' /\ Untouched
<1> DEFINE c == CommandAt(g)
           e == c.event
           w == work[g]
           r == rows[e]
<1>1. w.todo # <<>> /\ Head(w.todo) = "look" /\ UNCHANGED <<games, rows, queue, applied>>
  BY DEF Look, At, history
<1>2. /\ queue[g] # <<>> /\ w \in Attempt /\ e \in Events /\ games \in [Events -> Game] /\ DrawnOn(g) = e
      /\ w.todo[Len(w.todo)] = "reply"
      /\ InTurn(c, w, games[e], r, c.op \in applied)
  BY <1>1, AtStep, AtTurn DEF Structure, TypeOK
<1>3. games' = [games EXCEPT ![e] = games[e]] /\ Mild(c, games[e], games[e])
  BY <1>1, <1>2 DEF Mild
<1>4. CASE c.kind = "sift" /\ Active(r) = {} /\ Continue(g, [w EXCEPT !.todo = Tail(@)])
  <2> DEFINE b == [w EXCEPT !.todo = Tail(@)]
             a == [b EXCEPT !.todo = Tail(@)]
  <2>1. w.todo \in Seq(Steps) /\ Len(w.todo) \in Nat /\ Len(w.todo) # 0 /\ w.todo[1] = "look"
    BY <1>1, <1>2, EmptySeq, HeadTailProperties, LenProperties DEF Attempt
  <2>2. Len(w.todo) # 1
    BY <1>2, <2>1
  <2>3. Tail(w.todo) \in Seq(Steps) /\ Tail(w.todo) # <<>>
    <3> DEFINE s == w.todo
    <3>1. s \in Seq(Steps) /\ s # <<>> /\ Len(s) \in Nat /\ Len(s) # 0 /\ Len(s) # 1
      BY <1>1, <2>1, <2>2
    <3> HIDE DEF s
    <3>2. Tail(s) \in Seq(Steps) /\ Len(Tail(s)) = Len(s) - 1
      BY <3>1, HeadTailProperties
    <3>3. Len(Tail(s)) # 0
      BY <3>1, <3>2
    <3> QED
      BY <3>2, <3>3, EmptySeq DEF s
  <2>4. /\ b \in Attempt /\ b.todo = Tail(w.todo) /\ b.refused = w.refused
        /\ b.mate = w.mate /\ b.mateTime = w.mateTime /\ b.time = w.time
    BY <1>2, <2>3 DEF Attempt
  <2>5. work' = [work EXCEPT ![g] = a]
    BY <1>4 DEF Continue
  <2> HIDE DEF b
  <2>6. Tail(b.todo) \in Seq(Steps)
    BY <2>3, <2>4, HeadTailProperties
  <2>7. /\ a \in Attempt /\ a.todo = Tail(b.todo) /\ a.refused = b.refused
        /\ a.mate = b.mate /\ a.mateTime = b.mateTime /\ a.time = b.time
    BY <2>4, <2>6 DEF Attempt
  <2> HIDE DEF a
  <2>8. /\ \A step : Pending(b, step) => Pending(w, step)
        /\ WritesInOrder(w.todo) => WritesInOrder(b.todo)
    BY <1>1, <1>2, <2>4, RestOfPlan
  <2>9. /\ \A step : Pending(a, step) => Pending(b, step)
        /\ WritesInOrder(b.todo) => WritesInOrder(a.todo)
    BY <2>3, <2>4, <2>7, RestOfPlan
  <2>10. ~Pending(a, "write")
    <3> SUFFICES ASSUME Pending(w, "write") PROVE FALSE
      BY <2>8, <2>9
    <3>1. ~Sifted(r)
      BY <1>2, <1>4 DEF InTurn, Ready, SiftReady
    <3>2. WithStatus(r, "waiting") \subseteq Active(r)
      BY DEF WithStatus, Active
    <3> QED
      BY <1>4, <3>1, <3>2 DEF Sifted
  <2>11. InTurn(c, a, games[e], r, c.op \in applied)
    <3>1. Head(w.todo) # "reply" /\ a.refused = w.refused /\ a.mate = w.mate
          /\ a.mateTime = w.mateTime /\ a.time = w.time
          /\ (WritesInOrder(w.todo) => WritesInOrder(a.todo))
          /\ \A step : Pending(a, step) => Pending(w, step)
      BY <1>1, <2>4, <2>7, <2>8, <2>9
    <3> HIDE DEF c, w, e, r
    <3> QED
      BY <1>1, <1>2, <1>3, <2>10, <3>1, QuietStepInTurn
  <2> QED
    BY <1>1, <1>2, <1>3, <2>5, <2>11, QuietStepKeepsTurns
<1>5. ASSUME NEW shift \in Times, c.kind = "sift", IsShift(r, shift), Continue(g, [w EXCEPT !.time = shift])
      PROVE  OneAtATime' /\ Untouched
  <2> DEFINE b == [w EXCEPT !.time = shift]
  <2>1. /\ b \in Attempt /\ b.todo = w.todo /\ b.refused = w.refused /\ b.mate = w.mate
        /\ b.mateTime = w.mateTime /\ b.entries = w.entries /\ b.time = shift
    BY <1>2, OrderedMutationsAssumption DEF Attempt
  <2>2. Continue(g, b)
    BY <1>5
  <2> HIDE DEF b
  <2>3. IsShift(r, b.time) /\ b.time \in Times /\ Head(w.todo) # "reply" /\ Head(w.todo) # "removal"
    BY <1>1, <1>5, <2>1
  <2> QED
    BY <1>1, <1>2, <1>3, <1>5, <2>1, <2>2, <2>3, GoingOnKeepsTurns
<1>6. ASSUME NEW keys \in SUBSET Players, NEW sure \in SUBSET Players, c.kind # "sift",
             Continue(g, [w EXCEPT !.candidates = keys, !.confirmed = sure])
      PROVE  OneAtATime' /\ Untouched
  <2> DEFINE b == [w EXCEPT !.candidates = keys, !.confirmed = sure]
  <2>1. /\ b \in Attempt /\ b.todo = w.todo /\ b.refused = w.refused /\ b.mate = w.mate
        /\ b.mateTime = w.mateTime /\ b.entries = w.entries /\ b.time = w.time
    BY <1>2 DEF Attempt
  <2>2. Continue(g, b)
    BY <1>6
  <2> HIDE DEF b
  <2>3. Head(w.todo) # "reply" /\ Head(w.todo) # "removal"
    BY <1>1
  <2> QED
    BY <1>1, <1>2, <1>3, <1>6, <2>1, <2>2, <2>3, GoingOnKeepsTurns
<1>7. CASE c.kind # "sift"
  <2> DEFINE keys == Promoted(r, Key(c), w.amount)
             sure == {q \in keys : r[q].status = "confirmed"}
  <2>1. keys \in SUBSET Players
    BY DEF Promoted, Active
  <2>2. Continue(g, [w EXCEPT !.candidates = keys, !.confirmed = sure])
    BY <1>2, <1>7 DEF Look
  <2> HIDE DEF keys
  <2>3. sure \in SUBSET Players
    BY <2>1
  <2> HIDE DEF sure
  <2> QED
    BY <1>6, <1>7, <2>1, <2>2, <2>3
<1>8. CASE c.kind = "sift"
  <2>1. \/ Active(r) = {} /\ Continue(g, [w EXCEPT !.todo = Tail(@)])
        \/ \E shift \in Times : IsShift(r, shift) /\ Continue(g, [w EXCEPT !.time = shift])
    BY <1>2, <1>8 DEF Look
  <2> QED
    BY <1>4, <1>5, <1>8, <2>1
<1> QED
  BY <1>7, <1>8

-----------------------------------------------------------------------------
\* The plan of an attempt

LEMMA StepsOfPlan ==
    ASSUME NEW s \in Seq(Steps), NEW t \in Seq(Steps), NEW i \in 1 .. Len(s \o t)
    PROVE  (\E j \in 1 .. Len(s) : (s \o t)[i] = s[j]) \/ (\E j \in 1 .. Len(t) : (s \o t)[i] = t[j])
<1>1. Len(s) \in Nat /\ Len(t) \in Nat /\ Len(s \o t) = Len(s) + Len(t)
  BY LenProperties, ConcatProperties
<1>2. CASE i <= Len(s)
  <2>1. i \in 1 .. Len(s) /\ (s \o t)[i] = s[i]
    BY <1>1, <1>2, ConcatProperties
  <2> QED
    BY <2>1
<1>3. CASE i > Len(s)
  <2>1. i - Len(s) \in 1 .. Len(t) /\ (s \o t)[i] = t[i - Len(s)]
    BY <1>1, <1>3, ConcatProperties
  <2> QED
    BY <2>1
<1> QED
  BY <1>1, <1>2, <1>3, SMTT(30)

\* The steps of a plan that deletes nothing.
Gentle == Steps \ {"erase", "drop"}

\* A command that is accepted makes a plan.
LEMMA PlanKeepsTurns ==
    ASSUME Structure, OneAtATime, "confirm" \notin Kinds, NEW g \in Groups, queue[g] # <<>>,
           ~Refused(CommandAt(g)), NEW todo, NEW attempt, Begin(g, todo, attempt),
           NEW a, a = [attempt EXCEPT !.todo = todo], a.refused = FALSE,
           CommandAt(g).kind \in {"archive", "delete"} =>
               ~Pending(a, "tellReserve") /\ ~Pending(a, "tellLink") /\ ~Pending(a, "read"),
           CommandAt(g).kind = "delete" \/ a.todo \in Seq(Gentle),
           Ready(CommandAt(g), a, games[CommandAt(g).event], rows[CommandAt(g).event], CommandAt(g).op \in applied)
    PROVE  OneAtATime' /\ Untouched
<1> DEFINE c == CommandAt(g)
           e == c.event
<1>1. /\ work' = [work EXCEPT ![g] = a] /\ UNCHANGED <<games, rows, queue, applied>>
  BY DEF Begin, history
<1>2. /\ c.kind # "confirm" /\ e \in Events /\ InTurn(c, work[g], games[e], rows[e], c.op \in applied)
      /\ games \in [Events -> Game]
  BY AtTurn DEF Structure, TypeOK
<1>3. ~Rejected(c, games[e], rows[e])
  BY <1>2, RejectedIsRefused
<1>4. InTurn(c, a, games[e], rows[e], c.op \in applied)
  <2>1. c.kind = "delete" \/ (~Pending(a, "erase") /\ ~Pending(a, "drop"))
    <3> SUFFICES ASSUME a.todo \in Seq(Gentle) PROVE ~Pending(a, "erase") /\ ~Pending(a, "drop")
      OBVIOUS
    <3>1. \A i \in 1 .. Len(a.todo) : a.todo[i] \in Gentle
      BY ElementOfSeq
    <3> QED
      BY <3>1 DEF Pending, Gentle
  <2> QED
    BY <1>2, <1>3, <2>1 DEF InTurn, Admitted
<1>5. games' = [games EXCEPT ![e] = games[e]] /\ Mild(c, games[e], games[e])
  BY <1>1, <1>2 DEF Mild
<1> QED
  BY <1>1, <1>4, <1>5, QuietStepKeepsTurns

LEMMA RefusingKeepsTurns ==
    ASSUME Structure, OneAtATime, "confirm" \notin Kinds, NEW g \in Groups, queue[g] # <<>>,
           (Refused(CommandAt(g)) /\ Refuse(g)) \/ Deny(g)
    PROVE  OneAtATime' /\ Untouched
<1> DEFINE c == CommandAt(g)
           e == c.event
           refusal == [Idle EXCEPT !.refused = TRUE]
           denial == [Idle EXCEPT !.refused = TRUE, !.denied = TRUE]
           a == IF Deny(g) THEN [denial EXCEPT !.todo = <<"reply">>]
                ELSE [refusal EXCEPT !.todo = <<"reply">>]
<1>1. /\ work' = [work EXCEPT ![g] = a] /\ UNCHANGED <<games, rows, queue, applied>>
  BY DEF Refuse, Deny, Begin, history
<1>2. /\ c.kind # "confirm" /\ e \in Events /\ InTurn(c, work[g], games[e], rows[e], c.op \in applied)
      /\ games \in [Events -> Game]
  BY AtTurn DEF Structure, TypeOK
<1>3. Deny(g) \/ Rejected(c, games[e], rows[e])
  BY <1>2, RejectedIsRefused
<1>4. a.todo = <<"reply">> /\ a.refused = TRUE /\ (Deny(g) => a.denied = TRUE)
  BY DEF Idle
<1> HIDE DEF a
<1>5. \A step : Pending(a, step) => step = "reply"
  BY <1>4 DEF Pending
<1>6. InTurn(c, a, games[e], rows[e], c.op \in applied)
  BY <1>2, <1>3, <1>4, <1>5 DEF InTurn, Admitted, Ready
<1>7. games' = [games EXCEPT ![e] = games[e]] /\ Mild(c, games[e], games[e])
  BY <1>1, <1>2 DEF Mild
<1> QED
  BY <1>1, <1>6, <1>7, QuietStepKeepsTurns

\* A plan that Ready says nothing about: another kind of command, or no write.
LEMMA PlainPlanKeepsTurns ==
    ASSUME Structure, OneAtATime, "confirm" \notin Kinds, NEW g \in Groups, queue[g] # <<>>,
           ~Refused(CommandAt(g)), NEW todo, NEW attempt, Begin(g, todo, attempt),
           NEW a, a = [attempt EXCEPT !.todo = todo], a.refused = FALSE,
           CommandAt(g).kind \in {"archive", "delete"} =>
               ~Pending(a, "tellReserve") /\ ~Pending(a, "tellLink") /\ ~Pending(a, "read"),
           CommandAt(g).kind = "delete" \/ a.todo \in Seq(Gentle),
           CommandAt(g).kind \in {"enlist", "sift", "promote"} => ~Pending(a, "write")
    PROVE  OneAtATime' /\ Untouched
<1>1. Ready(CommandAt(g), a, games[CommandAt(g).event], rows[CommandAt(g).event], CommandAt(g).op \in applied)
  BY DEF Ready
<1> QED
  BY <1>1, PlanKeepsTurns

LEMMA GentlePieces ==
    /\ <<"removal">> \in Seq(Gentle) /\ <<"look">> \in Seq(Gentle) /\ <<"reserve">> \in Seq(Gentle)
    /\ <<"link">> \in Seq(Gentle) /\ <<"write">> \in Seq(Gentle) /\ <<"read", "send">> \in Seq(Gentle)
    /\ <<"reply">> \in Seq(Gentle) /\ <<"read", "send", "reply">> \in Seq(Gentle)
    /\ <<"write", "read", "send", "reply">> \in Seq(Gentle)
BY DEF Gentle, Steps

LEMMA GentleWhen ==
    ASSUME NEW condition, NEW s \in Seq(Gentle)
    PROVE  When(condition, s) \in Seq(Gentle)
BY EmptySeq DEF When

LEMMA GentlePromotions ==
    ASSUME NEW e, NEW c, NEW eligible
    PROVE  Promotions(e, c, eligible) \in Seq(Gentle)
BY GentlePieces, GentleWhen, ConcatProperties DEF Promotions

LEMMA LoadingRosterKeepsTurns ==
    ASSUME Structure, OneAtATime, "confirm" \notin Kinds, NEW g \in Groups, queue[g] # <<>>,
           NEW c, c = CommandAt(g), ~Refused(c),
           LoadEnlist(g, c) \/ LoadCancel(g, c) \/ LoadRemove(g, c)
    PROVE  OneAtATime' /\ Untouched
<1>1. CASE LoadEnlist(g, c) /\ Begin(g, <<"reply">>, Idle)
  <2> DEFINE a == [Idle EXCEPT !.todo = <<"reply">>]
  <2>1. a.refused = FALSE /\ a.todo = <<"reply">>
    BY DEF Idle
  <2> HIDE DEF a
  <2>2. ~Pending(a, "write")
    BY <2>1 DEF Pending
  <2>3. c.kind = "enlist" /\ a.todo \in Seq(Gentle)
    BY <1>1, <2>1 DEF LoadEnlist, Gentle, Steps
  <2> USE DEF a
  <2> QED
    BY <1>1, <2>1, <2>2, <2>3, PlainPlanKeepsTurns
<1>2. ASSUME NEW now \in Clock, NEW time \in Times, c.kind = "enlist", RowOf(c).op # c.op,
             IsQueueTime(rows[c.event], now, time),
             Begin(g, <<"write", "reply">>, [Idle EXCEPT !.time = time])
      PROVE  OneAtATime' /\ Untouched
  <2> DEFINE attempt == [Idle EXCEPT !.time = time]
             todo == <<"write", "reply">>
             a == [attempt EXCEPT !.todo = todo]
  <2>1. a.refused = FALSE /\ a.todo = <<"write", "reply">> /\ a.time = time
    BY DEF Idle
  <2>2. Begin(g, todo, attempt)
    BY <1>2
  <2> HIDE DEF a
  <2>3. WritesInOrder(a.todo)
    BY <2>1 DEF WritesInOrder
  <2>4. EnlistReady(c, a, rows[c.event])
    BY <1>2, <2>1 DEF EnlistReady, RowOf
  <2>5. Ready(c, a, games[c.event], rows[c.event], c.op \in applied)
    BY <1>2, <2>3, <2>4 DEF Ready
  <2>6. a = [attempt EXCEPT !.todo = todo] /\ a.todo \in Seq(Gentle)
    <3>1. a.todo \in Seq(Gentle)
      BY <2>1 DEF Gentle, Steps
    <3> QED
      BY <3>1 DEF a
  <2> HIDE DEF attempt, todo
  <2> QED
    BY <1>2, <2>1, <2>2, <2>5, <2>6, PlanKeepsTurns
<1>3. CASE LoadCancel(g, c)
  <2> DEFINE active == RowOf(c).status # "cancelled"
             entries == IF active THEN Entries("cancelled", c.player) ELSE {}
             attempt == [Idle EXCEPT !.amount = GameOf(c).amount, !.entries = entries]
             before == When(GameOf(c).removal.op # c.op, <<"removal">>) \o Promotions(c.event, c, active)
             todo == before \o <<"write", "tellReserve", "tellLink", "read", "send", "reply">>
             a == [attempt EXCEPT !.todo = todo]
  <2>1. c.kind = "cancel" /\ Begin(g, todo, attempt)
    BY <1>3 DEF LoadCancel
  <2> HIDE DEF entries
  <2>2. a.refused = FALSE /\ a.todo = todo
    BY DEF Idle
  <2>3. a.todo \in Seq(Gentle)
    <3>1. <<"write", "tellReserve", "tellLink", "read", "send", "reply">> \in Seq(Gentle)
      BY DEF Gentle, Steps
    <3>2. before \in Seq(Gentle)
      BY GentlePieces, GentleWhen, GentlePromotions, ConcatProperties
    <3> HIDE DEF before
    <3> QED
      BY <2>2, <3>1, <3>2, ConcatProperties
  <2> HIDE DEF attempt, todo
  <2> QED
    BY <2>1, <2>2, <2>3, PlainPlanKeepsTurns
<1>4. CASE LoadRemove(g, c)
  <2> DEFINE present == RowOf(c).status # "none"
             entries == IF present THEN Entries("out", c.player) ELSE {}
             attempt == [Idle EXCEPT !.amount = GameOf(c).amount, !.entries = entries]
             before == When(GameOf(c).removal.op # c.op, <<"removal">>) \o Promotions(c.event, c, present)
                       \o When(present, <<"write">>)
             todo == before \o <<"read", "send", "tellReserve", "tellLink", "reply">>
             a == [attempt EXCEPT !.todo = todo]
  <2>1. c.kind = "remove" /\ Begin(g, todo, attempt)
    BY <1>4 DEF LoadRemove
  <2> HIDE DEF entries
  <2>2. a.refused = FALSE /\ a.todo = todo
    BY DEF Idle
  <2>3. a.todo \in Seq(Gentle)
    <3>1. <<"read", "send", "tellReserve", "tellLink", "reply">> \in Seq(Gentle)
      BY DEF Gentle, Steps
    <3>2. before \in Seq(Gentle)
      BY GentlePieces, GentleWhen, GentlePromotions, ConcatProperties
    <3> HIDE DEF before
    <3> QED
      BY <2>2, <3>1, <3>2, ConcatProperties
  <2> HIDE DEF attempt, todo
  <2> QED
    BY <2>1, <2>2, <2>3, PlainPlanKeepsTurns
<1> QED
  BY <1>1, <1>2, <1>3, <1>4 DEF LoadEnlist

LEMMA LoadingMastersKeepsTurns ==
    ASSUME Structure, OneAtATime, "confirm" \notin Kinds, NEW g \in Groups, queue[g] # <<>>,
           NEW c, c = CommandAt(g), ~Refused(c),
           LoadSift(g, c) \/ LoadPromote(g, c) \/ LoadAmount(g, c)
    PROVE  OneAtATime' /\ Untouched
<1> DEFINE r == rows[c.event]
           game == games[c.event]
<1>1. /\ c \in Command /\ c.kind # "confirm" /\ WellFormed(c) /\ c.event \in Events /\ r \in Rows
      /\ InTurn(c, work[g], game, r, c.op \in applied)
  BY AtTurn
\* A repeated sift that finds nothing to move tells only those it has recorded.
<1>2. CASE LoadSift(g, c) /\ Begin(g, When(game.removal.op # c.op, <<"removal">>) \o <<"read", "send", "reply">>, Idle)
  <2> DEFINE before == When(game.removal.op # c.op, <<"removal">>)
             rest == <<"read", "send", "reply">>
             todo == before \o rest
             a == [Idle EXCEPT !.todo = todo]
  <2>1. /\ before \in Seq(Steps) /\ rest \in Seq(Steps) /\ before \in Seq(Gentle) /\ rest \in Seq(Gentle)
        /\ \A j \in 1 .. Len(before) : before[j] # "write"
        /\ \A j \in 1 .. Len(rest) : rest[j] # "write"
    <3>1. before \in Seq(Steps) /\ rest \in Seq(Steps)
      BY Pieces, WhenType, FixedPlans DEF IsPlan
    <3>2. \A j \in 1 .. Len(before) : before[j] # "write"
      BY DEF When
    <3>3. before \in Seq(Gentle) /\ rest \in Seq(Gentle)
      BY GentlePieces, GentleWhen
    <3> QED
      BY <3>1, <3>2, <3>3
  <2>2. Begin(g, todo, Idle)
    BY <1>2
  <2> HIDE DEF before, rest
  <2>3. todo \in Seq(Gentle) /\ \A i \in 1 .. Len(todo) : todo[i] # "write"
    BY <2>1, StepsOfPlan, ConcatProperties
  <2> HIDE DEF todo
  <2>4. a.refused = FALSE /\ a.todo = todo
    BY DEF Idle
  <2>5. c.kind = "sift" /\ a.todo \in Seq(Gentle)
    BY <1>2, <2>3, <2>4 DEF LoadSift
  <2> HIDE DEF a
  <2>6. ~Pending(a, "write")
    BY <2>3, <2>4 DEF Pending
  <2> USE DEF a
  <2> QED
    BY <2>2, <2>4, <2>5, <2>6, PlainPlanKeepsTurns
<1>3. ASSUME NEW entries, c.kind = "sift", ~Sifted(r),
             Begin(g, <<"removal", "look", "write", "read", "send", "reply">>, [Idle EXCEPT !.entries = entries])
      PROVE  OneAtATime' /\ Untouched
  <2> DEFINE attempt == [Idle EXCEPT !.entries = entries]
             todo == <<"removal", "look", "write", "read", "send", "reply">>
             a == [attempt EXCEPT !.todo = todo]
  <2>1. a.refused = FALSE /\ a.todo = <<"removal", "look", "write", "read", "send", "reply">>
    BY DEF Idle
  <2>2. Begin(g, todo, attempt)
    BY <1>3
  <2> HIDE DEF a
  <2>3. WritesInOrder(a.todo)
    BY <2>1 DEF WritesInOrder
  <2>4. Pending(a, "look")
    BY <2>1 DEF Pending
  <2>5. Ready(c, a, game, r, c.op \in applied)
    BY <1>3, <2>3, <2>4 DEF Ready, SiftReady
  <2>6. a = [attempt EXCEPT !.todo = todo] /\ a.todo \in Seq(Gentle)
    <3>1. a.todo \in Seq(Gentle)
      BY <2>1 DEF Gentle, Steps
    <3> QED
      BY <3>1 DEF a
  <2> HIDE DEF attempt, todo
  <2> QED
    BY <1>3, <2>1, <2>2, <2>5, <2>6, PlanKeepsTurns
<1>4. CASE LoadSift(g, c)
  <2>1. c.kind = "sift"
    BY <1>4 DEF LoadSift
  <2> QED
    BY <1>2, <1>3, <1>4, <2>1 DEF LoadSift, GameOf
<1>5. CASE LoadPromote(g, c) /\ AlreadySwapped(c)
  <2> DEFINE a == [Idle EXCEPT !.todo = <<"read", "send", "reply">>]
  <2>1. a.refused = FALSE /\ a.todo = <<"read", "send", "reply">>
    BY DEF Idle
  <2> HIDE DEF a
  <2>2. ~Pending(a, "write")
    BY <2>1 DEF Pending
  <2>3. c.kind = "promote" /\ Begin(g, <<"read", "send", "reply">>, Idle) /\ a.todo \in Seq(Gentle)
    BY <1>5, <2>1 DEF LoadPromote, Gentle, Steps
  <2> USE DEF a
  <2> QED
    BY <2>1, <2>2, <2>3, PlainPlanKeepsTurns
<1>6. ASSUME NEW p \in Players, c.kind = "promote", ~AlreadySwapped(c), IsSwap(r, game.amount, Key(c), p),
             Begin(g, <<"removal", "write", "read", "send", "reply">>,
                   [Idle EXCEPT !.entries = Entries("up", c.player) \cup Entries("down", {p}),
                                !.time = RowOf(c).at, !.mate = {p}, !.mateTime = r[p].at])
      PROVE  OneAtATime' /\ Untouched
  <2> DEFINE entries == Entries("up", c.player) \cup Entries("down", {p})
             attempt == [Idle EXCEPT !.entries = entries, !.time = RowOf(c).at, !.mate = {p}, !.mateTime = r[p].at]
             todo == <<"removal", "write", "read", "send", "reply">>
             a == [attempt EXCEPT !.todo = todo]
  <2>1. /\ a.refused = FALSE /\ a.todo = <<"removal", "write", "read", "send", "reply">>
        /\ a.entries = entries /\ a.time = RowOf(c).at /\ a.mate = {p} /\ a.mateTime = r[p].at
    BY DEF Idle
  <2>2. Begin(g, todo, attempt)
    BY <1>6
  <2>3. Up(c) \in entries
    <3>1. c.player = {Key(c)}
      BY <1>1, <1>6, KeyOf DEF ByTarget
    <3> QED
      BY <3>1 DEF Up, Entries
  <2> HIDE DEF a, entries
  <2>4. WritesInOrder(a.todo)
    BY <2>1 DEF WritesInOrder
  <2>5. Pending(a, "removal")
    BY <2>1 DEF Pending
  <2>6. PromoteReady(c, a, game, r)
    BY <1>6, <2>1, <2>3, <2>5 DEF PromoteReady, RowOf
  <2>7. c.op \notin applied
    <3>1. ~Swapped(c, game, r)
      BY <1>1, <1>6, RejectedIsRefused
    <3> QED
      BY <1>1, <1>6, <3>1 DEF InTurn, Admitted
  <2>8. Ready(c, a, game, r, c.op \in applied)
    BY <1>6, <2>4, <2>6, <2>7 DEF Ready
  <2>9. a = [attempt EXCEPT !.todo = todo] /\ a.todo \in Seq(Gentle)
    <3>1. a.todo \in Seq(Gentle)
      BY <2>1 DEF Gentle, Steps
    <3> QED
      BY <3>1 DEF a
  <2> HIDE DEF attempt, todo
  <2> QED
    BY <1>6, <2>1, <2>2, <2>8, <2>9, PlanKeepsTurns
<1>7. CASE LoadPromote(g, c)
  <2>1. c.kind = "promote"
    BY <1>7 DEF LoadPromote
  <2> QED
    BY <1>5, <1>6, <1>7, <2>1 DEF LoadPromote, GameOf
<1>8. CASE LoadAmount(g, c)
  <2> DEFINE entries == Entries("up", MainRoster(r, c.amount) \ MainRoster(r, GameOf(c).amount))
             attempt == [Idle EXCEPT !.entries = entries]
             before == When(GameOf(c).removal.op # c.op, <<"removal">>)
             rest == <<"write", "read", "send", "reply">>
             todo == before \o rest
             a == [attempt EXCEPT !.todo = todo]
  <2>1. c.kind = "amount" /\ Begin(g, todo, attempt)
    BY <1>8 DEF LoadAmount
  <2> HIDE DEF entries
  <2>2. a.refused = FALSE /\ a.todo = todo
    BY DEF Idle
  <2>3. a.todo \in Seq(Gentle)
    <3>1. before \in Seq(Gentle) /\ rest \in Seq(Gentle)
      BY GentlePieces, GentleWhen
    <3> HIDE DEF before, rest
    <3> QED
      BY <2>2, <3>1, ConcatProperties
  <2> HIDE DEF attempt, todo
  <2> QED
    BY <2>1, <2>2, <2>3, PlainPlanKeepsTurns
<1> QED
  BY <1>4, <1>7, <1>8

LEMMA LoadingGameKeepsTurns ==
    ASSUME Structure, OneAtATime, "confirm" \notin Kinds, NEW g \in Groups, queue[g] # <<>>,
           NEW c, c = CommandAt(g), ~Refused(c),
           LoadStatus(g, c) \/ LoadArchival(g, c)
    PROVE  OneAtATime' /\ Untouched
<1>1. ASSUME NEW todo, c.kind \notin {"enlist", "sift", "promote"}, Begin(g, todo, Idle),
             c.kind = "delete" \/ todo \in Seq(Gentle),
             c.kind \in {"archive", "delete"} =>
                 \A i \in 1 .. Len(todo) : todo[i] \notin {"tellReserve", "tellLink", "read"}
      PROVE  OneAtATime' /\ Untouched
  <2> DEFINE a == [Idle EXCEPT !.todo = todo]
  <2>1. a.refused = FALSE /\ a.todo = todo
    BY DEF Idle
  <2> HIDE DEF a
  <2>2. c.kind \in {"archive", "delete"} =>
            ~Pending(a, "tellReserve") /\ ~Pending(a, "tellLink") /\ ~Pending(a, "read")
    BY <1>1, <2>1 DEF Pending
  <2> USE DEF a
  <2> QED
    BY <1>1, <2>1, <2>2, PlainPlanKeepsTurns
<1>2. CASE LoadStatus(g, c)
  <2>1. CASE c.kind \in {"touch", "open", "close"} /\ Begin(g, <<"write", "reply">>, Idle)
    <3>1. <<"write", "reply">> \in Seq(Gentle)
      BY DEF Gentle, Steps
    <3> QED
      BY <1>1, <2>1, <3>1
  <2>2. CASE /\ c.kind = "open_confirmation"
             /\ Begin(g, <<"write">> \o When(GameOf(c).status # "confirmation_open", <<"read", "send">>)
                         \o <<"reply">>, Idle)
    <3> DEFINE notices == When(GameOf(c).status # "confirmation_open", <<"read", "send">>)
               todo == <<"write">> \o notices \o <<"reply">>
    <3>1. notices \in Seq(Gentle) /\ <<"write">> \in Seq(Gentle) /\ <<"reply">> \in Seq(Gentle)
      BY GentlePieces, GentleWhen
    <3> HIDE DEF notices
    <3>2. todo \in Seq(Gentle)
      BY <3>1, ConcatProperties
    <3>3. Begin(g, todo, Idle) /\ c.kind = "open_confirmation"
      BY <2>2 DEF notices
    <3> HIDE DEF todo
    <3> QED
      BY <1>1, <3>2, <3>3
  <2> QED
    BY <1>2, <2>1, <2>2 DEF LoadStatus
<1>3. ASSUME NEW condition, NEW s \in {<<"write">>, <<"erase", "drop">>}
      PROVE  \A i \in 1 .. Len(When(condition, s) \o <<"reply">>) :
                 (When(condition, s) \o <<"reply">>)[i] \notin {"tellReserve", "tellLink", "read"}
  <2> DEFINE before == When(condition, s)
             rest == <<"reply">>
  <2>1. before \in Seq(Steps) /\ rest \in Seq(Steps)
    BY <1>3, Pieces, WhenType, FixedPlans DEF IsPlan
  <2>2. /\ \A j \in 1 .. Len(before) : before[j] \notin {"tellReserve", "tellLink", "read"}
        /\ \A j \in 1 .. Len(rest) : rest[j] \notin {"tellReserve", "tellLink", "read"}
    <3>1. CASE before = <<>>
      BY <3>1
    <3>2. CASE before = <<"write">>
      BY <3>2
    <3>3. CASE before = <<"erase", "drop">>
      BY <3>3
    <3> QED
      BY <1>3, <3>1, <3>2, <3>3 DEF When
  <2> HIDE DEF before, rest
  <2>3. \A i \in 1 .. Len(before \o rest) : (before \o rest)[i] \notin {"tellReserve", "tellLink", "read"}
    BY <2>1, <2>2, StepsOfPlan
  <2> QED
    BY <2>3 DEF before, rest
<1>4. ASSUME NEW condition, NEW s \in {<<"write">>, <<"erase", "drop">>},
             c.kind = "delete" \/ s = <<"write">>,
             c.kind \notin {"enlist", "sift", "promote"}, Begin(g, When(condition, s) \o <<"reply">>, Idle)
      PROVE  OneAtATime' /\ Untouched
  <2> DEFINE before == When(condition, s)
             todo == before \o <<"reply">>
  <2>1. Begin(g, todo, Idle) /\ \A i \in 1 .. Len(todo) : todo[i] \notin {"tellReserve", "tellLink", "read"}
    BY <1>3, <1>4
  <2>2. c.kind = "delete" \/ todo \in Seq(Gentle)
    <3> SUFFICES ASSUME s = <<"write">> PROVE todo \in Seq(Gentle)
      BY <1>4
    <3>1. before \in Seq(Gentle) /\ <<"reply">> \in Seq(Gentle)
      BY GentlePieces, GentleWhen
    <3> HIDE DEF before
    <3> QED
      BY <3>1, ConcatProperties
  <2> HIDE DEF todo
  <2> QED
    BY <1>1, <1>4, <2>1, <2>2
<1>5. CASE LoadArchival(g, c)
  BY <1>4, <1>5 DEF LoadArchival
<1> QED
  BY <1>2, <1>5

LEMMA LoadingKeepsTurns ==
    ASSUME Structure, OneAtATime, "confirm" \notin Kinds, NEW g \in Groups, Load(g)
    PROVE  OneAtATime' /\ Untouched
<1> DEFINE c == CommandAt(g)
<1>1. queue[g] # <<>> /\ c = Head(queue[g])
  BY DEF Load, CommandAt
<1>2. c.kind # "confirm"
  BY <1>1, AtTurn
<1> HIDE DEF c
<1>3. CASE (Refused(c) /\ Refuse(g)) \/ Deny(g)
  BY <1>1, <1>3, RefusingKeepsTurns DEF c
<1>4. CASE ~Refused(c) /\ (LoadEnlist(g, c) \/ LoadCancel(g, c) \/ LoadRemove(g, c))
  BY <1>1, <1>4, LoadingRosterKeepsTurns DEF c
<1>5. CASE ~Refused(c) /\ (LoadSift(g, c) \/ LoadPromote(g, c) \/ LoadAmount(g, c))
  BY <1>1, <1>5, LoadingMastersKeepsTurns DEF c
<1>6. CASE ~Refused(c) /\ (LoadStatus(g, c) \/ LoadArchival(g, c))
  BY <1>1, <1>6, LoadingGameKeepsTurns DEF c
<1> QED
  BY <1>1, <1>2, <1>3, <1>4, <1>5, <1>6 DEF Load, LoadConfirm

-----------------------------------------------------------------------------
\* An attempt ends, and the next command comes

\* A failed attempt leaves what it has written, and the command is as it was.
LEMMA FailingKeepsTurns ==
    ASSUME Structure, OneAtATime, "confirm" \notin Kinds, NEW g \in Groups, Fail(g)
    PROVE  OneAtATime' /\ Untouched
<1> DEFINE c == CommandAt(g)
           e == c.event
<1>1. work[g].todo # <<>> /\ work' = [work EXCEPT ![g] = Idle] /\ UNCHANGED <<games, rows, queue, applied>>
  BY DEF Fail, history
<1>2. /\ queue[g] # <<>> /\ e \in Events /\ games \in [Events -> Game]
      /\ InTurn(c, work[g], games[e], rows[e], c.op \in applied)
  BY <1>1, AtStep, AtTurn DEF Structure, TypeOK
<1>3. Idle.refused = FALSE /\ Idle.todo = <<>> /\ \A step : ~Pending(Idle, step)
  BY IdleType DEF Idle, Pending
<1>4. InTurn(c, Idle, games[e], rows[e], c.op \in applied)
  BY <1>2, <1>3 DEF InTurn, Admitted, Ready
<1>5. games' = [games EXCEPT ![e] = games[e]] /\ Mild(c, games[e], games[e])
  BY <1>1, <1>2 DEF Mild
<1> QED
  BY <1>1, <1>2, <1>4, <1>5, QuietStepKeepsTurns

\* What a refused command has left to do, and what one that is accepted is not.
LEMMA StepInTurn ==
    ASSUME Structure, OneAtATime, "confirm" \notin Kinds, NEW g \in Groups, work[g].todo # <<>>,
           NEW step, step = Head(work[g].todo), step # "reply"
    PROVE  LET c == CommandAt(g) IN
           /\ queue[g] # <<>> /\ Pending(work[g], step) /\ ~work[g].refused
           /\ ~Rejected(c, games[c.event], rows[c.event])
<1> DEFINE c == CommandAt(g)
<1>1. queue[g] # <<>> /\ InTurn(c, work[g], games[c.event], rows[c.event], c.op \in applied)
  BY AtStep, AtTurn
<1>2. work[g].todo \in Seq(Steps)
  BY AtStep, AtTurn DEF Attempt
<1>3. Pending(work[g], step)
  <2>1. Len(work[g].todo) \in Nat /\ Len(work[g].todo) # 0 /\ Head(work[g].todo) = work[g].todo[1]
    BY <1>2, EmptySeq, HeadTailProperties, LenProperties
  <2> QED
    BY <2>1 DEF Pending
<1>4. Head(<<"reply">>) = "reply"
  OBVIOUS
<1> QED
  BY <1>1, <1>3, <1>4 DEF InTurn, Admitted

\* No other command of the game can delete it before its notices are sent.
LEMMA NoGameIsLost ==
    ASSUME Structure, OneAtATime, "confirm" \notin Kinds, NEW g \in Groups
    PROVE  ~LoseGame(g)
<1> SUFFICES ASSUME LoseGame(g) PROVE FALSE
  OBVIOUS
<1> DEFINE c == CommandAt(g)
           step == Head(work[g].todo)
<1>1. work[g].todo # <<>> /\ step \in {"tellReserve", "tellLink", "read"} /\ ~games[DrawnOn(g)].exists
  BY DEF LoseGame, At
<1>2. queue[g] # <<>> /\ Pending(work[g], step) /\ ~Rejected(c, games[c.event], rows[c.event])
  BY <1>1, StepInTurn
<1>3. DrawnOn(g) = c.event /\ InTurn(c, work[g], games[c.event], rows[c.event], c.op \in applied)
  BY <1>2, AtTurn
<1> QED
  BY <1>1, <1>2, <1>3 DEF InTurn, Admitted, Rejected

\* The next command of the group has begun nothing.
LEMMA UnbegunInTurn ==
    ASSUME NEW c, NEW w, w.todo = <<>>, ~w.refused, NEW game, NEW r
    PROVE  InTurn(c, w, game, r, FALSE)
<1>1. \A step : ~Pending(w, step)
  BY DEF Pending
<1> QED
  BY <1>1 DEF InTurn, Admitted, Ready

LEMMA AnsweringKeepsTurns ==
    ASSUME Structure, OneAtATime, "confirm" \notin Kinds, NEW g \in Groups, Reply(g)
    PROVE  OneAtATime' /\ Untouched
<1>1. UNCHANGED <<games, rows, applied>>
  BY DEF Reply, history
<1>2. /\ queue[g] # <<>>
      /\ \A h \in Groups \ {g} : queue'[h] = queue[h] /\ work'[h] = work[h]
      /\ work'[g] = Idle /\ queue'[g] \in Seq(Command)
      /\ \A i \in 1 .. Len(queue'[g]) :
            i + 1 \in 1 .. Len(queue[g]) /\ i + 1 > 1 /\ queue'[g][i] = queue[g][i + 1]
  BY ReplyEffect
<1>3. Idle.refused = FALSE /\ Idle.todo = <<>>
  BY IdleType DEF Idle
<1>4. ASSUME NEW h \in Groups, queue'[h] # <<>>, NEW c, c = Head(queue'[h])
      PROVE  InTurn(c, work'[h], games[c.event], rows[c.event], c.op \in applied)
  <2>1. CASE h = g
    <3>1. Head(queue'[g]) = queue'[g][1] /\ 1 \in 1 .. Len(queue'[g])
      BY <1>2, <1>4, <2>1, EmptySeq, HeadTailProperties, LenProperties
    <3>2. 1 + 1 \in 1 .. Len(queue[g]) /\ 1 + 1 > 1 /\ c = queue[g][1 + 1]
      BY <1>2, <1>4, <2>1, <3>1
    <3>3. Fresh(c.op)
      BY <3>2 DEF Structure, QueuesSound
    <3>4. InTurn(c, Idle, games[c.event], rows[c.event], FALSE)
      BY <1>3, UnbegunInTurn
    <3>5. (c.op \in applied) = FALSE
      BY <3>3 DEF Fresh
    <3> QED
      BY <1>2, <2>1, <3>4, <3>5
  <2>2. CASE h # g
    BY <1>2, <1>4, <2>2 DEF OneAtATime, EveryHeadInTurn, CommandAt
  <2> QED
    BY <2>1, <2>2
<1>5. EveryHeadInTurn'
  BY <1>1, <1>4 DEF EveryHeadInTurn, CommandAt
<1>6. NobodyRefused'
  BY <1>2, <1>3 DEF OneAtATime, NobodyRefused
<1>7. MarksAreApplied' /\ QueueTimesDistinct'
  BY <1>1 DEF OneAtATime, MarksAreApplied, QueueTimesDistinct, DistinctTimes, Active
<1> QED
  BY <1>1, <1>5, <1>6, <1>7 DEF OneAtATime, Untouched

LEMMA PublishingKeepsTurns ==
    ASSUME Structure, OneAtATime, "confirm" \notin Kinds, Publish
    PROVE  OneAtATime' /\ Untouched
<1>1. UNCHANGED <<games, rows, work, applied>> /\ Fresh(published + 1)
  BY PublishEffect
<1>2. PICK c \in Command :
          /\ c.op = published + 1 /\ queue' \in [Groups -> Seq(Command)]
          /\ \A g \in Groups : \A i \in 1 .. Len(queue'[g]) :
                \/ i \in 1 .. Len(queue[g]) /\ queue'[g][i] = queue[g][i]
                \/ g = GroupOf(c) /\ i = Len(queue[g]) + 1 /\ queue'[g][i] = c
          /\ \A g \in Groups : queue[g] # <<>> => CommandAt(g)' = CommandAt(g)
          /\ \A g \in Groups : queue[g] # <<>> => queue'[g] # <<>>
  BY PublishEffect
<1>3. ASSUME NEW h \in Groups, queue'[h] # <<>>, NEW d, d = Head(queue'[h])
      PROVE  InTurn(d, work[h], games[d.event], rows[d.event], d.op \in applied)
  <2>1. CASE queue[h] # <<>>
    <3>1. d = CommandAt(h)
      BY <1>2, <1>3, <2>1 DEF CommandAt
    <3> QED
      BY <2>1, <3>1 DEF OneAtATime, EveryHeadInTurn
  <2>2. CASE queue[h] = <<>>
    <3>1. queue'[h] \in Seq(Command)
      BY <1>2
    <3>2. Head(queue'[h]) = queue'[h][1] /\ 1 \in 1 .. Len(queue'[h])
      BY <1>3, <3>1, EmptySeq, HeadTailProperties, LenProperties
    <3>3. ~(1 \in 1 .. Len(queue[h]))
      BY <2>2
    <3>4. d = c
      BY <1>2, <1>3, <3>2, <3>3
    <3>5. work[h].todo = <<>> /\ ~work[h].refused
      BY <2>2 DEF Structure, TypeOK, OneAtATime, NobodyRefused
    <3>6. InTurn(d, work[h], games[d.event], rows[d.event], FALSE)
      BY <3>5, UnbegunInTurn
    <3>7. (d.op \in applied) = FALSE
      BY <1>1, <1>2, <3>4 DEF Fresh
    <3> QED
      BY <3>6, <3>7
  <2> QED
    BY <2>1, <2>2
<1>4. EveryHeadInTurn'
  BY <1>1, <1>3 DEF EveryHeadInTurn, CommandAt
<1>5. NobodyRefused'
  BY <1>1, <1>2 DEF OneAtATime, NobodyRefused
<1>6. MarksAreApplied' /\ QueueTimesDistinct'
  BY <1>1 DEF OneAtATime, MarksAreApplied, QueueTimesDistinct, DistinctTimes, Active
<1> QED
  BY <1>1, <1>4, <1>5, <1>6 DEF OneAtATime, Untouched

LEMMA StutterKeepsTurns ==
    ASSUME OneAtATime, UNCHANGED vars
    PROVE  OneAtATime' /\ Untouched
<1>1. UNCHANGED <<games, rows, queue, work, applied>>
  BY DEF vars
<1>2. EveryHeadInTurn'
  BY <1>1 DEF OneAtATime, EveryHeadInTurn, CommandAt
<1>3. NobodyRefused' /\ MarksAreApplied' /\ QueueTimesDistinct'
  BY <1>1 DEF OneAtATime, NobodyRefused, MarksAreApplied, QueueTimesDistinct, DistinctTimes, Active
<1> QED
  BY <1>1, <1>2, <1>3 DEF OneAtATime, Untouched

-----------------------------------------------------------------------------
\* A game as the atomic specification sees it

LEMMA SameCardinality == \A e, S : AtomicGame(e)!Cardinality(S) = Cardinality(S)
BY DEF Cardinality, AtomicGame!Cardinality

LEMMA SamePosition ==
    ASSUME NEW e, NEW r, NEW p
    PROVE  AtomicGame(e)!Position(r, p) = Position(r, p)
BY SameCardinality DEF AtomicGame!Position, Position, AtomicGame!Active, Active, AtomicGame!Before, Before

LEMMA SameQueue ==
    ASSUME NEW e, NEW r
    PROVE  /\ AtomicGame(e)!Active(r) = Active(r)
           /\ AtomicGame(e)!Sifted(r) = Sifted(r)
           /\ \A n : AtomicGame(e)!MainRoster(r, n) = MainRoster(r, n)
           /\ \A n : AtomicGame(e)!ReserveRoster(r, n) = ReserveRoster(r, n)
           /\ \A now, time : AtomicGame(e)!IsQueueTime(r, now, time) = IsQueueTime(r, now, time)
           /\ \A shift : AtomicGame(e)!IsShift(r, shift) = IsShift(r, shift)
           /\ \A n, p, q : AtomicGame(e)!IsSwap(r, n, p, q) = IsSwap(r, n, p, q)
<1>1. AtomicGame(e)!Active(r) = Active(r)
  BY DEF AtomicGame!Active, Active
<1>2. AtomicGame(e)!Sifted(r) = Sifted(r)
  BY DEF AtomicGame!Sifted, Sifted, AtomicGame!WithStatus, WithStatus, AtomicGame!Before, Before
<1>3. \A n : AtomicGame(e)!MainRoster(r, n) = MainRoster(r, n)
  BY <1>1, SamePosition DEF AtomicGame!MainRoster, MainRoster
<1>4. \A n : AtomicGame(e)!ReserveRoster(r, n) = ReserveRoster(r, n)
  BY <1>1, <1>3 DEF AtomicGame!ReserveRoster, ReserveRoster
<1>5. \A now, time : AtomicGame(e)!IsQueueTime(r, now, time) = IsQueueTime(r, now, time)
  BY <1>1 DEF AtomicGame!IsQueueTime, IsQueueTime
<1>6. \A shift : AtomicGame(e)!IsShift(r, shift) = IsShift(r, shift)
  BY <1>1 DEF AtomicGame!IsShift, IsShift
<1>7. \A n, p, q : AtomicGame(e)!IsSwap(r, n, p, q) = IsSwap(r, n, p, q)
  BY <1>3, <1>4 DEF AtomicGame!IsSwap, IsSwap, AtomicGame!Before, Before
<1> QED
  BY <1>1, <1>2, <1>3, <1>4, <1>5, <1>6, <1>7

LEMMA SameWrites ==
    ASSUME NEW e, NEW r
    PROVE  /\ \A p, op : AtomicGame(e)!CancelRow(r, p, op) = CancelRow(r, p, op)
           /\ \A p, op : AtomicGame(e)!TouchRow(r, p, op) = TouchRow(r, p, op)
           /\ \A p, op, time : AtomicGame(e)!EnlistRow(r, p, op, time) = EnlistRow(r, p, op, time)
           /\ \A shift : AtomicGame(e)!SiftRows(r, shift) = SiftRows(r, shift)
           /\ \A op, p, pAt, q, qAt :
                 AtomicGame(e)!SwapRows(r, op, p, pAt, q, qAt) = SwapRows(r, op, p, pAt, q, qAt)
           /\ AtomicGame(e)!NoRow = NoRow
<1>1. \A p, op : AtomicGame(e)!CancelRow(r, p, op) = CancelRow(r, p, op)
  BY DEF AtomicGame!CancelRow, CancelRow, AtomicGame!Update, Update
<1>2. \A p, op : AtomicGame(e)!TouchRow(r, p, op) = TouchRow(r, p, op)
  BY DEF AtomicGame!TouchRow, TouchRow, AtomicGame!Update, Update
<1>3. \A p, op, time : AtomicGame(e)!EnlistRow(r, p, op, time) = EnlistRow(r, p, op, time)
  BY DEF AtomicGame!EnlistRow, EnlistRow
<1>4. \A shift : AtomicGame(e)!SiftRows(r, shift) = SiftRows(r, shift)
  BY DEF AtomicGame!SiftRows, SiftRows
<1>5. \A op, p, pAt, q, qAt : AtomicGame(e)!SwapRows(r, op, p, pAt, q, qAt) = SwapRows(r, op, p, pAt, q, qAt)
  BY DEF AtomicGame!SwapRows, SwapRows, AtomicGame!MoveRow, MoveRow
<1>6. AtomicGame(e)!NoRow = NoRow
  BY DEF AtomicGame!NoRow, NoRow
<1> QED
  BY <1>1, <1>2, <1>3, <1>4, <1>5, <1>6

\* A step is an operation on a game, or leaves its queue and capacity alone.
AtomicSteps == \A f \in Events : AtomicGame(f)!RosterNext \/ UNCHANGED AtomicGame(f)!rosterVars

LEMMA QuietIsAtomic == Untouched => AtomicSteps
BY DEF Untouched, AtomicSteps, AtomicGame!rosterVars

\* A write to one game is seen in that game only.
LEMMA WriteIsAtomic ==
    ASSUME Structure, NEW e \in Events, NEW game, NEW r,
           games' = [games EXCEPT ![e] = game], rows' = [rows EXCEPT ![e] = r],
           AtomicGame(e)!RosterNext \/ (r = rows[e] /\ game.amount = games[e].amount)
    PROVE  AtomicSteps
<1>1. /\ rows'[e] = r /\ \A f \in Events \ {e} : rows'[f] = rows[f]
      /\ games'[e] = game /\ \A f \in Events \ {e} : games'[f] = games[f]
  BY DEF Structure, TypeOK
<1>2. ASSUME NEW f \in Events
      PROVE  AtomicGame(f)!RosterNext \/ UNCHANGED AtomicGame(f)!rosterVars
  <2>1. CASE f = e
    BY <1>1, <2>1 DEF AtomicGame!rosterVars
  <2>2. CASE f # e
    BY <1>1, <2>2 DEF AtomicGame!rosterVars
  <2> QED
    BY <2>1, <2>2
<1> QED
  BY <1>2 DEF AtomicSteps

-----------------------------------------------------------------------------
\* The places in the queue of a game, and what the writes do to them

\* Players may leave the queue, or change status in it, without two of the
\* others coming to share a place.
LEMMA LeavingKeepsDistinct ==
    ASSUME NEW r \in Rows, NEW s \in Rows, DistinctTimes(r),
           Active(s) \subseteq Active(r),
           \A p \in Active(s) : s[p].at = r[p].at
    PROVE  DistinctTimes(s)
  BY DEF DistinctTimes

\* The row a signup writes is behind every active row.
LEMMA EnlistKeepsDistinct ==
    ASSUME NEW r \in Rows, DistinctTimes(r),
           NEW p \in Players, NEW op \in OperationIds, NEW now \in Nat, NEW time \in Nat,
           p \notin Active(r), IsQueueTime(r, now, time)
    PROVE  DistinctTimes(EnlistRow(r, p, op, time))
<1> DEFINE s == EnlistRow(r, p, op, time)
<1>1. s \in Rows /\ s[p].at = time
  BY DEF EnlistRow, Rows, Row, Statuses
<1>2. \A q \in Players \ {p} : s[q] = r[q]
  BY DEF EnlistRow, Rows
<1>3. \A q \in Active(s) : q = p \/ q \in Active(r) \ {p}
  BY <1>2 DEF Active
<1>4. \A q \in Active(r) : r[q].at < time
  BY DEF IsQueueTime, Active, Rows, Row
<1>5. \A q \in Active(r) \ {p} : s[q].at < s[p].at /\ s[q].at = r[q].at
  BY <1>1, <1>2, <1>4 DEF Active
<1>6. \A q \in Active(s) : s[q].at \in Nat
  BY <1>1 DEF Active, Rows, Row
<1> QED
  BY <1>3, <1>5, <1>6 DEF DistinctTimes

\* A sift moves the waiting rows together, and behind all the confirmed ones.
LEMMA SiftKeepsDistinct ==
    ASSUME NEW r \in Rows, DistinctTimes(r), NEW shift \in Nat, IsShift(r, shift)
    PROVE  DistinctTimes(SiftRows(r, shift))
<1> DEFINE s == SiftRows(r, shift)
<1>1. ASSUME NEW p \in Players
      PROVE  /\ s[p].status = r[p].status
             /\ s[p].at = IF r[p].status = "waiting" THEN r[p].at + shift ELSE r[p].at
             /\ r[p].at \in Nat
  BY DEF SiftRows, Rows, Row
<1>2. Active(s) = Active(r)
  BY <1>1 DEF Active
<1>3. \A p, q \in Active(r) : r[p].at < r[q].at + shift
  BY DEF IsShift
<1>4. ASSUME NEW p \in Active(r), NEW q \in Active(r), s[p].at = s[q].at
      PROVE  r[p].at = r[q].at
  BY <1>1, <1>3, <1>4 DEF Active
<1> QED
  BY <1>2, <1>4 DEF DistinctTimes

\* A promotion exchanges two places.
LEMMA SwapExchanges ==
    ASSUME NEW r \in Rows, NEW op \in OperationIds,
           NEW p \in Players, NEW q \in Players, p # q,
           r[p].status # "none", r[q].status # "none", r[p].op # op, r[q].op # op
    PROVE  LET s == SwapRows(r, op, p, r[p].at, q, r[q].at) IN
           /\ s \in Rows
           /\ \A x \in Players : s[x].status = r[x].status
           /\ s[p].at = r[q].at /\ s[q].at = r[p].at
           /\ \A x \in Players \ {p, q} : s[x] = r[x]
<1> DEFINE m == MoveRow(r, p, op, r[q].at)
<1>1. m = [r EXCEPT ![p].at = r[q].at, ![p].op = op]
  BY DEF MoveRow
<1>2. /\ m \in Rows
      /\ m[p].at = r[q].at
      /\ \A x \in Players : m[x].status = r[x].status
      /\ \A x \in Players \ {p} : m[x] = r[x]
  BY <1>1 DEF Rows, Row
<1> HIDE DEF m
<1> DEFINE s == MoveRow(m, q, op, r[p].at)
<1>3. m[q].status # "none" /\ m[q].op # op
  BY <1>2
<1>4. s = [m EXCEPT ![q].at = r[p].at, ![q].op = op]
  BY <1>3 DEF MoveRow
<1>5. /\ s \in Rows
      /\ s[q].at = r[p].at
      /\ \A x \in Players : s[x].status = m[x].status
      /\ \A x \in Players \ {q} : s[x] = m[x]
  BY <1>2, <1>4 DEF Rows, Row
<1>6. s = SwapRows(r, op, p, r[p].at, q, r[q].at)
  BY DEF SwapRows, m
<1> QED
  BY <1>2, <1>5, <1>6

\* A promotion leaves the places distinct: the same ones are taken.
LEMMA SwapKeepsDistinct ==
    ASSUME NEW r \in Rows, DistinctTimes(r), NEW op \in OperationIds,
           NEW p \in Active(r), NEW q \in Active(r), p # q,
           r[p].op # op, r[q].op # op
    PROVE  DistinctTimes(SwapRows(r, op, p, r[p].at, q, r[q].at))
<1> DEFINE s == SwapRows(r, op, p, r[p].at, q, r[q].at)
<1>1. p \in Players /\ q \in Players /\ r[p].status # "none" /\ r[q].status # "none"
  BY DEF Active
<1>2. /\ \A x \in Players : s[x].status = r[x].status
      /\ s[p].at = r[q].at /\ s[q].at = r[p].at
      /\ \A x \in Players \ {p, q} : s[x] = r[x]
  BY <1>1, SwapExchanges
<1>3. Active(s) = Active(r)
  BY <1>2 DEF Active
<1>4. \A x, y \in Active(r) : r[x].at = r[y].at => x = y
  BY DEF DistinctTimes
<1>5. Active(r) \subseteq Players
  BY DEF Active
<1>6. DistinctTimes(s)
  <2> HIDE DEF s
  <2> QED
    BY <1>2, <1>3, <1>4, <1>5 DEF DistinctTimes
<1> QED
  BY <1>6

\* The active players ahead of p; Position counts them.
Ahead(r, p) == {q \in Active(r) : Before(r, q, p)}

\* Of two players, one is ahead of the other and not the other way round.
LEMMA QueueIsLinear ==
    ASSUME NEW r \in Rows, NEW p \in Players, NEW q \in Players, p # q
    PROVE  Before(r, p, q) <=> ~Before(r, q, p)
  BY RowsAssumption DEF Before, Rows, Row

\* Being ahead is transitive.
LEMMA QueueIsTransitive ==
    ASSUME NEW r \in Rows, NEW p \in Players, NEW q \in Players, NEW x \in Players,
           Before(r, p, q), Before(r, q, x)
    PROVE  Before(r, p, x)
  BY RowsAssumption DEF Before, Rows, Row

\* A place is a natural number: a queue is finite.
LEMMA PositionIsNat ==
    ASSUME NEW r, NEW p
    PROVE  IsFiniteSet(Ahead(r, p)) /\ Position(r, p) \in Nat
<1>1. Ahead(r, p) \subseteq Players
  BY DEF Ahead, Active
<1>2. IsFiniteSet(Ahead(r, p))
  BY <1>1, RowsAssumption, FS_Subset
<1> QED
  BY <1>2, FS_CardinalityType DEF Position, Ahead

\* With nobody new ahead, a player does not fall back.
LEMMA FewerAhead ==
    ASSUME NEW r, NEW s, NEW p, NEW q, Ahead(s, q) \subseteq Ahead(r, p)
    PROVE  Position(s, q) <= Position(r, p)
<1>1. IsFiniteSet(Ahead(r, p))
  BY PositionIsNat
<1> QED
  BY <1>1, FS_Subset DEF Position, Ahead

\* Every player of the main roster is ahead of every player of the reserve.
LEMMA MainBeforeReserve ==
    ASSUME NEW r \in Rows, NEW n \in Nat,
           NEW p \in MainRoster(r, n), NEW q \in ReserveRoster(r, n)
    PROVE  Before(r, p, q)
<1>1. /\ p \in Players /\ q \in Players /\ p # q
      /\ q \in Active(r) /\ Position(r, p) < n /\ ~(Position(r, q) < n)
  BY DEF MainRoster, ReserveRoster, Active
<1>2. SUFFICES ASSUME Before(r, q, p) PROVE FALSE
  BY <1>1, QueueIsLinear
<1>3. Ahead(r, q) \subseteq Ahead(r, p)
  BY <1>1, <1>2, QueueIsTransitive DEF Ahead, Active
<1>4. Position(r, q) <= Position(r, p) /\ Position(r, q) \in Nat /\ Position(r, p) \in Nat
  BY <1>3, FewerAhead, PositionIsNat
<1> QED
  BY <1>1, <1>4

\* A swap puts the promoted player into the main roster: nobody is ahead of
\* the place taken over who was not ahead of the demoted player.
LEMMA SwapPromotes ==
    ASSUME NEW r \in Rows, DistinctTimes(r), NEW n \in Nat, NEW op \in OperationIds,
           NEW x \in Players, NEW y \in Players, IsSwap(r, n, x, y), r[x].op # op, r[y].op # op
    PROVE  x \in MainRoster(SwapRows(r, op, x, r[x].at, y, r[y].at), n)
<1> DEFINE s == SwapRows(r, op, x, r[x].at, y, r[y].at)
<1>1. /\ x # y /\ x \in Active(r) /\ y \in Active(r) /\ Position(r, y) < n
      /\ r[x].status # "none" /\ r[y].status # "none"
  BY DEF IsSwap, MainRoster, ReserveRoster, Active
<1>2. Before(r, y, x)
  BY MainBeforeReserve DEF IsSwap
<1>3. /\ s \in Rows
      /\ \A z \in Players : s[z].status = r[z].status
      /\ s[x].at = r[y].at /\ s[y].at = r[x].at
      /\ \A z \in Players \ {x, y} : s[z] = r[z]
  BY <1>1, SwapExchanges
<1> HIDE DEF s
<1>4. Active(s) = Active(r)
  BY <1>3 DEF Active
<1>5. /\ \A z \in Active(r) : z \in Players /\ r[z].at \in Nat
      /\ \A z \in Active(r) \ {y} : r[z].at # r[y].at
  BY <1>1 DEF DistinctTimes, Active, Rows, Row
<1>6. ~Before(s, y, x)
  BY <1>1, <1>2, <1>3, <1>5 DEF Before
<1>7. \A z \in Active(r) \ {x, y} : Before(s, z, x) => Before(r, z, y)
  BY <1>1, <1>3, <1>5 DEF Before
<1>8. ~Before(s, x, x)
  BY <1>3, RowsAssumption DEF Before, Rows, Row
<1>9. Ahead(s, x) \subseteq Ahead(r, y)
  BY <1>4, <1>6, <1>7, <1>8 DEF Ahead
<1>10. Position(s, x) < n
  <2>1. Position(s, x) <= Position(r, y) /\ Position(s, x) \in Nat /\ Position(r, y) \in Nat
    BY <1>9, FewerAhead, PositionIsNat
  <2> QED
    BY <1>1, <2>1
<1> QED
  BY <1>1, <1>4, <1>10 DEF MainRoster, s

-----------------------------------------------------------------------------
\* The writes

\* A write after which its command would not be refused.
LEMMA WriteKeepsTurns ==
    ASSUME Structure, OneAtATime, "confirm" \notin Kinds, NEW g \in Groups, work[g].todo # <<>>,
           Head(work[g].todo) # "reply",
           CommandAt(g).kind \in {"enlist", "sift", "promote"} => Head(work[g].todo) = "write",
           NEW game, NEW r, NEW newGames, NEW newRows, Commit(g, newGames, newRows),
           newGames = [games EXCEPT ![CommandAt(g).event] = game],
           newRows = [rows EXCEPT ![CommandAt(g).event] = r],
           Tame(rows[CommandAt(g).event], r, CommandAt(g).op), DistinctTimes(r),
           ~Rejected(CommandAt(g), game, r),
           CommandAt(g).kind = "promote" => Swapped(CommandAt(g), game, r)
    PROVE  OneAtATime'
<1> DEFINE c == CommandAt(g)
           e == c.event
           w == work[g]
           a == [w EXCEPT !.todo = Tail(@)]
<1>1. /\ queue[g] # <<>> /\ w \in Attempt /\ e \in Events
      /\ InTurn(c, w, games[e], rows[e], c.op \in applied) /\ ~w.refused
      /\ rows \in [Events -> Rows]
  BY AtStep, AtTurn, StepInTurn DEF Structure, TypeOK
<1>2. Continue(g, w) /\ games' = newGames /\ rows' = newRows /\ queue' = queue
      /\ applied' = IF <<newGames, newRows>> = <<games, rows>> THEN applied ELSE applied \cup {c.op}
  BY DEF Commit
<1>3. work' = [work EXCEPT ![g] = a] /\ a \in Attempt /\ a.todo = Tail(w.todo) /\ a.refused = w.refused
  <2>1. w.todo # <<>>
    OBVIOUS
  <2> QED
    BY <1>1, <1>2, <2>1, ContinueEffect
<1> HIDE DEF a
<1>4. \A step : Pending(a, step) => Pending(w, step)
  BY <1>1, <1>3, RestOfPlan
<1>5. ASSUME c.kind \in {"enlist", "sift", "promote"}, Pending(a, "write") PROVE FALSE
  <2>1. WritesInOrder(w.todo)
    BY <1>1, <1>4, <1>5 DEF InTurn, Ready
  <2> QED
    BY <1>1, <1>3, <1>5, <2>1, AroundTheWrite
<1>6. InTurn(c, a, game, r, c.op \in applied')
  <2>1. Ready(c, a, game, r, c.op \in applied')
    BY <1>5 DEF Ready
  <2>2. Admitted(c, a, game, r, c.op \in applied')
    BY <1>1, <1>3, <1>4 DEF InTurn, Admitted
  <2> QED
    BY <2>1, <2>2 DEF InTurn
<1>7. StepOf(g, a, game, r)
  <2>1. r # rows[e] => c.op \in applied'
    <3> HIDE DEF c
    <3>1. newRows[e] = r
      BY <1>1 DEF c
    <3> QED
      BY <1>2, <3>1
  <2>2. applied' = applied \/ applied' = applied \cup {c.op}
    BY <1>2
  <2> QED
    BY <1>2, <1>3, <2>1, <2>2 DEF StepOf
<1> QED
  BY <1>1, <1>6, <1>7, StepKeepsTurns

\* The same, together with what the atomic specification sees of it.
LEMMA WrittenInTurn ==
    ASSUME Structure, OneAtATime, "confirm" \notin Kinds, NEW g \in Groups, work[g].todo # <<>>,
           Head(work[g].todo) # "reply", NEW c, c = CommandAt(g), NEW e \in Events, e = c.event,
           c.kind \in {"enlist", "sift", "promote"} => Head(work[g].todo) = "write",
           NEW game, NEW r, NEW newGames, NEW newRows, Commit(g, newGames, newRows),
           newGames = [games EXCEPT ![e] = game], newRows = [rows EXCEPT ![e] = r],
           Tame(rows[e], r, c.op), DistinctTimes(r),
           ~Rejected(c, game, r), c.kind = "promote" => Swapped(c, game, r)
    PROVE  /\ OneAtATime'
           /\ rows'[e] = r /\ games'[e] = game
           /\ AtomicGame(e)!RosterNext \/ (r = rows[e] /\ game.amount = games[e].amount) => AtomicSteps
<1>1. OneAtATime'
  BY WriteKeepsTurns
<1>2. games' = [games EXCEPT ![e] = game] /\ rows' = [rows EXCEPT ![e] = r]
  BY DEF Commit
<1>3. rows'[e] = r /\ games'[e] = game
  BY <1>2 DEF Structure, TypeOK
<1>4. AtomicGame(e)!RosterNext \/ (r = rows[e] /\ game.amount = games[e].amount) => AtomicSteps
  BY <1>2, WriteIsAtomic
<1> QED
  BY <1>1, <1>3, <1>4

\* What an attempt about to write has read, and what its command is.
LEMMA AtWrite ==
    ASSUME Structure, OneAtATime, "confirm" \notin Kinds, NEW g \in Groups, At(g, "write"),
           NEW c, c = CommandAt(g), NEW e, e = c.event, c.kind \in ByPlayer \cup ByTarget \cup {"sift"}
    PROVE  LET w == work[g] IN
               /\ w.todo # <<>> /\ Head(w.todo) = "write" /\ w \in Attempt /\ e \in Events
               /\ c.op \in OperationIds /\ c.op # NoOperation
               /\ rows[e] \in Rows /\ DistinctTimes(rows[e]) /\ games[e] \in Game
               /\ ~Rejected(c, games[e], rows[e]) /\ Ready(c, w, games[e], rows[e], c.op \in applied)
               /\ Pending(w, "write")
               /\ c.kind \in {"enlist", "sift", "promote"} => ~Pending(w, "removal") /\ ~Pending(w, "look")
               /\ c.kind # "sift" => Key(c) \in Players
               /\ games = [games EXCEPT ![e] = games[e]]
<1> DEFINE w == work[g]
<1>1. w.todo # <<>> /\ Head(w.todo) = "write"
  BY DEF At
<1>2. /\ queue[g] # <<>> /\ Pending(w, "write") /\ ~Rejected(c, games[e], rows[e])
  BY <1>1, StepInTurn
<1>3. /\ w \in Attempt /\ e \in Events /\ c.op \in OperationIds /\ c.op # NoOperation /\ WellFormed(c)
      /\ rows[e] \in Rows /\ DistinctTimes(rows[e]) /\ games[e] \in Game
      /\ InTurn(c, w, games[e], rows[e], c.op \in applied)
  BY <1>2, AtTurn
<1>4. Ready(c, w, games[e], rows[e], c.op \in applied)
  BY <1>3 DEF InTurn
<1>5. ASSUME c.kind \in {"enlist", "sift", "promote"}
      PROVE  ~Pending(w, "removal") /\ ~Pending(w, "look")
  <2>1. WritesInOrder(w.todo)
    BY <1>2, <1>4, <1>5 DEF Ready
  <2> QED
    BY <1>1, <1>3, <2>1, AroundTheWrite
<1>6. c.kind # "sift" => Key(c) \in Players
  BY <1>3, KeyOf
<1>7. games = [games EXCEPT ![e] = games[e]]
  BY <1>3 DEF Structure, TypeOK
<1> QED
  BY <1>1, <1>2, <1>3, <1>4, <1>5, <1>6, <1>7

LEMMA EnlistKeepsTurns ==
    ASSUME Structure, OneAtATime, "confirm" \notin Kinds, NEW g \in Groups, WriteEnlist(g),
           NEW c, c = CommandAt(g), NEW e, e = c.event
    PROVE  OneAtATime' /\ AtomicSteps
<1> DEFINE w == work[g]
           r == rows[e]
           game == games[e]
           p == Key(c)
           after == EnlistRow(r, p, c.op, w.time)
<1>1. c.kind = "enlist" /\ At(g, "write") /\ Commit(g, games, [rows EXCEPT ![e] = after])
  BY DEF WriteEnlist
<1>2. /\ w.todo # <<>> /\ Head(w.todo) = "write" /\ e \in Events /\ c.op \in OperationIds /\ p \in Players
      /\ r \in Rows /\ DistinctTimes(r) /\ ~Rejected(c, game, r) /\ games = [games EXCEPT ![e] = game]
      /\ EnlistReady(c, w, r)
  BY <1>1, AtWrite DEF Ready, ByPlayer
<1>3. PICK now \in Clock : IsQueueTime(r, now, w.time)
  BY <1>2 DEF EnlistReady
<1>4. now \in Times /\ now \in Nat /\ w.time \in Times /\ w.time \in Nat
  BY <1>2, <1>3, OrderedMutationsAssumption DEF EnlistReady
<1>5. p \notin Active(r)
  BY <1>1, <1>2 DEF EnlistReady, Rejected, Active
<1>6. Tame(r, after, c.op) /\ DistinctTimes(after)
  BY <1>2, <1>3, <1>4, <1>5, EnlistIsTame, EnlistKeepsDistinct
<1>7. after[p].op = c.op
  BY <1>2 DEF EnlistRow, Rows
<1> HIDE DEF after
<1>8. ~Rejected(c, game, after)
  <2> HIDE DEF game, r
  <2> QED
    BY <1>1, <1>2, <1>7 DEF Rejected
<1>9. /\ OneAtATime' /\ rows'[e] = after /\ games'[e] = game
      /\ AtomicGame(e)!RosterNext => AtomicSteps
  BY <1>1, <1>2, <1>6, <1>8, WrittenInTurn
<1>10. AtomicGame(e)!Enlist(p, c.op)
  <2>1. /\ p \notin AtomicGame(e)!Active(r) /\ AtomicGame(e)!IsQueueTime(r, now, w.time)
        /\ after = AtomicGame(e)!EnlistRow(r, p, c.op, w.time)
    BY <1>3, <1>5, SameQueue, SameWrites DEF after
  <2> QED
    BY <1>4, <1>9, <2>1 DEF AtomicGame!Enlist
<1>11. AtomicGame(e)!RosterNext
  BY <1>2, <1>10 DEF AtomicGame!RosterNext
<1> QED
  BY <1>9, <1>11

\* An update that nobody repeats keeps every place in the queue.
LEMMA UpdateKeepsPlaces ==
    ASSUME NEW r \in Rows, DistinctTimes(r), NEW p \in Players, NEW op \in OperationIds, NEW status \in Statuses,
           status \in {"cancelled", r[p].status}
    PROVE  LET after == Update(r, p, op, status) IN
           /\ Tame(r, after, op) /\ DistinctTimes(after)
           /\ after[p].status \in {r[p].status, status}
           /\ r[p].status = "none" => after[p].status = "none"
<1> DEFINE after == Update(r, p, op, status)
<1>1. Tame(r, after, op)
  BY UpdateIsTame, RowFields
<1>2. /\ after \in Rows /\ \A q \in Players \ {p} : after[q] = r[q]
      /\ r[p].status = "none" \/ r[p].op = op => after[p] = r[p]
      /\ ~(r[p].status = "none" \/ r[p].op = op) => after[p].status = status
  BY UpdateEffect
<1>3. \A q \in Players : after[q].at = r[q].at
  <2>1. CASE r[p].status = "none" \/ r[p].op = op
    BY <1>2, <2>1
  <2>2. CASE ~(r[p].status = "none" \/ r[p].op = op)
    <3> DEFINE row == [r[p] EXCEPT !.status = status, !.op = op]
    <3>1. row.at = r[p].at
      BY RowFields DEF Row
    <3>2. after = [r EXCEPT ![p] = row]
      BY <2>2 DEF Update, Rows
    <3> HIDE DEF row, after
    <3>3. after[p] = row
      BY <3>2 DEF Rows
    <3> QED
      BY <1>2, <3>1, <3>3
  <2> QED
    BY <2>1, <2>2
<1>4. Active(after) \subseteq Active(r)
  BY <1>2 DEF Active
<1>5. DistinctTimes(after)
  <2>1. \A q \in Active(after) : after[q].at = r[q].at
    BY <1>3 DEF Active
  <2> HIDE DEF after
  <2> QED
    BY <1>2, <1>4, <2>1, LeavingKeepsDistinct
<1> QED
  BY <1>1, <1>2, <1>5

LEMMA CancelKeepsTurns ==
    ASSUME Structure, OneAtATime, "confirm" \notin Kinds, NEW g \in Groups, WriteCancel(g),
           NEW c, c = CommandAt(g), NEW e, e = c.event
    PROVE  OneAtATime' /\ AtomicSteps
<1> DEFINE w == work[g]
           r == rows[e]
           game == games[e]
           p == Key(c)
           after == CancelRow(r, p, c.op)
<1>1. c.kind = "cancel" /\ At(g, "write") /\ Commit(g, games, [rows EXCEPT ![e] = after])
  BY DEF WriteCancel
<1>2. /\ w.todo # <<>> /\ Head(w.todo) = "write" /\ e \in Events /\ c.op \in OperationIds /\ p \in Players
      /\ r \in Rows /\ DistinctTimes(r) /\ ~Rejected(c, game, r) /\ games = [games EXCEPT ![e] = game]
  BY <1>1, AtWrite DEF ByPlayer
<1>3. /\ Tame(r, after, c.op) /\ DistinctTimes(after)
      /\ after[p].status \in {r[p].status, "cancelled"}
  BY <1>2, UpdateKeepsPlaces DEF CancelRow, Statuses
<1> HIDE DEF after
<1>4. ~Rejected(c, game, after)
  <2> HIDE DEF game, r
  <2> QED
    BY <1>1, <1>2, <1>3 DEF Rejected
<1>5. /\ OneAtATime' /\ rows'[e] = after /\ games'[e] = game
      /\ AtomicGame(e)!RosterNext => AtomicSteps
  BY <1>1, <1>2, <1>3, <1>4, WrittenInTurn
<1>6. AtomicGame(e)!Cancel(p, c.op)
  BY <1>5, SameWrites DEF AtomicGame!Cancel, after
<1>7. AtomicGame(e)!RosterNext
  BY <1>2, <1>6 DEF AtomicGame!RosterNext
<1> QED
  BY <1>5, <1>7

LEMMA TouchKeepsTurns ==
    ASSUME Structure, OneAtATime, "confirm" \notin Kinds, NEW g \in Groups, WriteTouch(g),
           NEW c, c = CommandAt(g), NEW e, e = c.event
    PROVE  OneAtATime' /\ AtomicSteps
<1> DEFINE w == work[g]
           r == rows[e]
           game == games[e]
           p == Key(c)
           after == TouchRow(r, p, c.op)
<1>1. c.kind = "touch" /\ At(g, "write") /\ Commit(g, games, [rows EXCEPT ![e] = after])
  BY DEF WriteTouch
<1>2. /\ w.todo # <<>> /\ Head(w.todo) = "write" /\ e \in Events /\ c.op \in OperationIds /\ p \in Players
      /\ r \in Rows /\ DistinctTimes(r) /\ ~Rejected(c, game, r) /\ games = [games EXCEPT ![e] = game]
  BY <1>1, AtWrite DEF ByPlayer
<1>3. r[p].status \in Statuses
  BY <1>2, RowFields
<1>4. Tame(r, after, c.op) /\ DistinctTimes(after) /\ after[p].status = r[p].status
  BY <1>2, <1>3, UpdateKeepsPlaces DEF TouchRow
<1> HIDE DEF after
<1>5. ~Rejected(c, game, after) /\ p \in Active(r)
  <2>1. r[p].status \notin {"none", "cancelled"}
    BY <1>1, <1>2 DEF Rejected
  <2>2. p \in Active(r)
    BY <1>2, <1>3, <2>1 DEF Active, Statuses
  <2> HIDE DEF game, r
  <2> QED
    BY <1>1, <1>2, <1>4, <2>2 DEF Rejected
<1>6. /\ OneAtATime' /\ rows'[e] = after /\ games'[e] = game
      /\ AtomicGame(e)!RosterNext => AtomicSteps
  BY <1>1, <1>2, <1>4, <1>5, WrittenInTurn
<1>7. AtomicGame(e)!Touch(p, c.op)
  BY <1>5, <1>6, SameQueue, SameWrites DEF AtomicGame!Touch, after
<1>8. AtomicGame(e)!RosterNext
  BY <1>2, <1>7 DEF AtomicGame!RosterNext
<1> QED
  BY <1>6, <1>8

LEMMA RemoveKeepsTurns ==
    ASSUME Structure, OneAtATime, "confirm" \notin Kinds, NEW g \in Groups, WriteRemove(g),
           NEW c, c = CommandAt(g), NEW e, e = c.event
    PROVE  OneAtATime' /\ AtomicSteps
<1> DEFINE w == work[g]
           r == rows[e]
           game == games[e]
           p == Key(c)
           after == [r EXCEPT ![p] = NoRow]
<1>1. c.kind = "remove" /\ At(g, "write") /\ Commit(g, games, [rows EXCEPT ![e] = after])
  BY DEF WriteRemove
<1>2. /\ w.todo # <<>> /\ Head(w.todo) = "write" /\ e \in Events /\ c.op \in OperationIds /\ p \in Players
      /\ r \in Rows /\ DistinctTimes(r) /\ ~Rejected(c, game, r) /\ games = [games EXCEPT ![e] = game]
  BY <1>1, AtWrite DEF ByTarget
<1>3. Tame(r, after, c.op)
  BY <1>2, NoRowIsTame
<1>4. after[p].status = "none" /\ \A q \in Players \ {p} : after[q] = r[q]
  BY <1>2 DEF Rows, NoRow
<1> HIDE DEF after
<1>5. DistinctTimes(after)
  <2>1. Active(after) \subseteq Active(r) /\ \A q \in Active(after) : after[q].at = r[q].at
    BY <1>2, <1>4 DEF Active
  <2>2. after \in Rows
    BY <1>3 DEF Tame
  <2> QED
    BY <1>2, <2>1, <2>2, LeavingKeepsDistinct
<1>6. ~Rejected(c, game, after)
  <2> HIDE DEF game, r
  <2> QED
    BY <1>1, <1>2, <1>4 DEF Rejected
<1>7. /\ OneAtATime' /\ rows'[e] = after /\ games'[e] = game
      /\ AtomicGame(e)!RosterNext => AtomicSteps
  BY <1>1, <1>2, <1>3, <1>5, <1>6, WrittenInTurn
<1>8. AtomicGame(e)!DropRow(p)
  BY <1>7, SameWrites DEF AtomicGame!DropRow, after
<1>9. AtomicGame(e)!RosterNext
  BY <1>2, <1>8 DEF AtomicGame!RosterNext
<1> QED
  BY <1>7, <1>9

\* The shift an attempt has looked up is still the right one; it is a time of
\* the atomic specification, like every time, when that is not bounded.
LEMMA SiftKeepsTurns ==
    ASSUME Structure, OneAtATime, "confirm" \notin Kinds, NEW g \in Groups, WriteSift(g),
           NEW c, c = CommandAt(g), NEW e, e = c.event
    PROVE  OneAtATime' /\ (Times = Nat => AtomicSteps)
<1> DEFINE w == work[g]
           r == rows[e]
           game == games[e]
           shift == w.time
           after == SiftRows(r, shift)
<1>1. c.kind = "sift" /\ At(g, "write") /\ Commit(g, games, [rows EXCEPT ![e] = after])
  BY DEF WriteSift
<1>2. /\ w.todo # <<>> /\ Head(w.todo) = "write" /\ e \in Events /\ c.op \in OperationIds
      /\ r \in Rows /\ DistinctTimes(r) /\ ~Rejected(c, game, r) /\ games = [games EXCEPT ![e] = game]
      /\ Ready(c, w, game, r, c.op \in applied) /\ Pending(w, "write") /\ ~Pending(w, "look")
  BY <1>1, AtWrite
<1>3. ~Sifted(r) /\ shift \in Times /\ IsShift(r, shift)
  BY <1>1, <1>2 DEF Ready, SiftReady
<1>4. shift \in Nat
  BY <1>3, OrderedMutationsAssumption
<1>5. Tame(r, after, c.op) /\ DistinctTimes(after)
  BY <1>2, <1>3, <1>4, SiftIsTame, SiftKeepsDistinct
<1> HIDE DEF after
<1>6. ~Rejected(c, game, after)
  <2> HIDE DEF game, r
  <2> QED
    BY <1>1, <1>2 DEF Rejected
<1>7. /\ OneAtATime' /\ rows'[e] = after /\ games'[e] = game
      /\ AtomicGame(e)!RosterNext => AtomicSteps
  BY <1>1, <1>2, <1>5, <1>6, WrittenInTurn
<1>8. ASSUME Times = Nat PROVE AtomicGame(e)!RosterNext
  <2>1. \A q \in Players : r[q].at + shift \in Times
    <3>1. \A q \in Players : r[q].at \in Nat
      BY <1>2, RowFields
    <3> HIDE DEF shift, r
    <3> QED
      BY <1>4, <1>8, <3>1
  <2>2. \A q \in AtomicGame(e)!WithStatus(r, "waiting") : r[q].at + shift \in Times
    BY <2>1 DEF AtomicGame!WithStatus
  <2>3. ~AtomicGame(e)!Sifted(r) /\ AtomicGame(e)!IsShift(r, shift) /\ after = AtomicGame(e)!SiftRows(r, shift)
    BY <1>3, SameQueue, SameWrites DEF after
  <2>4. AtomicGame(e)!Sift
    BY <1>3, <1>7, <2>2, <2>3 DEF AtomicGame!Sift
  <2> QED
    BY <2>4 DEF AtomicGame!RosterNext
<1> QED
  BY <1>7, <1>8

\* The two signup times an attempt has read are those of the rows it exchanges,
\* and neither row bears the mark of the operation yet.
LEMMA PromoteKeepsTurns ==
    ASSUME Structure, OneAtATime, "confirm" \notin Kinds, NEW g \in Groups, WritePromote(g),
           NEW c, c = CommandAt(g), NEW e, e = c.event
    PROVE  OneAtATime' /\ AtomicSteps
<1> DEFINE w == work[g]
           r == rows[e]
           game == games[e]
           x == Key(c)
<1>1. c.kind = "promote" /\ At(g, "write")
  BY DEF WritePromote
<1>2. /\ w.todo # <<>> /\ Head(w.todo) = "write" /\ e \in Events /\ c.op \in OperationIds /\ x \in Players
      /\ r \in Rows /\ DistinctTimes(r) /\ ~Rejected(c, game, r) /\ games = [games EXCEPT ![e] = game]
      /\ Ready(c, w, game, r, c.op \in applied) /\ Pending(w, "write") /\ ~Pending(w, "removal")
      /\ c.op # NoOperation /\ game \in Game
  BY <1>1, AtWrite DEF ByTarget
<1>3. c.op \notin applied /\ PromoteReady(c, w, game, r)
  BY <1>1, <1>2 DEF Ready
<1>4. PICK y \in Players : IsSwap(r, game.amount, x, y) /\ w.mate = {y} /\ w.time = r[x].at /\ w.mateTime = r[y].at
  BY <1>3 DEF PromoteReady
<1>5. Recorded(c, game)
  BY <1>2, <1>3 DEF PromoteReady
<1>6. r[x].op # c.op /\ r[y].op # c.op
  BY <1>2, <1>3 DEF OneAtATime, MarksAreApplied
<1> DEFINE after == SwapRows(r, c.op, x, r[x].at, y, r[y].at)
<1>7. Commit(g, games, [rows EXCEPT ![e] = after])
  BY <1>4 DEF WritePromote
<1>8. x \in Active(r) /\ y \in Active(r) /\ x # y /\ r[x].status = "confirmed" /\ r[y].status # "none"
  BY <1>4 DEF IsSwap, ReserveRoster, MainRoster, Active
<1>9. /\ r[x].at \in Nat /\ r[y].at \in Nat /\ game.amount \in Nat
  BY <1>2, RowFields DEF Game
<1>10. Tame(r, after, c.op) /\ DistinctTimes(after)
  BY <1>2, <1>6, <1>8, <1>9, SwapIsTame, SwapKeepsDistinct
<1>11. x \in MainRoster(after, game.amount) /\ after[x].status = "confirmed"
  <2>1. x \in MainRoster(after, game.amount)
    BY <1>2, <1>4, <1>6, <1>9, SwapPromotes
  <2>2. after[x].status = r[x].status
    BY <1>2, <1>6, <1>8, SwapExchanges
  <2> QED
    BY <1>8, <2>1, <2>2
<1> HIDE DEF after
<1>12. Swapped(c, game, after) /\ ~Rejected(c, game, after)
  <2>1. Up(c) \in game.removal.entries /\ game.removal.op = c.op /\ Up(c).way = "up" /\ Up(c).key = x
    BY <1>5 DEF Recorded, Up
  <2>2. Swapped(c, game, after)
    BY <1>11, <2>1 DEF Swapped, Current
  <2>3. x \in Active(after)
    BY <1>11 DEF MainRoster
  <2> HIDE DEF game, r
  <2> QED
    BY <1>1, <1>2, <2>2, <2>3 DEF Rejected
<1>13. /\ OneAtATime' /\ rows'[e] = after /\ games'[e] = game
       /\ AtomicGame(e)!RosterNext => AtomicSteps
  BY <1>1, <1>2, <1>7, <1>10, <1>12, WrittenInTurn
<1>14. AtomicGame(e)!Swap(x, y, c.op)
  <2>1. AtomicGame(e)!IsSwap(r, game.amount, x, y)
        /\ after = AtomicGame(e)!SwapRows(r, c.op, x, r[x].at, y, r[y].at)
    BY <1>4, SameQueue, SameWrites DEF after
  <2> QED
    BY <1>6, <1>13, <2>1 DEF AtomicGame!Swap
<1>15. AtomicGame(e)!RosterNext
  BY <1>2, <1>14 DEF AtomicGame!RosterNext
<1> QED
  BY <1>13, <1>15

\* A game is deleted: its registrations first.
LEMMA ErasingKeepsTurns ==
    ASSUME Structure, OneAtATime, "confirm" \notin Kinds, NEW g \in Groups, EraseRows(g),
           NEW c, c = CommandAt(g), NEW e, e = c.event
    PROVE  OneAtATime' /\ AtomicSteps
<1> DEFINE w == work[g]
           r == rows[e]
           game == games[e]
           after == [p \in Players |-> NoRow]
<1>1. w.todo # <<>> /\ Head(w.todo) = "erase" /\ Commit(g, games, [rows EXCEPT ![e] = after])
  BY DEF EraseRows, At
<1>2. queue[g] # <<>> /\ Pending(w, "erase") /\ ~Rejected(c, game, r)
  BY <1>1, StepInTurn
<1>3. /\ e \in Events /\ r \in Rows /\ DistinctTimes(r) /\ InTurn(c, w, game, r, c.op \in applied)
      /\ games = [games EXCEPT ![e] = game]
  BY <1>2, AtTurn DEF Structure, TypeOK
<1>4. c.kind = "delete"
  BY <1>2, <1>3 DEF InTurn, Admitted
<1>5. Tame(r, after, c.op)
  BY <1>3, NoRowIsTame
<1>6. Active(after) = {} /\ DistinctTimes(after)
  <2>1. \A p \in Players : after[p].status = "none"
    BY DEF NoRow
  <2> HIDE DEF after
  <2> QED
    BY <2>1 DEF Active, DistinctTimes
<1> HIDE DEF after
<1>7. ~Rejected(c, game, after)
  <2> HIDE DEF game, r
  <2> QED
    BY <1>2, <1>4 DEF Rejected
<1>8. /\ OneAtATime' /\ rows'[e] = after /\ games'[e] = game
      /\ AtomicGame(e)!RosterNext => AtomicSteps
  BY <1>1, <1>3, <1>4, <1>5, <1>6, <1>7, WrittenInTurn
<1>9. AtomicGame(e)!DeleteEvent
  BY <1>8, SameWrites DEF AtomicGame!DeleteEvent, after
<1>10. AtomicGame(e)!RosterNext
  BY <1>9 DEF AtomicGame!RosterNext
<1> QED
  BY <1>8, <1>10

\* A write to the row of the game.
LEMMA GameWriteKeepsTurns ==
    ASSUME Structure, OneAtATime, "confirm" \notin Kinds, NEW g \in Groups, work[g].todo # <<>>,
           Head(work[g].todo) # "reply", NEW c, c = CommandAt(g), NEW e \in Events, e = c.event,
           c.kind \notin {"enlist", "sift", "promote"},
           NEW game, Commit(g, [games EXCEPT ![e] = game], rows),
           ~Rejected(c, game, rows[e]),
           game.amount = games[e].amount \/ game.amount \in Amounts
    PROVE  OneAtATime' /\ AtomicSteps
<1> DEFINE r == rows[e]
           newGames == [games EXCEPT ![e] = game]
           newRows == [rows EXCEPT ![e] = r]
<1>1. queue[g] # <<>>
  BY AtStep
<1>2. r \in Rows /\ DistinctTimes(r) /\ newRows = rows /\ Tame(r, r, c.op)
  <2>1. r \in Rows /\ DistinctTimes(r)
    BY <1>1, AtTurn
  <2>2. newRows = rows
    BY DEF Structure, TypeOK
  <2> QED
    BY <2>1, <2>2 DEF Tame
<1>3. Commit(g, newGames, newRows)
  BY <1>2
<1> HIDE DEF newGames, newRows
<1>4. newGames = [games EXCEPT ![e] = game] /\ newRows = [rows EXCEPT ![e] = r]
  BY DEF newGames, newRows
<1>5. /\ OneAtATime' /\ rows'[e] = r /\ games'[e] = game
      /\ AtomicGame(e)!RosterNext \/ game.amount = games[e].amount => AtomicSteps
  <2>1. Tame(rows[e], r, c.op) /\ DistinctTimes(r) /\ ~Rejected(c, game, r) /\ r = rows[e]
    BY <1>2
  <2>2. PICK s, written, kept : s = r /\ written = newGames /\ kept = newRows
    OBVIOUS
  <2>3. Tame(rows[e], s, c.op) /\ DistinctTimes(s) /\ ~Rejected(c, game, s)
    BY <2>1, <2>2
  <2>4. /\ Commit(g, written, kept)
        /\ written = [games EXCEPT ![e] = game] /\ kept = [rows EXCEPT ![e] = s]
    BY <1>3, <1>4, <2>2
  <2>5. OneAtATime'
    BY <2>3, <2>4, WrittenInTurn
  <2>6. games' = [games EXCEPT ![e] = game] /\ rows' = [rows EXCEPT ![e] = s]
    BY <2>4 DEF Commit
  <2>7. rows'[e] = s /\ games'[e] = game
    BY <2>6 DEF Structure, TypeOK
  <2>8. AtomicGame(e)!RosterNext \/ (s = rows[e] /\ game.amount = games[e].amount) => AtomicSteps
    BY <2>6, WriteIsAtomic
  <2> QED
    BY <2>1, <2>2, <2>5, <2>7, <2>8
<1>6. ASSUME game.amount \in Amounts PROVE AtomicGame(e)!RosterNext
  <2>1. AtomicGame(e)!SetAmount
    BY <1>5, <1>6 DEF AtomicGame!SetAmount
  <2> QED
    BY <2>1 DEF AtomicGame!RosterNext
<1> QED
  BY <1>5, <1>6

LEMMA GameWritesKeepTurns ==
    ASSUME Structure, OneAtATime, "confirm" \notin Kinds, NEW g \in Groups,
           WriteAmount(g) \/ WriteStatus(g) \/ WriteArchival(g) \/ DropGame(g),
           NEW c, c = CommandAt(g), NEW e, e = c.event
    PROVE  OneAtATime' /\ AtomicSteps
<1> DEFINE w == work[g]
           r == rows[e]
           old == games[e]
<1>1. w.todo # <<>> /\ Head(w.todo) \in {"write", "drop"}
  BY DEF WriteAmount, WriteStatus, WriteArchival, DropGame, At
<1>2. /\ queue[g] # <<>> /\ ~Rejected(c, old, r) /\ Pending(w, Head(w.todo))
  BY <1>1, StepInTurn
<1>3. /\ e \in Events /\ old \in Game /\ WellFormed(c) /\ InTurn(c, w, old, r, c.op \in applied)
  BY <1>2, AtTurn
<1>4. CASE WriteAmount(g)
  <2> DEFINE game == [old EXCEPT !.amount = c.amount]
  <2>1. c.kind = "amount" /\ Commit(g, [games EXCEPT ![e] = game], rows)
    BY <1>4 DEF WriteAmount
  <2>2. /\ game.amount = c.amount /\ game.exists = old.exists /\ game.archived = old.archived
        /\ c.amount \in Amounts
    BY <1>3, <2>1 DEF Game, WellFormed
  <2> HIDE DEF game
  <2>3. ~Rejected(c, game, r)
    BY <1>2, <2>1, <2>2 DEF Rejected
  <2> QED
    BY <1>1, <1>3, <2>1, <2>2, <2>3, GameWriteKeepsTurns
<1>5. CASE WriteStatus(g)
  <2> DEFINE game == [old EXCEPT !.status = NewStatus(c.kind)]
  <2>1. c.kind \in {"open", "close", "open_confirmation"} /\ Commit(g, [games EXCEPT ![e] = game], rows)
    BY <1>5 DEF WriteStatus
  <2>2. game.amount = old.amount /\ game.exists = old.exists /\ game.archived = old.archived
    BY <1>3 DEF Game
  <2> HIDE DEF game
  <2>3. ~Rejected(c, game, r)
    BY <1>2, <2>1, <2>2 DEF Rejected
  <2> QED
    BY <1>1, <1>3, <2>1, <2>2, <2>3, GameWriteKeepsTurns
<1>6. CASE WriteArchival(g) /\ c.kind = "archive"
  <2> DEFINE game == [old EXCEPT !.status = "closed", !.archived = TRUE]
  <2>1. Commit(g, [games EXCEPT ![e].status = "closed", ![e].archived = TRUE], rows)
    BY <1>6 DEF WriteArchival
  <2>2. [games EXCEPT ![e].status = "closed", ![e].archived = TRUE] = [games EXCEPT ![e] = game]
    BY <1>3 DEF Structure, TypeOK
  <2>3. Commit(g, [games EXCEPT ![e] = game], rows)
    BY <2>1, <2>2
  <2>4. game.amount = old.amount
    BY <1>3 DEF Game
  <2> HIDE DEF game
  <2>5. ~Rejected(c, game, r)
    BY <1>6 DEF Rejected
  <2> QED
    BY <1>1, <1>3, <1>6, <2>3, <2>4, <2>5, GameWriteKeepsTurns
<1>7. CASE WriteArchival(g) /\ c.kind = "unarchive"
  <2> DEFINE game == [old EXCEPT !.archived = FALSE]
  <2>1. Commit(g, [games EXCEPT ![e] = game], rows)
    BY <1>7 DEF WriteArchival
  <2>2. game.amount = old.amount /\ game.exists = old.exists
    BY <1>3 DEF Game
  <2> HIDE DEF game
  <2>3. ~Rejected(c, game, r)
    BY <1>2, <1>7, <2>2 DEF Rejected
  <2> QED
    BY <1>1, <1>3, <1>7, <2>1, <2>2, <2>3, GameWriteKeepsTurns
<1>8. CASE DropGame(g)
  <2> DEFINE game == [old EXCEPT !.exists = FALSE]
  <2>1. Commit(g, [games EXCEPT ![e] = game], rows) /\ Head(w.todo) = "drop"
    BY <1>8 DEF DropGame, At
  <2>2. game.amount = old.amount /\ game.exists = FALSE
    BY <1>3 DEF Game
  <2>3. c.kind = "delete"
    BY <1>2, <1>3, <2>1 DEF InTurn, Admitted
  <2> HIDE DEF game
  <2>4. ~Rejected(c, game, r)
    BY <1>2, <2>2, <2>3 DEF Rejected
  <2> QED
    BY <1>1, <1>3, <2>1, <2>2, <2>3, <2>4, GameWriteKeepsTurns
<1>9. WriteArchival(g) => c.kind \in {"archive", "unarchive"}
  BY DEF WriteArchival
<1> QED
  BY <1>4, <1>5, <1>6, <1>7, <1>8, <1>9

-----------------------------------------------------------------------------
\* Every step

LEMMA InitOneAtATime == Init => OneAtATime
<1> SUFFICES ASSUME Init PROVE OneAtATime
  OBVIOUS
<1>1. /\ rows \in [Events -> StartRows] /\ queue = [g \in Groups |-> <<>>]
      /\ work = [g \in Groups |-> Idle]
  BY DEF Init
<1>2. \A e \in Events : DistinctTimes(rows[e]) /\ \A p \in Players : rows[e][p].op = NoOperation
  BY <1>1, OrderedMutationsAssumption
<1>3. \A g \in Groups : queue[g] = <<>> /\ work[g].refused = FALSE
  BY <1>1 DEF Idle
<1> QED
  BY <1>2, <1>3 DEF OneAtATime, QueueTimesDistinct, MarksAreApplied, EveryHeadInTurn, NobodyRefused

\* A step of an attempt keeps every other command in turn, and is an atomic
\* operation or none.
LEMMA StepKeepsAllTurns ==
    ASSUME Structure, OneAtATime, "confirm" \notin Kinds, NEW g \in Groups, Step(g) \/ Fail(g)
    PROVE  OneAtATime' /\ (Times = Nat => AtomicSteps)
<1>1. CASE Load(g)
  BY <1>1, LoadingKeepsTurns, QuietIsAtomic
<1>2. CASE RecordRemoval(g) \/ RecordReserve(g) \/ RecordLink(g)
  BY <1>2, RecordingKeepsTurns, QuietIsAtomic
<1>3. CASE Look(g)
  BY <1>3, LookingKeepsTurns, QuietIsAtomic
<1>4. CASE WriteEnlist(g) \/ WriteCancel(g) \/ WriteTouch(g) \/ WriteRemove(g)
  BY <1>4, EnlistKeepsTurns, CancelKeepsTurns, TouchKeepsTurns, RemoveKeepsTurns
<1>5. CASE WriteSift(g) \/ WritePromote(g) \/ EraseRows(g)
  BY <1>5, SiftKeepsTurns, PromoteKeepsTurns, ErasingKeepsTurns
<1>6. CASE WriteAmount(g) \/ WriteStatus(g) \/ WriteArchival(g) \/ DropGame(g)
  BY <1>6, GameWritesKeepTurns
<1>7. CASE WriteConfirm(g)
  <2>1. work[g].todo # <<>> /\ CommandAt(g).kind = "confirm"
    BY <1>7 DEF WriteConfirm, At
  <2> QED
    BY <2>1, AtStep, AtTurn
<1>8. CASE TellReserve(g) \/ TellLink(g) \/ Read(g) \/ AllSent(g)
  BY <1>8, TellingKeepsTurns, QuietIsAtomic
<1>9. CASE Send(g)
  BY <1>9, SendingKeepsTurns, QuietIsAtomic
<1>10. CASE LoseGame(g)
  BY <1>10, NoGameIsLost
<1>11. CASE Reply(g)
  BY <1>11, AnsweringKeepsTurns, QuietIsAtomic
<1>12. CASE Fail(g)
  BY <1>12, FailingKeepsTurns, QuietIsAtomic
<1> QED
  BY <1>1, <1>2, <1>3, <1>4, <1>5, <1>6, <1>7, <1>8, <1>9, <1>10, <1>11, <1>12 DEF Step, Write

LEMMA NextOneAtATime ==
    ASSUME "confirm" \notin Kinds, Structure, OneAtATime, [Next]_vars
    PROVE  OneAtATime' /\ (Times = Nat => AtomicSteps)
<1>1. CASE Publish
  BY <1>1, PublishingKeepsTurns, QuietIsAtomic
<1>2. CASE \E g \in Groups : Step(g) \/ Fail(g)
  BY <1>2, StepKeepsAllTurns
<1>3. CASE UNCHANGED vars
  BY <1>3, StutterKeepsTurns, QuietIsAtomic
<1> QED
  BY <1>1, <1>2, <1>3 DEF Next, Done

\* The state of a game never turns an operation that took effect into a refusal
\* when it is retried, while nobody confirms: the reads of that state are the
\* same before the write, and after it they recognise the operation by what it
\* has written.  What the gateway withdraws meanwhile, the author's rights and
\* links and the opening of the registration, may still deny the retry.
THEOREM AppliedStaysAccepted ==
    ASSUME "confirm" \notin Kinds
    PROVE  Spec => []AppliedIsNeverRefused
<1>1. Init => Structure /\ OneAtATime
  BY InitStructure, InitOneAtATime
<1>2. Structure /\ OneAtATime /\ [Next]_vars => (Structure /\ OneAtATime)'
  BY NextStructure, NextOneAtATime
<1>3. OneAtATime => AppliedIsNeverRefused
  BY DEF OneAtATime, NobodyRefused, EveryHeadInTurn, InTurn, Admitted, AppliedIsNeverRefused
<1> QED
  BY <1>1, <1>2, <1>3, PTL DEF Spec

\* No two active players share a place in the queue of a game, although signup
\* times are read before the write that uses them.
THEOREM QueuesStayDistinct ==
    ASSUME "confirm" \notin Kinds
    PROVE  Spec => []QueueTimesDistinct
<1>1. Init => Structure /\ OneAtATime
  BY InitStructure, InitOneAtATime
<1>2. Structure /\ OneAtATime /\ [Next]_vars => (Structure /\ OneAtATime)'
  BY NextStructure, NextOneAtATime
<1>3. OneAtATime => QueueTimesDistinct
  BY DEF OneAtATime
<1> QED
  BY <1>1, <1>2, <1>3, PTL DEF Spec

\* The operations on the queue of a game, in several round trips, repeated
\* after failures and next to the operations on other games, are those of
\* Roster: each is made once, in one step, on current data.
THEOREM RosterIsImplemented ==
    ASSUME "confirm" \notin Kinds, Times = Nat
    PROVE  Spec => ImplementsRoster
<1>1. Init => Structure /\ OneAtATime
  BY InitStructure, InitOneAtATime
<1>2. Structure /\ OneAtATime /\ [Next]_vars => (Structure /\ OneAtATime)'
  BY NextStructure, NextOneAtATime
<1>3. Init => \A e \in Events : AtomicGame(e)!RosterInit
  <2> SUFFICES ASSUME Init, NEW e \in Events PROVE AtomicGame(e)!RosterInit
    OBVIOUS
  <2>1. rows \in [Events -> StartRows] /\ games \in [Events -> {NewGame(a) : a \in Amounts}]
    BY DEF Init
  <2>2. PICK a \in Amounts : games[e] = NewGame(a)
    BY <2>1
  <2>3. games[e].amount = a
    BY <2>2 DEF NewGame
  <2> QED
    BY <2>1, <2>3 DEF AtomicGame!RosterInit
<1>4. Structure /\ OneAtATime /\ [Next]_vars
          => [\A e \in Events : [AtomicGame(e)!RosterNext]_(AtomicGame(e)!rosterVars)]_vars
  BY NextOneAtATime DEF AtomicSteps
<1> QED
  BY <1>1, <1>2, <1>3, <1>4, PTL DEF Spec, ImplementsRoster

-----------------------------------------------------------------------------
\* The notices of a command, while nobody confirms

\* What is left of a plan when its first step has been made.
LEMMA RestInOrder ==
    ASSUME NEW w \in Attempt, w.todo # <<>>, InOrder(w.todo), NEW a, a.todo = Tail(w.todo)
    PROVE  /\ InOrder(a.todo) /\ Pending(w, Head(w.todo))
           /\ \A step : Pending(a, step) <=> Pending(w, step) /\ step # Head(w.todo)
           /\ \A step : Precedes(step, Head(w.todo)) => ~Pending(w, step)
<1> DEFINE s == w.todo
           t == a.todo
<1>1. s \in Seq(Steps) /\ Len(s) \in Nat /\ Len(s) # 0 /\ Head(s) = s[1] /\ t = Tail(s)
  BY EmptySeq, HeadTailProperties, LenProperties DEF Attempt
<1>2. Len(t) = Len(s) - 1 /\ \A i \in 1 .. Len(t) : t[i] = s[i + 1]
  BY <1>1, HeadTailProperties
<1>3. InOrder(s)
  OBVIOUS
<1> HIDE DEF s, t
<1>4. \A i \in 1 .. Len(t) : i + 1 \in 1 .. Len(s) /\ t[i] = s[i + 1] /\ i + 1 # 1
  BY <1>1, <1>2
<1>5. \A i \in 1 .. Len(s) : i = 1 \/ (i - 1 \in 1 .. Len(t) /\ t[i - 1] = s[i])
  <2> SUFFICES ASSUME NEW i \in 1 .. Len(s), i # 1 PROVE i - 1 \in 1 .. Len(t) /\ t[i - 1] = s[i]
    OBVIOUS
  <2>1. i - 1 \in 1 .. Len(t) /\ i - 1 + 1 = i
    BY <1>1, <1>2
  <2> QED
    BY <1>2, <2>1
<1>6. 1 \in 1 .. Len(s)
  BY <1>1
<1>7. InOrder(t)
  <2> SUFFICES ASSUME NEW i \in 1 .. Len(t), NEW j \in 1 .. Len(t)
               PROVE  (t[i] = t[j] => i = j) /\ (Precedes(t[i], t[j]) => i < j)
    BY DEF InOrder
  <2>1. i + 1 \in 1 .. Len(s) /\ j + 1 \in 1 .. Len(s) /\ t[i] = s[i + 1] /\ t[j] = s[j + 1]
    BY <1>4
  <2>2. (s[i + 1] = s[j + 1] => i + 1 = j + 1) /\ (Precedes(s[i + 1], s[j + 1]) => i + 1 < j + 1)
    BY <1>3, <2>1 DEF InOrder
  <2>3. i \in Nat /\ j \in Nat
    OBVIOUS
  <2>4. (i + 1 = j + 1 => i = j) /\ (i + 1 < j + 1 => i < j)
    BY <2>3
  <2> QED
    BY <2>1, <2>2, <2>4
<1>8. \A i \in 1 .. Len(t) : t[i] # Head(s)
  BY <1>1, <1>3, <1>4, <1>6 DEF InOrder
<1>9. ASSUME NEW step
      PROVE  (\E i \in 1 .. Len(t) : t[i] = step) <=> (\E i \in 1 .. Len(s) : s[i] = step) /\ step # Head(s)
  <2>1. ASSUME NEW i \in 1 .. Len(t), t[i] = step
        PROVE  (\E j \in 1 .. Len(s) : s[j] = step) /\ step # Head(s)
    BY <1>4, <1>8, <2>1
  <2>2. ASSUME NEW i \in 1 .. Len(s), s[i] = step, step # Head(s)
        PROVE  \E j \in 1 .. Len(t) : t[j] = step
    <3>1. i # 1
      BY <1>1, <2>2
    <3>2. i - 1 \in 1 .. Len(t) /\ t[i - 1] = step
      BY <1>5, <2>2, <3>1
    <3> QED
      BY <3>2
  <2> QED
    BY <2>1, <2>2
<1>10. \A i \in 1 .. Len(s) : ~Precedes(s[i], Head(s))
  <2> SUFFICES ASSUME NEW i \in 1 .. Len(s), Precedes(s[i], Head(s)) PROVE FALSE
    OBVIOUS
  <2>1. Precedes(s[i], s[1])
    BY <1>1
  <2>2. i < 1
    BY <1>3, <1>6, <2>1 DEF InOrder
  <2> QED
    BY <1>1, <2>2
<1>11. \A step : Precedes(step, Head(s)) => ~\E i \in 1 .. Len(s) : s[i] = step
  BY <1>10
<1>12. \E i \in 1 .. Len(s) : s[i] = Head(s)
  BY <1>1, <1>6
<1>13. InOrder(a.todo)
  BY <1>7 DEF t
<1>14. \A step : Pending(a, step) <=> Pending(w, step) /\ step # Head(w.todo)
  BY <1>9 DEF Pending, s, t
<1>15. \A step : Precedes(step, Head(w.todo)) => ~Pending(w, step)
  BY <1>11 DEF Pending, s
<1> QED
  BY <1>12, <1>13, <1>14, <1>15 DEF Pending, s

\* The pairs of Order, one at a time.
LEMMA OrderPairs ==
    /\ \A step \in {"removal", "look", "reserve"} : Precedes(step, "write")
    /\ \A step \in {"read", "send"} : Precedes("removal", step)
    /\ Precedes("look", "reserve") /\ Precedes("read", "send")
    /\ \A step \in {"tellReserve", "read", "send"} : Precedes("write", step) /\ Precedes(step, "reply")
    /\ \A step, other : Precedes(step, other) =>
         step \in {"removal", "look", "reserve", "write", "read", "send", "tellReserve"}
         /\ other \in {"write", "read", "send", "reserve", "tellReserve", "reply"}
BY DEF Precedes, Order

\* An attempt that goes on to its next step.
Onwards(w, a) == a.todo = Tail(w.todo) /\ a.refused = w.refused

\* A plan that has gone on is still one that tells.
LEMMA PlanGoesOn ==
    ASSUME NEW c, NEW w \in Attempt, w.todo # <<>>, NEW r, PlanTells(c, w, r),
           NEW a, Onwards(w, a), NEW after,
           c.kind = "remove" => Head(w.todo) = "write" \/ after[Key(c)].status = r[Key(c)].status
    PROVE  /\ PlanTells(c, a, after) /\ Pending(w, Head(w.todo))
           /\ \A step : Pending(a, step) <=> Pending(w, step) /\ step # Head(w.todo)
           /\ \A step : Precedes(step, Head(w.todo)) => ~Pending(w, step)
<1>1. /\ InOrder(a.todo) /\ Pending(w, Head(w.todo))
      /\ \A step : Pending(a, step) <=> Pending(w, step) /\ step # Head(w.todo)
      /\ \A step : Precedes(step, Head(w.todo)) => ~Pending(w, step)
  BY RestInOrder DEF PlanTells, Onwards
<1>2. Head(w.todo) \in {"read", "tellReserve"} => ~Pending(w, "write")
  BY <1>1, OrderPairs
<1>3. Head(w.todo) = "send" => ~Pending(w, "read")
  BY <1>1, OrderPairs
<1>4. Head(w.todo) = "write" => ~Pending(w, "look")
  BY <1>1, OrderPairs
<1>5. PlanTells(c, a, after)
  BY <1>1, <1>2, <1>3, <1>4 DEF PlanTells
<1> QED
  BY <1>1, <1>5

\* The same, with the registrations as they were.
LEMMA QuietPlanGoesOn ==
    ASSUME NEW c, NEW w \in Attempt, w.todo # <<>>, NEW r, PlanTells(c, w, r), NEW a, Onwards(w, a)
    PROVE  /\ PlanTells(c, a, r) /\ Pending(w, Head(w.todo))
           /\ \A step : Pending(a, step) <=> Pending(w, step) /\ step # Head(w.todo)
           /\ \A step : Precedes(step, Head(w.todo)) => ~Pending(w, step)
<1>1. c.kind = "remove" => Head(w.todo) = "write" \/ r[Key(c)].status = r[Key(c)].status
  OBVIOUS
<1> QED
  BY <1>1, PlanGoesOn

-----------------------------------------------------------------------------
\* The other games, and the steps that leave every queue as it is

\* What was foreseen for fewer moves, and told to more people.
LEMMA AnnouncesMore ==
    ASSUME NEW c, NEW w, NEW game, NEW r, NEW moves, NEW said, Announces(c, w, game, r, moves, said),
           NEW fewer, fewer \subseteq moves, NEW more, said \subseteq more
    PROVE  Announces(c, w, game, r, fewer, more)
<1>1. /\ SnapshotNames(c, w, game, r) /\ ReserveNames(c, w, game, r) /\ PlanTells(c, w, r)
      /\ \A m \in moves :
            Noted(c, game, r, m) /\ (w.todo # <<>> /\ ~w.refused => Announced(c, w, game, r, m, said))
  BY DEF Announces
<1>2. ASSUME NEW m \in moves, Announced(c, w, game, r, m, said) PROVE Announced(c, w, game, r, m, more)
  BY <1>2 DEF Announced
<1>3. \A m \in fewer :
          Noted(c, game, r, m) /\ (w.todo # <<>> /\ ~w.refused => Announced(c, w, game, r, m, more))
  BY <1>1, <1>2
<1> QED
  BY <1>1, <1>3 DEF Announces

LEMMA DoneOfMore ==
    ASSUME NEW game, NEW said, DoneIsTold(game, said), NEW more, said \subseteq more
    PROVE  DoneIsTold(game, more)
BY DEF DoneIsTold

\* A step at the head of the queue of a game.
LEMMA StepKeepsTold ==
    ASSUME Structure, InTold, "confirm" \notin Kinds, NEW g \in Groups, queue[g] # <<>>,
           NEW a, NEW game, NEW r, StepOf(g, a, game, r), published' = published, told \subseteq told',
           \A m \in moved' : m \in moved \/ (m.op = CommandAt(g).op /\ (m.way \in Ways => m.op \in applied')),
           game.reserve.op \in {games[CommandAt(g).event].reserve.op, CommandAt(g).op},
           DoneIsTold(game, told'),
           Announces(CommandAt(g), a, game, r, MovesOf(CommandAt(g), moved'), told')
    PROVE  InTold'
<1> DEFINE c == CommandAt(g)
           e == c.event
<1>1. /\ c = queue[g][1] /\ 1 \in 1 .. Len(queue[g]) /\ e \in Events /\ c.kind # "confirm"
      /\ GroupOf(c) = g /\ c.op \in 1 .. MaxOps /\ c.op <= published
  BY AtHead
<1>2. g = <<"event", e>>
  BY <1>1 DEF GroupOf
<1>3. /\ work'[g] = a /\ \A h \in Groups \ {g} : work'[h] = work[h]
      /\ rows'[e] = r /\ \A f \in Events \ {e} : rows'[f] = rows[f]
      /\ games'[e] = game /\ \A f \in Events \ {e} : games'[f] = games[f]
      /\ queue' = queue
      /\ applied \subseteq applied' /\ applied' \subseteq applied \cup {c.op}
  BY <1>1 DEF StepOf, Structure, TypeOK
<1>4. MovesAreApplied'
  BY <1>3 DEF InTold, MovesAreApplied
<1>5. MarkedAreTold'
  <2> SUFFICES ASSUME NEW f \in Events PROVE DoneIsTold(games'[f], told')
    BY DEF MarkedAreTold, DoneIsTold
  <2>1. CASE f = e
    BY <1>3, <2>1
  <2>2. CASE f # e
    <3>1. DoneIsTold(games[f], told) /\ games'[f] = games[f]
      BY <1>3, <2>2 DEF InTold, MarkedAreTold
    <3> QED
      BY <3>1, DoneOfMore
  <2> QED
    BY <2>1, <2>2
<1>6. \A op : Unreserved(op) /\ op # c.op => \A f \in Events : games'[f].reserve.op # op
  BY <1>3 DEF Unreserved
<1>7. ReservesOfHeads'
  <2>1. ASSUME NEW h \in Groups, NEW i \in 1 .. Len(queue[h]), i > 1
        PROVE  \A f \in Events : games'[f].reserve.op # queue[h][i].op
    <3>1. Unreserved(queue[h][i].op)
      BY <2>1 DEF InTold, ReservesOfHeads
    <3>2. queue[h][i].op # c.op
      <4>1. ~(g = h /\ 1 = i)
        BY <2>1
      <4> QED
        BY <1>1, <4>1 DEF Structure, OpsDiffer
    <3> QED
      BY <1>6, <3>1, <3>2
  <2>2. ASSUME NEW op \in published + 1 .. MaxOps
        PROVE  \A f \in Events : games'[f].reserve.op # op
    <3>1. Unreserved(op)
      BY DEF InTold, ReservesOfHeads
    <3>2. op # c.op
      BY <1>1 DEF Structure, TypeOK
    <3> QED
      BY <1>6, <3>1, <3>2
  <2> QED
    BY <1>3, <2>1, <2>2 DEF ReservesOfHeads, Unreserved
<1>8. ASSUME NEW h \in Groups, queue[h] # <<>>, NEW d, d = CommandAt(h)
      PROVE  Announces(d, work'[h], games'[d.event], rows'[d.event], MovesOf(d, moved'), told')
  <2>1. CASE h = g
    BY <1>3, <1>8, <2>1
  <2>2. CASE h # g
    <3>1. /\ d = queue[h][1] /\ 1 \in 1 .. Len(queue[h]) /\ d.event \in Events /\ d.kind # "confirm"
          /\ GroupOf(d) = h
      BY <1>8, AtHead
    <3>2. h = <<"event", d.event>>
      BY <3>1 DEF GroupOf
    <3>3. d.event # e
      BY <1>2, <2>2, <3>2
    <3>4. d.op # c.op
      BY <1>1, <2>2, <3>1 DEF Structure, OpsDiffer
    <3>5. MovesOf(d, moved') \subseteq MovesOf(d, moved)
      BY <3>4 DEF MovesOf
    <3>6. Announces(d, work[h], games[d.event], rows[d.event], MovesOf(d, moved), told)
      BY <1>8 DEF InTold, EveryHeadAnnounces
    <3> HIDE DEF c
    <3>7. work'[h] = work[h] /\ games'[d.event] = games[d.event] /\ rows'[d.event] = rows[d.event]
      BY <1>3, <2>2, <3>1, <3>3
    <3>8. Announces(d, work[h], games[d.event], rows[d.event], MovesOf(d, moved'), told')
      BY <3>5, <3>6, AnnouncesMore
    <3> QED
      BY <3>7, <3>8
  <2> QED
    BY <2>1, <2>2
<1>9. EveryHeadAnnounces'
  <2>1. \A h \in Groups : CommandAt(h)' = CommandAt(h) /\ queue'[h] = queue[h]
    BY <1>3 DEF CommandAt
  <2> QED
    BY <1>8, <2>1 DEF EveryHeadAnnounces
<1> QED
  BY <1>4, <1>5, <1>7, <1>9 DEF InTold

\* The moves that a quiet step finds on record stay on record.
LEMMA QuietStepAnnounces ==
    ASSUME NEW c, NEW w, NEW game, NEW r, NEW moves, NEW said, Announces(c, w, game, r, moves, said),
           NEW a, NEW after, NEW more,
           game.removal.op = c.op =>
               after.removal.op = c.op /\ game.removal.entries \subseteq after.removal.entries,
           Leaving(c) /\ game.reserve.op = c.op =>
               after.reserve.op = c.op /\ after.reserve.keys = game.reserve.keys,
           SnapshotNames(c, a, after, r), ReserveNames(c, a, after, r), PlanTells(c, a, r),
           \A m \in moves : a.todo # <<>> /\ ~a.refused => Announced(c, a, after, r, m, more)
    PROVE  Announces(c, a, after, r, moves, more)
<1>1. ASSUME NEW m \in moves PROVE Noted(c, after, r, m)
  <2>1. Noted(c, game, r, m)
    BY DEF Announces
  <2>2. ByReserve(c, m) => Leaving(c)
    BY DEF ByReserve
  <2> QED
    BY <2>1, <2>2 DEF Noted
<1> QED
  BY <1>1 DEF Announces

\* The snapshot is as it was, or nothing depends on it any more.
LEMMA SnapshotKept ==
    ASSUME NEW c, NEW w, NEW game, NEW r, SnapshotNames(c, w, game, r),
           NEW a, NEW after, after.amount = game.amount, after.removal.op = game.removal.op,
           after.removal.entries = game.removal.entries,
           \/ /\ a.entries = w.entries /\ (Pending(a, "removal") <=> Pending(w, "removal"))
              /\ Pending(a, "write") => Pending(w, "write")
           \/ ~Pending(a, "removal") /\ ~Pending(a, "write")
    PROVE  SnapshotNames(c, a, after, r)
<1>1. \A entries : Named(c, game, r, entries) => Named(c, after, r, entries)
  BY DEF Named, Foreseen
<1> QED
  BY <1>1 DEF SnapshotNames, Snapshot

LEMMA ReserveKept ==
    ASSUME NEW c, NEW w, NEW game, NEW r, ReserveNames(c, w, game, r),
           NEW a, NEW after, after.amount = game.amount, after.reserve.op = game.reserve.op,
           after.reserve.keys = game.reserve.keys,
           a.candidates = w.candidates, a.amount = w.amount,
           Pending(a, "look") <=> Pending(w, "look"), Pending(a, "reserve") <=> Pending(w, "reserve"),
           Pending(a, "write") => Pending(w, "write")
    PROVE  ReserveNames(c, a, after, r)
BY DEF ReserveNames, Candidates

\* Whoever has been told, or will be.
LEMMA AnnouncedStill ==
    ASSUME NEW c, NEW w, NEW game, NEW r, NEW m, NEW said, Announced(c, w, game, r, m, said),
           NEW a, NEW after, NEW more, after.amount = game.amount, said \subseteq more,
           Pending(w, "tellReserve") => Pending(a, "tellReserve"), Pending(w, "read") => Pending(a, "read"),
           Pending(w, "send") => Pending(a, "send"), a.entries = w.entries
    PROVE  Announced(c, a, after, r, m, more)
BY DEF Announced, Stays

\* A step of an attempt that leaves the registrations alone.
LEMMA QuietStepKeepsTold ==
    ASSUME Structure, InTold, "confirm" \notin Kinds, NEW g \in Groups, queue[g] # <<>>,
           UNCHANGED <<rows, queue, published, moved, applied>>, told \subseteq told',
           NEW game, games' = [games EXCEPT ![CommandAt(g).event] = game],
           NEW a, work' = [work EXCEPT ![g] = a],
           game.reserve.op \in {games[CommandAt(g).event].reserve.op, CommandAt(g).op},
           DoneIsTold(game, told'),
           Announces(CommandAt(g), a, game, rows[CommandAt(g).event], MovesOf(CommandAt(g), moved), told')
    PROVE  InTold'
<1> DEFINE c == CommandAt(g)
           e == c.event
           r == rows[e]
<1>1. rows' = [rows EXCEPT ![e] = r]
  BY AtHead DEF Structure, TypeOK
<1>2. StepOf(g, a, game, r)
  BY <1>1 DEF StepOf
<1>3. \A m \in moved' : m \in moved \/ (m.op = CommandAt(g).op /\ (m.way \in Ways => m.op \in applied'))
  OBVIOUS
<1>4. Announces(c, a, game, r, MovesOf(c, moved'), told')
  OBVIOUS
<1> QED
  BY <1>2, <1>3, <1>4, StepKeepsTold

\* The command an attempt is at, and what its game has on record.
LEMMA AtTold ==
    ASSUME Structure, OneAtATime, InTold, "confirm" \notin Kinds, NEW g \in Groups, queue[g] # <<>>
    PROVE  LET c == CommandAt(g)
               e == c.event
           IN  /\ e \in Events /\ work[g] \in Attempt /\ DrawnOn(g) = e /\ c.kind # "confirm"
               /\ games \in [Events -> Game] /\ games[e] \in Game /\ rows[e] \in Rows
               /\ games[e].removal \in Removal /\ games[e].reserve \in Promotion
               /\ games[e].link \in Promotion
               /\ DoneIsTold(games[e], told)
               /\ Announces(c, work[g], games[e], rows[e], MovesOf(c, moved), told)
<1> DEFINE c == CommandAt(g)
           e == c.event
<1>1. e \in Events /\ work[g] \in Attempt /\ DrawnOn(g) = e /\ c.kind # "confirm"
  BY AtTurn
<1>2. /\ games[e] \in Game /\ rows[e] \in Rows /\ games[e].removal \in Removal
      /\ games[e].reserve \in Promotion /\ games[e].link \in Promotion
  BY <1>1, GameFields
<1>3. games \in [Events -> Game]
  BY DEF Structure, TypeOK
<1>4. DoneIsTold(games[e], told) /\ Announces(c, work[g], games[e], rows[e], MovesOf(c, moved), told)
  BY <1>1 DEF InTold, MarkedAreTold, EveryHeadAnnounces
<1> QED
  BY <1>1, <1>2, <1>3, <1>4

\* The steps that prepare or make the write, or answer; those that tell somebody.
Preparing == {"removal", "look", "reserve", "write", "reply"}

Telling == {"tellReserve", "read", "send"}

\* Going on with the plan.
LEMMA GoingOnAnnounces ==
    ASSUME NEW c, NEW w \in Attempt, w.todo # <<>>, NEW game, NEW r, NEW moves, NEW said,
           Announces(c, w, game, r, moves, said),
           NEW a, Onwards(w, a), NEW after, NEW more,
           game.removal.op = c.op =>
               after.removal.op = c.op /\ game.removal.entries \subseteq after.removal.entries,
           Leaving(c) /\ game.reserve.op = c.op =>
               after.reserve.op = c.op /\ after.reserve.keys = game.reserve.keys,
           SnapshotNames(c, a, after, r), ReserveNames(c, a, after, r),
           \A m \in moves :
               Noted(c, game, r, m) /\ Announced(c, w, game, r, m, said) => Announced(c, a, after, r, m, more)
    PROVE  Announces(c, a, after, r, moves, more)
<1>1. /\ PlanTells(c, w, r)
      /\ \A m \in moves : Noted(c, game, r, m) /\ (w.todo # <<>> /\ ~w.refused => Announced(c, w, game, r, m, said))
  BY DEF Announces
<1>2. PlanTells(c, a, r)
  BY <1>1, QuietPlanGoesOn
<1>3. a.refused = w.refused
  BY DEF Onwards
<1>4. \A m \in moves : a.todo # <<>> /\ ~a.refused => Announced(c, a, after, r, m, more)
  BY <1>1, <1>3
<1> QED
  BY <1>2, <1>4, QuietStepAnnounces

\* Going on with a step that prepares nothing.
LEMMA PassingAnnounces ==
    ASSUME NEW c, NEW w \in Attempt, w.todo # <<>>, NEW game, NEW r, NEW moves, NEW said,
           Announces(c, w, game, r, moves, said), Head(w.todo) \notin Preparing,
           NEW a, Onwards(w, a), a.entries = w.entries \/ Head(w.todo) = "read",
           a.candidates = w.candidates, a.amount = w.amount,
           NEW after, after.amount = game.amount, after.removal.op = game.removal.op,
           after.removal.entries = game.removal.entries,
           after.reserve.op = game.reserve.op, after.reserve.keys = game.reserve.keys,
           NEW more, said \subseteq more,
           Head(w.todo) \in Telling => \A m \in moves :
               Noted(c, game, r, m) /\ Announced(c, w, game, r, m, said) => Announced(c, a, after, r, m, more)
    PROVE  Announces(c, a, after, r, moves, more)
<1> DEFINE head == Head(w.todo)
<1>1. SnapshotNames(c, w, game, r) /\ ReserveNames(c, w, game, r) /\ PlanTells(c, w, r)
  BY DEF Announces
<1>2. /\ \A step : Pending(a, step) <=> Pending(w, step) /\ step # head
      /\ \A step : Precedes(step, head) => ~Pending(w, step)
  BY <1>1, QuietPlanGoesOn
<1>3. head # "removal" /\ head # "write" /\ head # "look" /\ head # "reserve"
  BY DEF Preparing
<1> HIDE DEF head
<1>4. SnapshotNames(c, a, after, r)
  <2>1. head = "read" => ~Pending(a, "removal") /\ ~Pending(a, "write")
    BY <1>2, OrderPairs
  <2>2. (Pending(a, "removal") <=> Pending(w, "removal")) /\ (Pending(a, "write") => Pending(w, "write"))
    BY <1>2, <1>3
  <2>3. \/ /\ a.entries = w.entries /\ (Pending(a, "removal") <=> Pending(w, "removal"))
           /\ Pending(a, "write") => Pending(w, "write")
        \/ ~Pending(a, "removal") /\ ~Pending(a, "write")
    BY <2>1, <2>2 DEF head
  <2> QED
    BY <1>1, <2>3, SnapshotKept
<1>5. ReserveNames(c, a, after, r)
  <2>1. (Pending(a, "look") <=> Pending(w, "look")) /\ (Pending(a, "reserve") <=> Pending(w, "reserve"))
        /\ (Pending(a, "write") => Pending(w, "write"))
    BY <1>2, <1>3
  <2> QED
    BY <1>1, <2>1, ReserveKept
<1>6. ASSUME NEW m \in moves, Noted(c, game, r, m), Announced(c, w, game, r, m, said)
      PROVE  Announced(c, a, after, r, m, more)
  <2>1. CASE head \in Telling
    BY <1>6, <2>1 DEF head
  <2>2. CASE head \notin Telling
    <3>1. /\ Pending(w, "tellReserve") => Pending(a, "tellReserve")
          /\ Pending(w, "read") => Pending(a, "read")
          /\ Pending(w, "send") => Pending(a, "send")
      BY <1>2, <2>2 DEF Telling
    <3>2. a.entries = w.entries
      BY <2>2 DEF Telling, head
    <3> QED
      BY <1>6, <3>1, <3>2, AnnouncedStill
  <2> QED
    BY <2>1, <2>2
<1> QED
  BY <1>4, <1>5, <1>6, GoingOnAnnounces

\* The snapshot is recorded: it names what the attempt has foreseen.
LEMMA RemovalAnnounces ==
    ASSUME NEW c, NEW w \in Attempt, w.todo # <<>>, NEW game, NEW r, NEW moves, NEW said,
           Announces(c, w, game, r, moves, said), Head(w.todo) = "removal",
           NEW a, Onwards(w, a), a.entries = w.entries, a.candidates = w.candidates, a.amount = w.amount,
           NEW after, after.amount = game.amount, after.removal.op = c.op,
           w.entries \subseteq after.removal.entries,
           game.removal.op = c.op => game.removal.entries \subseteq after.removal.entries,
           after.reserve.op = game.reserve.op, after.reserve.keys = game.reserve.keys
    PROVE  Announces(c, a, after, r, moves, said)
<1>1. SnapshotNames(c, w, game, r) /\ ReserveNames(c, w, game, r) /\ PlanTells(c, w, r)
  BY DEF Announces
<1>2. /\ Pending(w, "removal")
      /\ \A step : Pending(a, step) <=> Pending(w, step) /\ step # "removal"
  BY <1>1, QuietPlanGoesOn
<1>3. SnapshotNames(c, a, after, r)
  <2>1. Named(c, game, r, Snapshot(c, w, game))
    BY <1>1, <1>2 DEF SnapshotNames
  <2>2. Snapshot(c, w, game) \subseteq after.removal.entries
    BY <1>2 DEF Snapshot
  <2>3. Named(c, after, r, after.removal.entries)
    BY <2>1, <2>2 DEF Named, Foreseen
  <2> QED
    BY <2>3 DEF SnapshotNames, Snapshot
<1>4. ReserveNames(c, a, after, r)
  <2>1. (Pending(a, "look") <=> Pending(w, "look")) /\ (Pending(a, "reserve") <=> Pending(w, "reserve"))
        /\ (Pending(a, "write") => Pending(w, "write"))
    BY <1>2
  <2> QED
    BY <1>1, <2>1, ReserveKept
<1>5. ASSUME NEW m \in moves, Announced(c, w, game, r, m, said)
      PROVE  Announced(c, a, after, r, m, said)
  <2>1. /\ Pending(w, "tellReserve") => Pending(a, "tellReserve")
        /\ Pending(w, "read") => Pending(a, "read")
        /\ Pending(w, "send") => Pending(a, "send")
    BY <1>2
  <2> QED
    BY <1>5, <2>1, AnnouncedStill
<1> QED
  BY <1>3, <1>4, <1>5, GoingOnAnnounces

\* The queue is read again; nobody has changed it since the plan was made.
LEMMA LookAnnounces ==
    ASSUME NEW c, NEW w \in Attempt, w.todo # <<>>, NEW game, NEW r, NEW moves, NEW said,
           Announces(c, w, game, r, moves, said), Head(w.todo) = "look",
           NEW a, Onwards(w, a), a.entries = w.entries,
           Leaving(c) => a.candidates = Promoted(r, Key(c), w.amount)
    PROVE  Announces(c, a, game, r, moves, said)
<1>1. SnapshotNames(c, w, game, r) /\ ReserveNames(c, w, game, r) /\ PlanTells(c, w, r)
  BY DEF Announces
<1>2. /\ Pending(w, "look")
      /\ \A step : Pending(a, step) <=> Pending(w, step) /\ step # "look"
  BY <1>1, QuietPlanGoesOn
<1>3. SnapshotNames(c, a, game, r)
  <2>1. (Pending(a, "removal") <=> Pending(w, "removal")) /\ (Pending(a, "write") => Pending(w, "write"))
    BY <1>2
  <2> QED
    BY <1>1, <2>1, SnapshotKept
<1>4. ReserveNames(c, a, game, r)
  <2> SUFFICES ASSUME Leaving(c)
               PROVE  /\ \/ game.reserve.op = c.op
                         \/ (Pending(a, "reserve") \/ Pending(a, "write")) /\ ~Pending(a, "look")
                         => Promoted(r, Key(c), game.amount) \subseteq Candidates(c, a, game)
                      /\ Pending(a, "look") =>
                           a.amount = game.amount /\ (game.reserve.op # c.op => Pending(a, "reserve"))
                      /\ Pending(a, "reserve") => game.reserve.op # c.op
    BY DEF ReserveNames
  <2>1. /\ w.amount = game.amount /\ (game.reserve.op # c.op => Pending(w, "reserve"))
        /\ Pending(w, "reserve") => game.reserve.op # c.op
        /\ game.reserve.op = c.op => Promoted(r, Key(c), game.amount) \subseteq Candidates(c, w, game)
    BY <1>1, <1>2 DEF ReserveNames
  <2>2. Pending(a, "reserve") <=> Pending(w, "reserve")
    BY <1>2
  <2>3. a.candidates = Promoted(r, Key(c), game.amount)
    BY <2>1
  <2>4. game.reserve.op = c.op => Candidates(c, w, game) = Candidates(c, a, game)
    BY DEF Candidates
  <2>5. game.reserve.op # c.op => Candidates(c, a, game) = a.candidates
    BY <2>1, <2>2 DEF Candidates
  <2> QED
    BY <1>2, <2>1, <2>2, <2>3, <2>4, <2>5
<1>5. ASSUME NEW m \in moves, Announced(c, w, game, r, m, said)
      PROVE  Announced(c, a, game, r, m, said)
  <2>1. /\ Pending(w, "tellReserve") => Pending(a, "tellReserve")
        /\ Pending(w, "read") => Pending(a, "read")
        /\ Pending(w, "send") => Pending(a, "send")
    BY <1>2
  <2> QED
    BY <1>5, <2>1, AnnouncedStill
<1> QED
  BY <1>3, <1>4, <1>5, GoingOnAnnounces

\* The player who moves up is recorded.
LEMMA ReserveAnnounces ==
    ASSUME NEW c, NEW w \in Attempt, w.todo # <<>>, NEW game, NEW r, NEW moves, NEW said,
           Announces(c, w, game, r, moves, said), Head(w.todo) = "reserve",
           NEW a, Onwards(w, a), a.entries = w.entries,
           NEW after, after.amount = game.amount, after.removal.op = game.removal.op,
           after.removal.entries = game.removal.entries,
           after.reserve.op = c.op, after.reserve.keys = w.candidates
    PROVE  Announces(c, a, after, r, moves, said)
<1>1. SnapshotNames(c, w, game, r) /\ ReserveNames(c, w, game, r) /\ PlanTells(c, w, r)
  BY DEF Announces
<1>2. /\ Pending(w, "reserve")
      /\ \A step : Pending(a, step) <=> Pending(w, step) /\ step # "reserve"
      /\ \A step : Precedes(step, "reserve") => ~Pending(w, step)
  BY <1>1, QuietPlanGoesOn
<1>3. ~Pending(w, "look")
  BY <1>2, OrderPairs
<1>4. SnapshotNames(c, a, after, r)
  <2>1. (Pending(a, "removal") <=> Pending(w, "removal")) /\ (Pending(a, "write") => Pending(w, "write"))
    BY <1>2
  <2> QED
    BY <1>1, <2>1, SnapshotKept
<1>5. ASSUME Leaving(c)
      PROVE  game.reserve.op # c.op /\ Promoted(r, Key(c), game.amount) \subseteq w.candidates
  BY <1>1, <1>2, <1>3, <1>5 DEF ReserveNames, Candidates
<1>6. ReserveNames(c, a, after, r)
  <2>1. ~Pending(a, "look") /\ ~Pending(a, "reserve")
    BY <1>2, <1>3
  <2> QED
    BY <1>5, <2>1 DEF ReserveNames, Candidates
<1>7. ASSUME NEW m \in moves, Announced(c, w, game, r, m, said)
      PROVE  Announced(c, a, after, r, m, said)
  <2>1. /\ Pending(w, "tellReserve") => Pending(a, "tellReserve")
        /\ Pending(w, "read") => Pending(a, "read")
        /\ Pending(w, "send") => Pending(a, "send")
    BY <1>2
  <2> QED
    BY <1>7, <2>1, AnnouncedStill
<1>8. Leaving(c) /\ game.reserve.op = c.op => after.reserve.op = c.op /\ after.reserve.keys = game.reserve.keys
  BY <1>5
<1> QED
  BY <1>4, <1>6, <1>7, <1>8, GoingOnAnnounces

\* Whoever is recorded as the one who moves up has been told, or is told now.
LEMMA TellReserveAnnounces ==
    ASSUME NEW c, NEW w \in Attempt, w.todo # <<>>, NEW game, NEW r, NEW moves, NEW said,
           Announces(c, w, game, r, MovesOf(c, moves), said), Head(w.todo) = "tellReserve",
           DoneIsTold(game, said),
           NEW a, Onwards(w, a), a.entries = w.entries, a.candidates = w.candidates, a.amount = w.amount,
           NEW after, after.amount = game.amount, after.removal.op = game.removal.op,
           after.removal.entries = game.removal.entries,
           after.reserve.op = game.reserve.op, after.reserve.keys = game.reserve.keys,
           NEW more, said \subseteq more,
           game.reserve.op = c.op /\ game.reserve.keys # {} /\ ~game.reserve.done
               => Notices(c.op, Entries("up", game.reserve.keys)) \subseteq more
    PROVE  Announces(c, a, after, r, MovesOf(c, moves), more)
<1>1. PlanTells(c, w, r)
  BY DEF Announces
<1>2. \A step : Pending(a, step) <=> Pending(w, step) /\ step # "tellReserve"
  BY <1>1, QuietPlanGoesOn
<1>3. ASSUME NEW m \in MovesOf(c, moves), Noted(c, game, r, m), Announced(c, w, game, r, m, said)
      PROVE  Announced(c, a, after, r, m, more)
  <2>1. CASE ByReserve(c, m)
    <3>1. m.way = "up" /\ m.op = c.op /\ game.reserve.op = c.op /\ m.key \in game.reserve.keys
      BY <1>3, <2>1 DEF Noted, ByReserve, MovesOf
    <3>2. Notices(c.op, Entries("up", game.reserve.keys)) \subseteq more
      BY <3>1 DEF DoneIsTold
    <3>3. NoticeOf(m) \in Notices(c.op, Entries("up", game.reserve.keys))
      <4>1. EntryOf(m) \in Entries("up", game.reserve.keys)
        BY <3>1 DEF EntryOf, Entries
      <4>2. NoticeOf(m) = [op |-> c.op, way |-> EntryOf(m).way, key |-> EntryOf(m).key]
        BY <3>1 DEF EntryOf, NoticeOf
      <4> QED
        BY <4>1, <4>2 DEF Notices
    <3> QED
      BY <3>2, <3>3 DEF Announced
  <2>2. CASE ~ByReserve(c, m)
    <3>1. (Pending(w, "read") => Pending(a, "read")) /\ (Pending(w, "send") => Pending(a, "send"))
      BY <1>2
    <3>2. Stays(m, game, r) => Stays(m, after, r)
      BY DEF Stays
    <3> QED
      BY <1>3, <2>2, <3>1, <3>2 DEF Announced, Stays
  <2> QED
    BY <2>1, <2>2
<1>4. Head(w.todo) \notin Preparing
  BY DEF Preparing
<1> DEFINE mine == MovesOf(c, moves)
<1>5. \A m \in mine :
          Noted(c, game, r, m) /\ Announced(c, w, game, r, m, said) => Announced(c, a, after, r, m, more)
  BY <1>3
<1>6. Announces(c, w, game, r, mine, said)
  OBVIOUS
<1> HIDE DEF mine
<1>7. Announces(c, a, after, r, mine, more)
  BY <1>4, <1>5, <1>6, PassingAnnounces
<1> QED
  BY <1>7 DEF mine

\* Of the moves on record, those still in place and not marked as told are due.
LEMMA ReadAnnounces ==
    ASSUME NEW c, NEW w \in Attempt, w.todo # <<>>, NEW game, NEW r, NEW moves, NEW said,
           Announces(c, w, game, r, MovesOf(c, moves), said), Head(w.todo) = "read",
           DoneIsTold(game, said),
           NEW a, Onwards(w, a), a.candidates = w.candidates, a.amount = w.amount,
           c.kind \in Moving /\ game.removal.op = c.op =>
               a.entries = IF c.kind \in {"sift", "promote"}
                           THEN Current(game.removal.entries \ game.removal.done, r, game.amount)
                           ELSE game.removal.entries \ game.removal.done
    PROVE  Announces(c, a, game, r, MovesOf(c, moves), said)
<1>1. PlanTells(c, w, r)
  BY DEF Announces
<1>2. Pending(w, "read") /\ \A step : Pending(a, step) <=> Pending(w, step) /\ step # "read"
  BY <1>1, QuietPlanGoesOn
<1>3. Pending(a, "send")
  BY <1>1, <1>2 DEF PlanTells
<1>4. ASSUME NEW m \in MovesOf(c, moves), Noted(c, game, r, m), Announced(c, w, game, r, m, said)
      PROVE  Announced(c, a, game, r, m, said)
  <2>1. CASE ByReserve(c, m)
    <3>1. Pending(w, "tellReserve") => Pending(a, "tellReserve")
      BY <1>2
    <3> QED
      BY <1>4, <2>1, <3>1 DEF Announced
  <2>2. CASE ~ByReserve(c, m) /\ EntryOf(m) \in game.removal.done
    <3>1. game.removal.op = c.op /\ m.op = c.op
      BY <1>4, <2>2 DEF Noted, MovesOf
    <3>2. NoticeOf(m) \in Notices(c.op, game.removal.done)
      BY <2>2, <3>1 DEF NoticeOf, EntryOf, Notices
    <3> QED
      BY <3>1, <3>2 DEF DoneIsTold, Announced
  <2>3. CASE ~ByReserve(c, m) /\ EntryOf(m) \notin game.removal.done /\ Stays(m, game, r)
    <3>1. /\ game.removal.op = c.op /\ c.kind \in Moving
          /\ EntryOf(m) \in game.removal.entries \ game.removal.done
          /\ c.kind \in {"sift", "promote"} =>
               m.way \in {"up", "down"} /\ (m.way = "up" => r[m.key].status = "confirmed")
      BY <1>4, <2>3 DEF Noted
    <3>2. EntryOf(m).way = m.way /\ EntryOf(m).key = m.key
      BY DEF EntryOf
    <3>3. EntryOf(m) \in a.entries
      BY <2>3, <3>1, <3>2 DEF Current, Stays
    <3> QED
      BY <1>3, <2>3, <3>3 DEF Announced
  <2> QED
    BY <2>1, <2>2, <2>3 DEF Announced
<1>5. Head(w.todo) \notin Preparing
  BY DEF Preparing
<1> DEFINE mine == MovesOf(c, moves)
<1>6. \A m \in mine :
          Noted(c, game, r, m) /\ Announced(c, w, game, r, m, said) => Announced(c, a, game, r, m, said)
  BY <1>4
<1>7. Announces(c, w, game, r, mine, said)
  OBVIOUS
<1> HIDE DEF mine
<1>8. Announces(c, a, game, r, mine, said)
  BY <1>5, <1>6, <1>7, PassingAnnounces
<1> QED
  BY <1>8 DEF mine

\* Nothing that has to come before the next step is still to come.
LEMMA NothingEarlier ==
    ASSUME NEW c, NEW w \in Attempt, w.todo # <<>>, NEW r, PlanTells(c, w, r)
    PROVE  Pending(w, Head(w.todo)) /\ \A step : Precedes(step, Head(w.todo)) => ~Pending(w, step)
<1> DEFINE a == [w EXCEPT !.todo = Tail(w.todo)]
<1>1. Onwards(w, a)
  BY DEF Onwards, Attempt
<1> HIDE DEF a
<1> QED
  BY <1>1, QuietPlanGoesOn

\* One notice is sent.
LEMMA SendAnnounces ==
    ASSUME NEW c, NEW w \in Attempt, w.todo # <<>>, NEW game, NEW r, NEW moves, NEW said,
           Announces(c, w, game, r, MovesOf(c, moves), said), Head(w.todo) = "send",
           NEW n, NEW a, a.todo = w.todo, a.refused = w.refused, a.entries = w.entries \ {n},
           a.candidates = w.candidates, a.amount = w.amount,
           NEW after, after.amount = game.amount, after.removal.op = game.removal.op,
           after.removal.entries = game.removal.entries,
           after.reserve.op = game.reserve.op, after.reserve.keys = game.reserve.keys,
           NEW more, said \subseteq more, Notices(c.op, {n}) \subseteq more
    PROVE  Announces(c, a, after, r, MovesOf(c, moves), more)
<1>1. SnapshotNames(c, w, game, r) /\ ReserveNames(c, w, game, r) /\ PlanTells(c, w, r)
  BY DEF Announces
<1>2. \A step : Pending(a, step) <=> Pending(w, step)
  BY DEF Pending
<1>3. ~Pending(w, "removal") /\ ~Pending(w, "write")
  BY <1>1, NothingEarlier, OrderPairs
<1>4. SnapshotNames(c, a, after, r)
  <2>1. ~Pending(a, "removal") /\ ~Pending(a, "write")
    BY <1>2, <1>3
  <2> QED
    BY <1>1, <2>1, SnapshotKept
<1>5. ReserveNames(c, a, after, r)
  <2>1. /\ Pending(a, "look") <=> Pending(w, "look")
        /\ Pending(a, "reserve") <=> Pending(w, "reserve")
        /\ Pending(a, "write") => Pending(w, "write")
    BY <1>2
  <2> QED
    BY <1>1, <2>1, ReserveKept
<1>6. PlanTells(c, a, r)
  BY <1>1, <1>2 DEF PlanTells
<1>7. ASSUME NEW m \in MovesOf(c, moves), Announced(c, w, game, r, m, said)
      PROVE  Announced(c, a, after, r, m, more)
  <2>1. CASE EntryOf(m) = n
    <3>1. NoticeOf(m) = [op |-> c.op, way |-> n.way, key |-> n.key]
      BY <2>1 DEF NoticeOf, EntryOf, MovesOf
    <3>2. NoticeOf(m) \in Notices(c.op, {n})
      BY <3>1 DEF Notices
    <3> QED
      BY <3>2 DEF Announced
  <2>2. CASE EntryOf(m) # n
    <3>1. EntryOf(m) \in w.entries => EntryOf(m) \in a.entries
      BY <2>2
    <3>2. Stays(m, after, r) => Stays(m, game, r)
      BY DEF Stays
    <3>3. NoticeOf(m) \in said => NoticeOf(m) \in more
      OBVIOUS
    <3>4. /\ Pending(a, "tellReserve") <=> Pending(w, "tellReserve")
          /\ Pending(a, "read") <=> Pending(w, "read")
          /\ Pending(a, "send") <=> Pending(w, "send")
      BY <1>2
    <3> QED
      BY <1>7, <3>1, <3>2, <3>3, <3>4 DEF Announced
  <2> QED
    BY <2>1, <2>2
<1>8. \A m \in MovesOf(c, moves) : a.todo # <<>> /\ ~a.refused => Announced(c, a, after, r, m, more)
  <2>1. \A m \in MovesOf(c, moves) : w.todo # <<>> /\ ~w.refused => Announced(c, w, game, r, m, said)
    BY DEF Announces
  <2> QED
    BY <1>7, <2>1
<1> DEFINE mine == MovesOf(c, moves)
<1>9. Announces(c, w, game, r, mine, said) /\ \A m \in mine : a.todo # <<>> /\ ~a.refused => Announced(c, a, after, r, m, more)
  BY <1>8
<1> HIDE DEF mine
<1>10. Announces(c, a, after, r, mine, more)
  BY <1>4, <1>5, <1>6, <1>9, QuietStepAnnounces
<1> QED
  BY <1>10 DEF mine

\* Every notice that was collected has been sent.
LEMMA AllSentAnnounces ==
    ASSUME NEW c, NEW w \in Attempt, w.todo # <<>>, NEW game, NEW r, NEW moves, NEW said,
           Announces(c, w, game, r, moves, said), Head(w.todo) = "send", w.entries = {},
           NEW a, Onwards(w, a), a.entries = w.entries, a.candidates = w.candidates, a.amount = w.amount
    PROVE  Announces(c, a, game, r, moves, said)
<1>1. PlanTells(c, w, r)
  BY DEF Announces
<1>2. \A step : Pending(a, step) <=> Pending(w, step) /\ step # "send"
  BY <1>1, QuietPlanGoesOn
<1>3. ASSUME NEW m \in moves, Announced(c, w, game, r, m, said)
      PROVE  Announced(c, a, game, r, m, said)
  <2>1. EntryOf(m) \notin w.entries
    OBVIOUS
  <2>2. /\ Pending(w, "tellReserve") => Pending(a, "tellReserve")
        /\ Pending(w, "read") => Pending(a, "read")
    BY <1>2
  <2> QED
    BY <1>3, <2>1, <2>2 DEF Announced
<1>4. Head(w.todo) \notin Preparing
  BY DEF Preparing
<1> QED
  BY <1>3, <1>4, PassingAnnounces

\* An attempt that is given up, or that only answers a refusal, keeps the records.
LEMMA GivenUpAnnounces ==
    ASSUME NEW c, NEW w, NEW game, NEW r, NEW moves, NEW said, Announces(c, w, game, r, moves, said),
           NEW a, InOrder(a.todo), \A step : Pending(a, step) => step = "reply",
           a.todo = <<>> \/ a.refused
    PROVE  Announces(c, a, game, r, moves, said)
<1>1. SnapshotNames(c, w, game, r) /\ ReserveNames(c, w, game, r)
  BY DEF Announces
<1>2. /\ ~Pending(a, "removal") /\ ~Pending(a, "look") /\ ~Pending(a, "reserve") /\ ~Pending(a, "write")
      /\ ~Pending(a, "read")
  BY DEF Pending
<1>3. SnapshotNames(c, a, game, r)
  BY <1>1, <1>2 DEF SnapshotNames, Snapshot
<1>4. ReserveNames(c, a, game, r)
  BY <1>1, <1>2 DEF ReserveNames, Candidates
<1>5. PlanTells(c, a, r)
  BY <1>2 DEF PlanTells
<1>6. \A m \in moves : Noted(c, game, r, m)
  BY DEF Announces
<1> QED
  BY <1>3, <1>4, <1>5, <1>6 DEF Announces

\* An attempt begins with a plan that tells of everything on record.
LEMMA LoadAnnounces ==
    ASSUME NEW c, NEW w, NEW game, NEW r, NEW moves, NEW said, Announces(c, w, game, r, moves, said),
           NEW a, SnapshotNames(c, a, game, r), ReserveNames(c, a, game, r), PlanTells(c, a, r),
           c.kind \in Moving => Pending(a, "read"), Leaving(c) => Pending(a, "tellReserve")
    PROVE  Announces(c, a, game, r, moves, said)
<1>1. \A m \in moves : Noted(c, game, r, m)
  BY DEF Announces
<1>2. ASSUME NEW m \in moves PROVE Announced(c, a, game, r, m, said)
  <2>1. c.kind \in Moving /\ (ByReserve(c, m) => Leaving(c))
    BY <1>1 DEF Noted, ByReserve
  <2> QED
    BY <2>1 DEF Announced
<1> QED
  BY <1>1, <1>2 DEF Announces

\* The commands that move nobody.
LEMMA OtherAnnounces ==
    ASSUME NEW c, c.kind \notin Moving, NEW a, NEW game, NEW r, PlanTells(c, a, r), NEW said
    PROVE  Announces(c, a, game, r, {}, said)
<1>1. \A entries : Named(c, game, r, entries)
  BY DEF Named, Foreseen, Moving
<1>2. SnapshotNames(c, a, game, r)
  BY <1>1 DEF SnapshotNames
<1>3. ~Leaving(c)
  BY DEF Leaving, Moving
<1>4. ReserveNames(c, a, game, r)
  BY <1>3 DEF ReserveNames
<1> QED
  BY <1>2, <1>4 DEF Announces

\* A command that has just come to the head of its group.
LEMMA FreshAnnounces ==
    ASSUME NEW c, NEW a, a.todo = <<>>, NEW game, game.removal.op # c.op, game.reserve.op # c.op,
           NEW r, NEW said
    PROVE  Announces(c, a, game, r, {}, said)
<1>1. \A step : ~Pending(a, step)
  BY DEF Pending
<1>2. SnapshotNames(c, a, game, r) /\ ReserveNames(c, a, game, r)
  BY <1>1 DEF SnapshotNames, ReserveNames
<1>3. InOrder(a.todo)
  BY DEF InOrder
<1>4. PlanTells(c, a, r)
  BY <1>1, <1>3 DEF PlanTells
<1> QED
  BY <1>2, <1>4 DEF Announces

\* A move that a write makes is one that was foreseen.
IsForeseen(c, game, r, later, m) ==
    /\ m.event = c.event
    /\ IF ByReserve(c, m) THEN m.key \in Promoted(r, Key(c), game.amount)
       ELSE EntryOf(m) \in Entry /\ Foreseen(c, game, r, EntryOf(m))
    /\ c.kind \in {"sift", "promote"} =>
         m.way \in {"up", "down"} /\ (m.way = "up" => later[m.key].status = "confirmed")

\* After a write nothing more is foreseen than before.
NothingNew(c, game, r, after, later) ==
    /\ \A n \in Entry : Foreseen(c, after, later, n) => Foreseen(c, game, r, n)
    /\ Leaving(c) => Promoted(later, Key(c), after.amount) \subseteq Promoted(r, Key(c), game.amount)
    /\ c.kind \in {"sift", "promote"} => \A p \in Players : later[p].status = r[p].status

\* The write: whom it moves is on record, and will be told.
LEMMA WriteAnnounces ==
    ASSUME NEW c, c.kind \in Moving, NEW w \in Attempt, w.todo # <<>>, Head(w.todo) = "write",
           NEW game, game.removal \in Removal, NEW r, NEW moves, NEW said,
           Announces(c, w, game, r, moves, said),
           NEW a, Onwards(w, a), NEW after, NEW later, NothingNew(c, game, r, after, later),
           after.removal = game.removal, after.reserve = game.reserve,
           NEW more, \A m \in more : m \in moves \/ IsForeseen(c, game, r, later, m)
    PROVE  Announces(c, a, after, later, more, said)
<1>1. SnapshotNames(c, w, game, r) /\ ReserveNames(c, w, game, r) /\ PlanTells(c, w, r)
  BY DEF Announces
<1>2. /\ PlanTells(c, a, later) /\ Pending(w, "write")
      /\ \A step : Pending(a, step) <=> Pending(w, step) /\ step # "write"
      /\ \A step : Precedes(step, "write") => ~Pending(w, step)
  <2>1. c.kind = "remove" => Head(w.todo) = "write" \/ later[Key(c)].status = r[Key(c)].status
    OBVIOUS
  <2> QED
    BY <1>1, <2>1, PlanGoesOn
<1>3. /\ ~Pending(w, "removal") /\ ~Pending(w, "look") /\ ~Pending(w, "reserve")
      /\ ~Pending(a, "removal") /\ ~Pending(a, "look") /\ ~Pending(a, "reserve") /\ ~Pending(a, "write")
  BY <1>2, OrderPairs
<1>4. ASSUME NEW n \in Entry, Foreseen(c, game, r, n)
      PROVE  game.removal.op = c.op /\ n \in game.removal.entries
  BY <1>1, <1>2, <1>3, <1>4 DEF SnapshotNames, Snapshot, Named
<1>5. ASSUME Leaving(c), NEW p \in Promoted(r, Key(c), game.amount)
      PROVE  game.reserve.op = c.op /\ p \in game.reserve.keys
  BY <1>1, <1>2, <1>3, <1>5 DEF ReserveNames, Candidates
<1>6. SnapshotNames(c, a, after, later)
  <2>1. Named(c, after, later, game.removal.entries)
    BY <1>4 DEF Named, NothingNew
  <2> QED
    BY <1>3, <2>1 DEF SnapshotNames, Snapshot
<1>7. ReserveNames(c, a, after, later)
  <2>1. Leaving(c) => Promoted(later, Key(c), after.amount) \subseteq game.reserve.keys
    BY <1>5 DEF NothingNew
  <2> QED
    BY <1>3, <2>1 DEF ReserveNames, Candidates
<1>8. ASSUME NEW m \in more PROVE Noted(c, after, later, m)
  <2>1. CASE m \in moves
    <3>1. Noted(c, game, r, m)
      BY <2>1 DEF Announces
    <3>2. c.kind \in {"sift", "promote"} /\ m.way = "up" => later[m.key].status = "confirmed"
      <4> SUFFICES ASSUME c.kind \in {"sift", "promote"}, m.way = "up" PROVE later[m.key].status = "confirmed"
        OBVIOUS
      <4>1. ~ByReserve(c, m)
        BY DEF ByReserve, Leaving
      <4>2. EntryOf(m) \in game.removal.entries /\ r[m.key].status = "confirmed"
        BY <3>1, <4>1 DEF Noted
      <4>3. EntryOf(m) \in Entry
        BY <4>2 DEF Removal
      <4>4. m.key \in Players
        BY <4>3 DEF EntryOf, Entry
      <4> QED
        BY <4>2, <4>4 DEF NothingNew
    <3> QED
      BY <3>1, <3>2 DEF Noted
  <2>2. CASE IsForeseen(c, game, r, later, m)
    <3>1. m.event = c.event /\ (ByReserve(c, m) => Leaving(c))
          /\ (c.kind \in {"sift", "promote"} =>
                m.way \in {"up", "down"} /\ (m.way = "up" => later[m.key].status = "confirmed"))
      BY <2>2 DEF IsForeseen, ByReserve
    <3>2. CASE ByReserve(c, m)
      <4>1. m.key \in Promoted(r, Key(c), game.amount)
        BY <2>2, <3>2 DEF IsForeseen
      <4>2. game.reserve.op = c.op /\ m.key \in game.reserve.keys
        BY <1>5, <3>1, <3>2, <4>1
      <4> QED
        BY <3>1, <3>2, <4>2 DEF Noted
    <3>3. CASE ~ByReserve(c, m)
      <4>1. EntryOf(m) \in Entry /\ Foreseen(c, game, r, EntryOf(m))
        BY <2>2, <3>3 DEF IsForeseen
      <4>2. game.removal.op = c.op /\ EntryOf(m) \in game.removal.entries
        BY <1>4, <4>1
      <4> QED
        BY <3>1, <3>3, <4>2 DEF Noted
    <3> QED
      BY <3>2, <3>3
  <2> QED
    BY <2>1, <2>2
<1>9. ASSUME NEW m \in more PROVE Announced(c, a, after, later, m, said)
  <2>1. Pending(a, "read") /\ (Leaving(c) => Pending(a, "tellReserve"))
    BY <1>1, <1>2 DEF PlanTells
  <2>2. ByReserve(c, m) => Leaving(c)
    BY DEF ByReserve
  <2> QED
    BY <2>1, <2>2 DEF Announced
<1> QED
  BY <1>2, <1>6, <1>7, <1>8, <1>9 DEF Announces

\* How a write to one game changes the place of a player.
Change(c, r, amount, later, newAmount, m) ==
    \/ /\ m.way = "up"
       /\ m.key \in ReserveRoster(r, amount) /\ m.key \in MainRoster(later, newAmount)
    \/ /\ m.way = "down" /\ c.kind # "amount"
       /\ m.key \in MainRoster(r, amount) /\ m.key \in ReserveRoster(later, newAmount)
    \/ m.way = "out" /\ c.kind = "remove" /\ m.key \in c.player /\ later[m.key] # r[m.key]
    \/ /\ m.way = "cancelled" /\ c.kind = "cancel" /\ m.key \in c.player
       /\ m.key \in Active(r) /\ m.key \notin Active(later)

\* The moves of a write are those of the game written to.
LEMMA MovesOfWrite ==
    ASSUME NEW c, NEW newGames, NEW newRows, NEW m \in Moves(c, newGames, newRows), m.way \in Ways,
           \A f \in Events \ {c.event} : newGames[f].amount = games[f].amount /\ newRows[f] = rows[f]
    PROVE  /\ m.op = c.op /\ m.event = c.event
           /\ Change(c, rows[c.event], games[c.event].amount,
                     newRows[c.event], newGames[c.event].amount, m)
<1> DEFINE ways(f) ==
        Entries("up", ReserveRoster(rows[f], games[f].amount)
                      \cap MainRoster(newRows[f], newGames[f].amount))
        \cup Entries("down", IF c.kind = "amount" THEN {}
                             ELSE MainRoster(rows[f], games[f].amount)
                                  \cap ReserveRoster(newRows[f], newGames[f].amount))
        \cup Entries("out", {p \in c.player : c.kind = "remove" /\ f = c.event
                                              /\ newRows[f][p] # rows[f][p]})
        \cup Entries("cancelled", {p \in c.player : /\ c.kind = "cancel" /\ p \in Active(rows[f])
                                                    /\ p \notin Active(newRows[f])})
        \cup Entries("opened", IF games[f].status # "confirmation_open"
                                  /\ newGames[f].status = "confirmation_open"
                               THEN WithStatus(rows[f], "waiting") ELSE {})
<1>1. Moves(c, newGames, newRows) =
          UNION {{[op |-> c.op, event |-> f, way |-> n.way, key |-> n.key] : n \in ways(f)} : f \in Events}
  BY DEF Moves
<1> HIDE DEF ways
<1>2. PICK f \in Events : m \in {[op |-> c.op, event |-> f, way |-> n.way, key |-> n.key] : n \in ways(f)}
  BY <1>1, Zenon
<1>3. PICK n \in ways(f) : m = [op |-> c.op, event |-> f, way |-> n.way, key |-> n.key]
  BY <1>2, Zenon
<1>4. m.op = c.op /\ m.event = f /\ m.way = n.way /\ m.key = n.key
  BY <1>3
<1>5. \/ n \in Entries("up", ReserveRoster(rows[f], games[f].amount)
                             \cap MainRoster(newRows[f], newGames[f].amount))
      \/ n \in Entries("down", IF c.kind = "amount" THEN {}
                               ELSE MainRoster(rows[f], games[f].amount)
                                    \cap ReserveRoster(newRows[f], newGames[f].amount))
      \/ n \in Entries("out", {p \in c.player : c.kind = "remove" /\ f = c.event
                                                /\ newRows[f][p] # rows[f][p]})
      \/ n \in Entries("cancelled", {p \in c.player : /\ c.kind = "cancel" /\ p \in Active(rows[f])
                                                      /\ p \notin Active(newRows[f])})
      \/ n \in Entries("opened", IF games[f].status # "confirmation_open"
                                    /\ newGames[f].status = "confirmation_open"
                                 THEN WithStatus(rows[f], "waiting") ELSE {})
  BY DEF ways
<1>6. \A way, keys : n \in Entries(way, keys) => n.way = way /\ n.key \in keys
  BY DEF Entries
<1>7. ~(n.way = "opened")
  BY <1>4 DEF Ways
<1>8. CASE f = c.event
  <2>1. Change(c, rows[f], games[f].amount, newRows[f], newGames[f].amount, n)
    BY <1>5, <1>6, <1>7, <1>8 DEF Change
  <2>2. Change(c, rows[f], games[f].amount, newRows[f], newGames[f].amount, m)
    BY <1>4, <2>1 DEF Change
  <2> QED
    BY <1>4, <1>8, <2>2
<1>9. CASE f # c.event
  <2>1. newGames[f].amount = games[f].amount /\ newRows[f] = rows[f]
    BY <1>9
  <2>2. \A amount : ReserveRoster(rows[f], amount) \cap MainRoster(rows[f], amount) = {}
    BY DEF ReserveRoster
  <2> QED
    BY <1>5, <1>6, <1>7, <1>9, <2>1, <2>2
<1> QED
  BY <1>8, <1>9

-----------------------------------------------------------------------------
\* Whom the writes move

\* Players whom nobody passes stay where they are.
LEMMA SameAhead ==
    ASSUME NEW r, NEW s, NEW p, Ahead(s, p) = Ahead(r, p)
    PROVE  Position(s, p) = Position(r, p)
BY DEF Position, Ahead

\* A player leaves: at most the first of the reserve moves up.
LEMMA DepartureMoves ==
    ASSUME NEW r \in Rows, NEW s \in Rows, NEW n \in Nat, NEW p \in Players,
           \A q \in Players \ {p} : s[q] = r[q], p \notin Active(s)
    PROVE  /\ MainRoster(r, n) \cap ReserveRoster(s, n) = {}
           /\ ReserveRoster(r, n) \cap MainRoster(s, n) \subseteq Promoted(r, p, n)
           /\ Promoted(s, p, n) = {}
<1>1. Active(s) = Active(r) \ {p}
  BY DEF Active
<1>2. ASSUME NEW q \in Active(s)
      PROVE  Ahead(s, q) = Ahead(r, q) \ {p}
  <2>1. q \in Players \ {p} /\ s[q] = r[q]
    BY <1>1 DEF Active
  <2>2. \A z \in Active(s) : z \in Players \ {p} /\ s[z] = r[z]
    BY <1>1 DEF Active
  <2> QED
    BY <1>1, <2>1, <2>2 DEF Ahead, Before
<1>3. ASSUME NEW q \in Active(s)
      PROVE  /\ Position(s, q) <= Position(r, q) /\ Position(s, q) \in Nat /\ Position(r, q) \in Nat
             /\ p \notin Ahead(r, q) => Position(s, q) = Position(r, q)
             /\ p \in Ahead(r, q) => Position(s, q) = Position(r, q) - 1
  <2>1. Position(s, q) <= Position(r, q)
    BY <1>2, FewerAhead
  <2>2. p \notin Ahead(r, q) => Position(s, q) = Position(r, q)
    BY <1>2, SameAhead
  <2>3. ASSUME p \in Ahead(r, q) PROVE Position(s, q) = Position(r, q) - 1
    <3>1. IsFiniteSet(Ahead(r, q))
      BY PositionIsNat
    <3>2. Cardinality(Ahead(r, q) \ {p}) = Cardinality(Ahead(r, q)) - 1
      BY <2>3, <3>1, FS_RemoveElement
    <3>3. Position(s, q) = Cardinality(Ahead(s, q)) /\ Position(r, q) = Cardinality(Ahead(r, q))
      BY DEF Position, Ahead
    <3> QED
      BY <1>2, <3>2, <3>3
  <2> QED
    BY <2>1, <2>2, <2>3, PositionIsNat
<1>4. ASSUME NEW q \in MainRoster(r, n), q \in ReserveRoster(s, n) PROVE FALSE
  <2>1. q \in Active(s) /\ Position(r, q) < n /\ ~(Position(s, q) < n)
    BY <1>4 DEF MainRoster, ReserveRoster
  <2> QED
    BY <1>3, <2>1
<1>5. ASSUME NEW q \in ReserveRoster(r, n), q \in MainRoster(s, n) PROVE q \in Promoted(r, p, n)
  <2>1. q \in Active(s) /\ q \in Active(r) /\ ~(Position(r, q) < n) /\ Position(s, q) < n
    BY <1>5 DEF MainRoster, ReserveRoster
  <2>2. p \in Ahead(r, q) /\ Position(r, q) = n
    BY <1>3, <2>1
  <2>3. p \in Active(r) /\ Before(r, p, q) /\ p # q /\ q \in Players
    BY <1>1, <2>1, <2>2 DEF Ahead, Active
  <2>4. Ahead(r, p) \subseteq Ahead(s, q)
    <3> SUFFICES ASSUME NEW z \in Ahead(r, p) PROVE z \in Ahead(r, q) /\ z # p
      BY <1>2, <2>1
    <3>1. z \in Active(r) /\ z \in Players /\ Before(r, z, p)
      BY DEF Ahead, Active
    <3>2. Before(r, z, q)
      BY <2>3, <3>1, QueueIsTransitive
    <3>3. z # p
      BY <3>1, RowFields, RowsAssumption DEF Before
    <3> QED
      BY <3>1, <3>2, <3>3 DEF Ahead
  <2>5. Position(r, p) <= Position(s, q) /\ Position(r, p) \in Nat
    BY <2>4, FewerAhead, PositionIsNat
  <2>6. Position(r, p) < n
    BY <1>3, <2>1, <2>5
  <2> QED
    BY <2>1, <2>2, <2>3, <2>6 DEF Promoted
<1>6. Promoted(s, p, n) = {}
  BY DEF Promoted
<1> QED
  BY <1>4, <1>5, <1>6

\* A sift lets nobody who waits rise, and leaves no waiting player ahead of a
\* confirmed one.
LEMMA SiftMovesUp ==
    ASSUME NEW r \in Rows, NEW shift \in Nat, IsShift(r, shift), NEW n \in Nat
    PROVE  LET s == SiftRows(r, shift) IN
           /\ \A p \in Players : s[p].status = r[p].status
           /\ Active(s) = Active(r) /\ Sifted(s)
           /\ \A q \in ReserveRoster(r, n) \cap MainRoster(s, n) : r[q].status = "confirmed"
<1> DEFINE s == SiftRows(r, shift)
<1>1. ASSUME NEW p \in Players
      PROVE  /\ s[p].status = r[p].status
             /\ s[p].at = IF r[p].status = "waiting" THEN r[p].at + shift ELSE r[p].at
             /\ r[p].at \in Nat
  BY DEF SiftRows, Rows, Row
<1> HIDE DEF s
<1>2. Active(s) = Active(r)
  BY <1>1 DEF Active
<1>3. \A p, q \in Active(r) : r[p].at < r[q].at + shift
  BY DEF IsShift
<1>4. Sifted(s)
  <2> SUFFICES ASSUME NEW p \in WithStatus(s, "waiting"), NEW q \in WithStatus(s, "confirmed")
               PROVE  Before(s, q, p)
    BY DEF Sifted
  <2>1. p \in Players /\ q \in Players /\ r[p].status = "waiting" /\ r[q].status = "confirmed"
    BY <1>1 DEF WithStatus
  <2>2. p \in Active(r) /\ q \in Active(r)
    BY <2>1 DEF Active
  <2>3. s[q].at = r[q].at /\ s[p].at = r[p].at + shift
    BY <1>1, <2>1
  <2> QED
    BY <1>3, <2>2, <2>3 DEF Before
<1>5. ASSUME NEW q \in Active(r), r[q].status = "waiting" PROVE Ahead(r, q) \subseteq Ahead(s, q)
  <2> SUFFICES ASSUME NEW z \in Active(r), Before(r, z, q) PROVE Before(s, z, q)
    BY <1>2 DEF Ahead
  <2>1. z \in Players /\ q \in Players
    BY DEF Active
  <2>2. /\ s[q].at = r[q].at + shift /\ s[z].at \in {r[z].at, r[z].at + shift}
        /\ r[q].at \in Nat /\ r[z].at \in Nat /\ r[z].at < r[q].at + shift
    BY <1>1, <1>3, <1>5, <2>1
  <2> QED
    BY <2>2 DEF Before
<1>6. ASSUME NEW q \in ReserveRoster(r, n), q \in MainRoster(s, n) PROVE r[q].status = "confirmed"
  <2>1. q \in Active(r) /\ ~(Position(r, q) < n) /\ Position(s, q) < n
    BY <1>6 DEF MainRoster, ReserveRoster
  <2>2. CASE r[q].status = "waiting"
    <3>1. Position(r, q) <= Position(s, q) /\ Position(r, q) \in Nat /\ Position(s, q) \in Nat
      BY <1>5, <2>1, <2>2, FewerAhead, PositionIsNat
    <3> QED
      BY <2>1, <3>1
  <2> QED
    BY <2>1, <2>2 DEF Active
<1> QED
  BY <1>1, <1>2, <1>4, <1>6 DEF s

\* A swap moves nobody but the two it exchanges.
LEMMA SwapMovesTwo ==
    ASSUME NEW r \in Rows, DistinctTimes(r), NEW n \in Nat, NEW op \in OperationIds,
           NEW x \in Players, NEW y \in Players, IsSwap(r, n, x, y), r[x].op # op, r[y].op # op
    PROVE  LET s == SwapRows(r, op, x, r[x].at, y, r[y].at) IN
           /\ \A p \in Players : s[p].status = r[p].status
           /\ Active(s) = Active(r) /\ x \in MainRoster(s, n)
           /\ ReserveRoster(r, n) \cap MainRoster(s, n) \subseteq {x}
           /\ MainRoster(r, n) \cap ReserveRoster(s, n) \subseteq {y}
<1> DEFINE s == SwapRows(r, op, x, r[x].at, y, r[y].at)
<1>1. /\ x # y /\ x \in Active(r) /\ y \in Active(r) /\ r[x].status # "none" /\ r[y].status # "none"
      /\ x \in ReserveRoster(r, n) /\ y \in MainRoster(r, n)
  BY DEF IsSwap, MainRoster, ReserveRoster, Active
<1>2. Before(r, y, x)
  BY <1>1, MainBeforeReserve
<1>3. /\ s \in Rows
      /\ \A z \in Players : s[z].status = r[z].status
      /\ s[x].at = r[y].at /\ s[y].at = r[x].at
      /\ \A z \in Players \ {x, y} : s[z] = r[z]
  BY <1>1, SwapExchanges
<1>4. x \in MainRoster(s, n)
  BY SwapPromotes
<1> HIDE DEF s
<1>5. Active(s) = Active(r)
  BY <1>3 DEF Active
<1>6. ASSUME NEW p \in Active(r) \ {x, y} PROVE Position(s, p) = Position(r, p)
  <2>1. /\ p \in Players /\ p # x /\ p # y /\ s[p] = r[p]
        /\ r[x].at \in Nat /\ r[y].at \in Nat /\ r[p].at \in Nat
        /\ r[x].at # r[p].at /\ r[y].at # r[p].at
    BY <1>1, <1>3, RowFields DEF DistinctTimes, Active
  <2>2. \A z \in Active(r) \ {x, y} : Before(s, z, p) <=> Before(r, z, p)
    BY <1>3, <2>1 DEF Before, Active
  <2>3. (Before(s, y, p) <=> Before(r, x, p)) /\ (Before(s, x, p) <=> Before(r, y, p))
    BY <1>3, <2>1 DEF Before
  <2>4. Before(r, x, p) => Before(r, y, p)
    BY <1>2, <2>1, QueueIsTransitive
  <2> DEFINE rest == Ahead(r, p) \ {y}
  <2>5. CASE Before(r, x, p) <=> Before(r, y, p)
    <3>1. Ahead(s, p) = Ahead(r, p)
      BY <1>1, <1>5, <2>2, <2>3, <2>5 DEF Ahead
    <3> QED
      BY <3>1, SameAhead
  <2>6. CASE ~Before(r, x, p) /\ Before(r, y, p)
    <3>1. y \in Ahead(r, p) /\ x \notin rest /\ Ahead(s, p) = rest \cup {x}
      BY <1>1, <1>5, <2>2, <2>3, <2>6 DEF Ahead
    <3>2. IsFiniteSet(Ahead(r, p)) /\ Position(r, p) \in Nat
      BY PositionIsNat
    <3>3. IsFiniteSet(rest) /\ Cardinality(rest) = Position(r, p) - 1
      BY <3>1, <3>2, FS_RemoveElement DEF Position, Ahead
    <3> HIDE DEF rest
    <3>4. Cardinality(rest \cup {x}) = Cardinality(rest) + 1
      BY <3>1, <3>3, FS_AddElement
    <3>5. Position(s, p) = Cardinality(Ahead(s, p))
      BY DEF Position, Ahead
    <3> QED
      BY <3>1, <3>2, <3>3, <3>4, <3>5
  <2> QED
    BY <2>4, <2>5, <2>6
<1>7. ReserveRoster(r, n) \cap MainRoster(s, n) \subseteq {x}
  <2> SUFFICES ASSUME NEW q \in ReserveRoster(r, n), q \in MainRoster(s, n), q # x PROVE FALSE
    OBVIOUS
  <2>1. q \in Active(r) /\ q # y /\ ~(Position(r, q) < n) /\ Position(s, q) < n
    BY <1>1 DEF MainRoster, ReserveRoster
  <2> QED
    BY <1>6, <2>1
<1>8. MainRoster(r, n) \cap ReserveRoster(s, n) \subseteq {y}
  <2> SUFFICES ASSUME NEW q \in MainRoster(r, n), q \in ReserveRoster(s, n), q # y PROVE FALSE
    OBVIOUS
  <2>1. q \in Active(r) /\ q # x /\ Position(r, q) < n /\ ~(Position(s, q) < n)
    BY <1>1 DEF MainRoster, ReserveRoster
  <2> QED
    BY <1>6, <2>1
<1> QED
  BY <1>3, <1>4, <1>5, <1>7, <1>8 DEF s

-----------------------------------------------------------------------------
\* What the write of each kind of command changes has been foreseen, and there
\* is nothing more to foresee afterwards.

WriteForeseen(c, game, r, after, later) ==
    /\ NothingNew(c, game, r, after, later)
    /\ \A m : m.event = c.event /\ Change(c, r, game.amount, later, after.amount, m)
              => IsForeseen(c, game, r, later, m)

LEMMA EntryOfMove ==
    ASSUME NEW m, m.way \in {"up", "down", "out", "cancelled"}, m.key \in Players
    PROVE  EntryOf(m) \in Entry /\ EntryOf(m).way = m.way /\ EntryOf(m).key = m.key
BY DEF EntryOf, Entry

LEMMA AmountForeseen ==
    ASSUME NEW c, c.kind = "amount", NEW r, NEW game, NEW after, after.amount = c.amount
    PROVE  WriteForeseen(c, game, r, after, r)
<1>1. NothingNew(c, game, r, after, r)
  BY DEF NothingNew, Foreseen, Leaving
<1>2. ASSUME NEW m, m.event = c.event, Change(c, r, game.amount, r, after.amount, m)
      PROVE  IsForeseen(c, game, r, r, m)
  <2>1. m.way = "up" /\ m.key \in MainRoster(r, c.amount) \ MainRoster(r, game.amount) /\ m.key \in Players
    BY <1>2 DEF Change, ReserveRoster, Active
  <2>2. EntryOf(m) \in Entry /\ Foreseen(c, game, r, EntryOf(m))
    BY <2>1, EntryOfMove DEF Foreseen
  <2>3. ~ByReserve(c, m)
    BY DEF ByReserve, Leaving
  <2> QED
    BY <1>2, <2>2, <2>3 DEF IsForeseen
<1> QED
  BY <1>1, <1>2 DEF WriteForeseen

LEMMA SiftForeseen ==
    ASSUME NEW c, c.kind = "sift", NEW r \in Rows, NEW shift \in Nat, IsShift(r, shift), ~Sifted(r),
           NEW game, game.amount \in Nat
    PROVE  WriteForeseen(c, game, r, game, SiftRows(r, shift))
<1> DEFINE s == SiftRows(r, shift)
           n == game.amount
<1>1. /\ \A p \in Players : s[p].status = r[p].status
      /\ Active(s) = Active(r) /\ Sifted(s)
      /\ \A q \in ReserveRoster(r, n) \cap MainRoster(s, n) : r[q].status = "confirmed"
  BY SiftMovesUp
<1>2. \A entry :
          \/ entry.way = "up" /\ entry.key \in MainRoster(s, n) \ MainRoster(r, n)
          \/ entry.way = "down" /\ entry.key \in MainRoster(r, n) \ MainRoster(s, n)
          => SiftMoves(r, n, entry)
  BY DEF SiftMoves
<1> HIDE DEF s
<1>3. NothingNew(c, game, r, game, s)
  BY <1>1 DEF NothingNew, Foreseen, Leaving
<1>4. ASSUME NEW m, m.event = c.event, Change(c, r, n, s, n, m)
      PROVE  IsForeseen(c, game, r, s, m)
  <2>1. /\ m.way \in {"up", "down"} /\ m.key \in Players
        /\ m.way = "up" => m.key \in MainRoster(s, n) \ MainRoster(r, n) /\ s[m.key].status = "confirmed"
        /\ m.way = "down" => m.key \in MainRoster(r, n) \ MainRoster(s, n)
    BY <1>1, <1>4 DEF Change, ReserveRoster, MainRoster, Active
  <2>2. EntryOf(m) \in Entry /\ Foreseen(c, game, r, EntryOf(m))
    <3>1. EntryOf(m) \in Entry /\ EntryOf(m).way = m.way /\ EntryOf(m).key = m.key
      BY <2>1, EntryOfMove
    <3>2. SiftMoves(r, n, EntryOf(m))
      BY <1>2, <2>1, <3>1
    <3> QED
      BY <3>1, <3>2 DEF Foreseen
  <2>3. ~ByReserve(c, m)
    BY DEF ByReserve, Leaving
  <2> QED
    BY <1>4, <2>1, <2>2, <2>3 DEF IsForeseen
<1>5. WriteForeseen(c, game, r, game, s)
  BY <1>3, <1>4 DEF WriteForeseen
<1> QED
  BY <1>5 DEF s

LEMMA PromoteForeseen ==
    ASSUME NEW c, c.kind = "promote", NEW r \in Rows, DistinctTimes(r), NEW game, game.amount \in Nat,
           NEW op \in OperationIds, NEW x \in Players, x = Key(c), NEW y \in Players,
           IsSwap(r, game.amount, x, y), r[x].op # op, r[y].op # op
    PROVE  WriteForeseen(c, game, r, game, SwapRows(r, op, x, r[x].at, y, r[y].at))
<1> DEFINE s == SwapRows(r, op, x, r[x].at, y, r[y].at)
           n == game.amount
<1>1. /\ \A p \in Players : s[p].status = r[p].status
      /\ Active(s) = Active(r) /\ x \in MainRoster(s, n)
      /\ ReserveRoster(r, n) \cap MainRoster(s, n) \subseteq {x}
      /\ MainRoster(r, n) \cap ReserveRoster(s, n) \subseteq {y}
  BY SwapMovesTwo
<1> HIDE DEF s
<1>2. r[x].status = "confirmed"
  BY DEF IsSwap
<1>3. NothingNew(c, game, r, game, s)
  <2>1. ASSUME NEW p PROVE ~IsSwap(s, n, x, p)
    BY <1>1 DEF IsSwap, ReserveRoster
  <2> QED
    BY <1>1, <2>1 DEF NothingNew, Foreseen, SwapMoves, Leaving
<1>4. ASSUME NEW m, m.event = c.event, Change(c, r, n, s, n, m)
      PROVE  IsForeseen(c, game, r, s, m)
  <2>1. \/ m.way = "up" /\ m.key = x
        \/ m.way = "down" /\ m.key = y
    BY <1>1, <1>4 DEF Change
  <2>2. EntryOf(m) \in Entry /\ EntryOf(m).way = m.way /\ EntryOf(m).key = m.key
    BY <2>1, EntryOfMove
  <2>3. EntryOf(m) = Up(c) \/ (EntryOf(m).way = "down" /\ EntryOf(m).key = y)
    BY <2>1 DEF EntryOf, Up
  <2>4. Foreseen(c, game, r, EntryOf(m))
    BY <2>3 DEF Foreseen, SwapMoves
  <2>5. ~ByReserve(c, m)
    BY DEF ByReserve, Leaving
  <2>6. m.way = "up" => s[m.key].status = "confirmed"
    BY <1>1, <1>2, <2>1
  <2> QED
    BY <1>4, <2>1, <2>2, <2>4, <2>5, <2>6 DEF IsForeseen
<1>5. WriteForeseen(c, game, r, game, s)
  BY <1>3, <1>4 DEF WriteForeseen
<1> QED
  BY <1>5 DEF s

LEMMA DepartureForeseen ==
    ASSUME NEW c, NEW r \in Rows, NEW s \in Rows, NEW game, game.amount \in Nat, NEW p \in Players,
           p = Key(c), c.player = {p}, \A q \in Players \ {p} : s[q] = r[q], p \notin Active(s),
           \/ c.kind = "cancel"
           \/ c.kind = "remove" /\ r[p].status # "none" /\ s[p].status = "none"
    PROVE  WriteForeseen(c, game, r, game, s)
<1> DEFINE n == game.amount
<1>1. /\ MainRoster(r, n) \cap ReserveRoster(s, n) = {}
      /\ ReserveRoster(r, n) \cap MainRoster(s, n) \subseteq Promoted(r, p, n)
      /\ Promoted(s, p, n) = {}
  BY DepartureMoves
<1>2. Leaving(c) /\ c.kind \in {"cancel", "remove"}
  BY DEF Leaving
<1>3. NothingNew(c, game, r, game, s)
  BY <1>1, <1>2 DEF NothingNew, Foreseen
<1>4. ASSUME NEW m, m.event = c.event, Change(c, r, n, s, n, m)
      PROVE  IsForeseen(c, game, r, s, m)
  <2>1. CASE m.way = "up"
    <3>1. m.key \in Promoted(r, p, n)
      BY <1>1, <1>4, <2>1 DEF Change
    <3>2. ByReserve(c, m)
      BY <1>2, <2>1 DEF ByReserve
    <3> QED
      BY <1>2, <1>4, <3>1, <3>2 DEF IsForeseen
  <2>2. CASE m.way # "up"
    <3>1. \/ m.way = "out" /\ c.kind = "remove" /\ m.key = p
          \/ m.way = "cancelled" /\ c.kind = "cancel" /\ m.key = p /\ m.key \in Active(r)
      BY <1>1, <1>4, <2>2 DEF Change
    <3>2. EntryOf(m) \in Entry /\ EntryOf(m).way = m.way /\ EntryOf(m).key = m.key
      BY <3>1, EntryOfMove
    <3>3. Foreseen(c, game, r, EntryOf(m))
      BY <3>1, <3>2 DEF Foreseen
    <3>4. ~ByReserve(c, m)
      BY <2>2 DEF ByReserve
    <3> QED
      BY <1>2, <1>4, <3>2, <3>3, <3>4 DEF IsForeseen
  <2> QED
    BY <2>1, <2>2
<1> QED
  BY <1>3, <1>4 DEF WriteForeseen

\* A cancellation that is repeated, or finds no row, changes nothing.
LEMMA CancelForeseen ==
    ASSUME NEW c, c.kind = "cancel", NEW r \in Rows, NEW game, game.amount \in Nat, NEW p \in Players,
           p = Key(c), c.player = {p}, c.op \in OperationIds
    PROVE  WriteForeseen(c, game, r, game, CancelRow(r, p, c.op))
<1> DEFINE s == CancelRow(r, p, c.op)
<1>1. "cancelled" \in Statuses
  BY DEF Statuses
<1>2. /\ s \in Rows /\ \A q \in Players \ {p} : s[q] = r[q]
      /\ ~(r[p].status = "none" \/ r[p].op = c.op) => s[p].status = "cancelled"
  BY <1>1, UpdateEffect DEF CancelRow
<1>3. CASE r[p].status = "none" \/ r[p].op = c.op
  <2>1. s = r
    BY <1>3 DEF CancelRow, Update
  <2>2. NothingNew(c, game, r, game, r)
    BY DEF NothingNew
  <2>3. ASSUME NEW m, Change(c, r, game.amount, r, game.amount, m) PROVE FALSE
    BY <2>3 DEF Change, ReserveRoster
  <2>4. WriteForeseen(c, game, r, game, r)
    BY <2>2, <2>3 DEF WriteForeseen
  <2> QED
    BY <2>1, <2>4
<1>4. CASE ~(r[p].status = "none" \/ r[p].op = c.op)
  <2>1. p \notin Active(s)
    BY <1>2, <1>4 DEF Active
  <2> HIDE DEF s
  <2>2. WriteForeseen(c, game, r, game, s)
    BY <1>2, <2>1, DepartureForeseen
  <2> QED
    BY <2>2 DEF s
<1> QED
  BY <1>3, <1>4

LEMMA RemoveForeseen ==
    ASSUME NEW c, c.kind = "remove", NEW r \in Rows, NEW game, game.amount \in Nat, NEW p \in Players,
           p = Key(c), c.player = {p}, r[p].status # "none", NoRow \in Row
    PROVE  WriteForeseen(c, game, r, game, [r EXCEPT ![p] = NoRow])
<1> DEFINE s == [r EXCEPT ![p] = NoRow]
<1>1. s \in Rows /\ s[p] = NoRow /\ \A q \in Players \ {p} : s[q] = r[q]
  BY DEF Rows
<1> HIDE DEF s
<1>2. s[p].status = "none" /\ p \notin Active(s)
  BY <1>1 DEF NoRow, Active
<1>3. WriteForeseen(c, game, r, game, s)
  BY <1>1, <1>2, DepartureForeseen
<1> QED
  BY <1>3 DEF s

-----------------------------------------------------------------------------
\* The writes, in the whole state

\* The attempt at the head of group g, when it goes on after reading b.
Continued(g, b, a) ==
    /\ work' = [work EXCEPT ![g] = a] /\ Onwards(work[g], a)
    /\ a.entries = b.entries /\ a.candidates = b.candidates /\ a.amount = b.amount

LEMMA ContinueOnwards ==
    ASSUME Structure, NEW g \in Groups, work[g].todo # <<>>, NEW b \in Attempt,
           b.todo = work[g].todo, b.refused = work[g].refused, Continue(g, b)
    PROVE  \E a : Continued(g, b, a)
<1> DEFINE a == [b EXCEPT !.todo = Tail(@)]
<1>1. /\ work' = [work EXCEPT ![g] = a] /\ a.todo = Tail(b.todo) /\ a.refused = b.refused
      /\ a.entries = b.entries
  BY ContinueEffect
<1>2. a.candidates = b.candidates /\ a.amount = b.amount
  BY DEF Attempt
<1> HIDE DEF a
<1>3. Onwards(work[g], a)
  BY <1>1 DEF Onwards
<1> QED
  BY <1>1, <1>2, <1>3 DEF Continued

\* A move is of the operation that makes it.
LEMMA MovesAreOwn ==
    ASSUME NEW c, NEW newGames, NEW newRows, NEW m \in Moves(c, newGames, newRows)
    PROVE  m.op = c.op
<1>1. PICK f \in Events : \E ways :
          m \in {[op |-> c.op, event |-> f, way |-> n.way, key |-> n.key] : n \in ways}
  BY DEF Moves
<1>2. PICK ways : m \in {[op |-> c.op, event |-> f, way |-> n.way, key |-> n.key] : n \in ways}
  BY <1>1
<1>3. PICK n \in ways : m = [op |-> c.op, event |-> f, way |-> n.way, key |-> n.key]
  BY <1>2, Zenon
<1> QED
  BY <1>3

\* A write that changes nothing moves nobody.
LEMMA NoChange ==
    ASSUME NEW c, NEW r, NEW amount, NEW m
    PROVE  ~Change(c, r, amount, r, amount, m)
BY DEF Change, ReserveRoster

\* The write of a command to its game.
Written(g, newGames, newRows, game, r) ==
    /\ Commit(g, newGames, newRows)
    /\ newGames = [games EXCEPT ![CommandAt(g).event] = game]
    /\ newRows = [rows EXCEPT ![CommandAt(g).event] = r]

LEMMA WrittenEffect ==
    ASSUME Structure, NEW g \in Groups, work[g].todo # <<>>, NEW newGames, NEW newRows, NEW game, NEW r,
           Written(g, newGames, newRows, game, r)
    PROVE  LET c == CommandAt(g) IN
           /\ queue[g] # <<>> /\ \E a : Continued(g, work[g], a) /\ StepOf(g, a, game, r)
           /\ published' = published /\ told' = told
           /\ moved' = moved \cup Moves(c, newGames, newRows)
           /\ \A m \in Moves(c, newGames, newRows) :
                /\ m.op = c.op
                /\ m.way \in Ways =>
                     /\ m.event = c.event /\ m.op \in applied'
                     /\ Change(c, rows[c.event], games[c.event].amount, r, game.amount, m)
<1> DEFINE c == CommandAt(g)
           e == c.event
<1>1. queue[g] # <<>> /\ work[g] \in Attempt /\ e \in Events
  BY AtStep
<1>2. Continue(g, work[g]) /\ games' = newGames /\ rows' = newRows /\ queue' = queue
      /\ applied' = (IF <<newGames, newRows>> = <<games, rows>> THEN applied ELSE applied \cup {c.op})
      /\ published' = published /\ told' = told /\ moved' = moved \cup Moves(c, newGames, newRows)
  BY DEF Commit, Written
<1>3. PICK a : Continued(g, work[g], a)
  BY <1>1, <1>2, ContinueOnwards
<1>4. newGames = [games EXCEPT ![e] = game] /\ newRows = [rows EXCEPT ![e] = r]
  BY DEF Written
<1> HIDE DEF c
<1> HIDE DEF e
<1>5. /\ newGames[e] = game /\ newRows[e] = r
      /\ \A f \in Events \ {e} : newGames[f] = games[f] /\ newRows[f] = rows[f]
  BY <1>1, <1>4 DEF Structure, TypeOK
<1>6. /\ r # rows[e] => c.op \in applied'
      /\ game # games[e] => c.op \in applied'
      /\ applied' = applied \/ applied' = applied \cup {c.op}
  BY <1>2, <1>5
<1>7. StepOf(g, a, game, r)
  <2>1. work' = [work EXCEPT ![g] = a]
    BY <1>3 DEF Continued
  <2> QED
    BY <1>2, <1>4, <1>6, <2>1 DEF StepOf, c, e
<1>8. ASSUME NEW m \in Moves(c, newGames, newRows)
      PROVE  /\ m.op = c.op
             /\ m.way \in Ways =>
                  /\ m.event = e /\ m.op \in applied'
                  /\ Change(c, rows[e], games[e].amount, r, game.amount, m)
  <2>1. m.op = c.op
    BY MovesAreOwn
  <2>2. ASSUME m.way \in Ways
        PROVE  m.event = e /\ Change(c, rows[e], games[e].amount, r, game.amount, m)
    <3>1. \A f \in Events \ {c.event} : newGames[f].amount = games[f].amount /\ newRows[f] = rows[f]
      BY <1>5 DEF e
    <3>2. m.event = c.event /\ Change(c, rows[c.event], games[c.event].amount,
                                      newRows[c.event], newGames[c.event].amount, m)
      BY <2>2, <3>1, MovesOfWrite
    <3> QED
      BY <1>5, <3>2 DEF e
  <2>3. ASSUME m.way \in Ways PROVE c.op \in applied'
    <3>1. Change(c, rows[e], games[e].amount, r, game.amount, m)
      BY <2>2, <2>3
    <3>2. ~(r = rows[e] /\ game = games[e])
      BY <3>1, NoChange
    <3> QED
      BY <1>6, <3>2
  <2> QED
    BY <2>1, <2>2, <2>3
<1> QED
  BY <1>1, <1>2, <1>3, <1>7, <1>8 DEF c, e

LEMMA MovingWriteKeepsTold ==
    ASSUME Structure, OneAtATime, InTold, "confirm" \notin Kinds, NEW g \in Groups, At(g, "write"),
           NEW newGames, NEW newRows, NEW game, NEW r, Written(g, newGames, newRows, game, r),
           NEW c, c = CommandAt(g), NEW e, e = c.event, c.kind \in Moving,
           game.removal = games[e].removal, game.reserve = games[e].reserve,
           WriteForeseen(c, games[e], rows[e], game, r)
    PROVE  InTold'
<1> DEFINE w == work[g]
<1>1. w.todo # <<>> /\ Head(w.todo) = "write"
  BY DEF At
<1>2. /\ queue[g] # <<>> /\ \E a : Continued(g, w, a) /\ StepOf(g, a, game, r)
      /\ published' = published /\ told' = told
      /\ moved' = moved \cup Moves(c, newGames, newRows)
      /\ \A m \in Moves(c, newGames, newRows) :
            /\ m.op = c.op
            /\ m.way \in Ways =>
                 /\ m.event = e /\ m.op \in applied'
                 /\ Change(c, rows[e], games[e].amount, r, game.amount, m)
  BY <1>1, WrittenEffect
<1>3. PICK a : Continued(g, w, a) /\ StepOf(g, a, game, r)
  BY <1>2
<1>4. Onwards(w, a)
  BY <1>3 DEF Continued
<1>5. /\ w \in Attempt /\ games[e].removal \in Removal
      /\ DoneIsTold(games[e], told) /\ Announces(c, w, games[e], rows[e], MovesOf(c, moved), told)
  BY <1>2, AtTold
<1> DEFINE mine == MovesOf(c, moved)
           more == MovesOf(c, moved')
<1>6. \A m \in more : m \in mine \/ IsForeseen(c, games[e], rows[e], r, m)
  <2> SUFFICES ASSUME NEW m \in moved', m.op = c.op, m.way \in Ways, m \notin moved
               PROVE  IsForeseen(c, games[e], rows[e], r, m)
    BY DEF MovesOf
  <2>1. m.event = c.event /\ Change(c, rows[e], games[e].amount, r, game.amount, m)
    BY <1>2
  <2> QED
    BY <2>1 DEF WriteForeseen
<1>7. NothingNew(c, games[e], rows[e], game, r)
  BY DEF WriteForeseen
<1>8. Announces(c, w, games[e], rows[e], mine, told)
  BY <1>5
<1> HIDE DEF mine, more, w
<1>9. Announces(c, a, game, r, more, told)
  BY <1>1, <1>4, <1>5, <1>6, <1>7, <1>8, WriteAnnounces
<1>10. \A m \in moved' : m \in moved \/ (m.op = c.op /\ (m.way \in Ways => m.op \in applied'))
  BY <1>2
<1>11. told \subseteq told' /\ DoneIsTold(game, told') /\ game.reserve.op \in {games[e].reserve.op, c.op}
  BY <1>2, <1>5 DEF DoneIsTold
<1>12. Announces(c, a, game, r, MovesOf(c, moved'), told')
  BY <1>2, <1>9 DEF more
<1>13. StepOf(g, a, game, r) /\ published' = published /\ queue[g] # <<>>
  BY <1>2, <1>3
<1> QED
  BY <1>10, <1>11, <1>12, <1>13, StepKeepsTold

LEMMA OtherWriteKeepsTold ==
    ASSUME Structure, OneAtATime, InTold, "confirm" \notin Kinds, NEW g \in Groups, work[g].todo # <<>>,
           NEW newGames, NEW newRows, NEW game, NEW r, Written(g, newGames, newRows, game, r),
           NEW c, c = CommandAt(g), NEW e, e = c.event, c.kind \notin Moving,
           game.removal = games[e].removal, game.reserve = games[e].reserve,
           \A m : ~Change(c, rows[e], games[e].amount, r, game.amount, m)
    PROVE  InTold'
<1> DEFINE w == work[g]
<1>1. /\ queue[g] # <<>> /\ \E a : Continued(g, w, a) /\ StepOf(g, a, game, r)
      /\ published' = published /\ told' = told
      /\ moved' = moved \cup Moves(c, newGames, newRows)
      /\ \A m \in Moves(c, newGames, newRows) :
            /\ m.op = c.op
            /\ m.way \in Ways =>
                 /\ m.event = e /\ m.op \in applied'
                 /\ Change(c, rows[e], games[e].amount, r, game.amount, m)
  BY WrittenEffect
<1>2. PICK a : Continued(g, w, a) /\ StepOf(g, a, game, r)
  BY <1>1
<1>3. Onwards(w, a)
  BY <1>2 DEF Continued
<1>4. /\ w \in Attempt /\ DoneIsTold(games[e], told)
      /\ Announces(c, w, games[e], rows[e], MovesOf(c, moved), told)
  BY <1>1, AtTold
<1>5. PlanTells(c, w, rows[e]) /\ \A m \in MovesOf(c, moved) : Noted(c, games[e], rows[e], m)
  BY <1>4 DEF Announces
<1>6. MovesOf(c, moved) = {}
  BY <1>5 DEF Noted
<1>7. MovesOf(c, moved') = {}
  BY <1>1, <1>6 DEF MovesOf
<1>8. c.kind # "remove"
  BY DEF Moving
<1> HIDE DEF w
<1>9. PlanTells(c, a, r)
  <2>1. w.todo # <<>>
    BY DEF w
  <2>2. c.kind = "remove" => Head(w.todo) = "write" \/ r[Key(c)].status = rows[e][Key(c)].status
    BY <1>8
  <2> QED
    BY <1>3, <1>4, <1>5, <2>1, <2>2, PlanGoesOn
<1>10. Announces(c, a, game, r, {}, told)
  BY <1>9, OtherAnnounces
<1>11. \A m \in moved' : m \in moved \/ (m.op = c.op /\ (m.way \in Ways => m.op \in applied'))
  BY <1>1
<1>12. told \subseteq told' /\ DoneIsTold(game, told') /\ game.reserve.op \in {games[e].reserve.op, c.op}
  BY <1>1, <1>4 DEF DoneIsTold
<1>13. Announces(c, a, game, r, MovesOf(c, moved'), told')
  BY <1>1, <1>7, <1>10
<1>14. StepOf(g, a, game, r) /\ published' = published /\ queue[g] # <<>>
  BY <1>1, <1>2
<1> QED
  BY <1>11, <1>12, <1>13, <1>14, StepKeepsTold

\* The writes of the commands that move nobody.
LEMMA EnlistMovesNobody ==
    ASSUME NEW c, c.kind = "enlist", NEW r \in Rows, NEW n, NEW p \in Players, p \notin Active(r),
           NEW op \in OperationIds, NEW now, NEW time \in Nat, IsQueueTime(r, now, time), NEW m
    PROVE  ~Change(c, r, n, EnlistRow(r, p, op, time), n, m)
<1> DEFINE s == EnlistRow(r, p, op, time)
<1>1. s[p].at = time /\ \A q \in Players \ {p} : s[q] = r[q]
  BY DEF EnlistRow, Rows
<1> HIDE DEF s
<1>2. \A q \in Active(r) : q \in Players \ {p} /\ s[q] = r[q] /\ r[q].at \in Nat /\ r[q].at < time
  BY <1>1, RowFields DEF Active, IsQueueTime
<1>3. \A q \in Active(s) : q = p \/ q \in Active(r)
  BY <1>1 DEF Active
<1>4. \A q \in Active(r) : q \in Active(s)
  BY <1>2 DEF Active
<1>5. ASSUME NEW q \in Active(r) PROVE Position(s, q) = Position(r, q)
  <2>1. ~Before(s, p, q)
    BY <1>1, <1>2 DEF Before
  <2>2. \A z \in Active(r) : Before(s, z, q) <=> Before(r, z, q)
    BY <1>2 DEF Before
  <2>3. Ahead(s, q) = Ahead(r, q)
    BY <1>3, <1>4, <2>1, <2>2 DEF Ahead
  <2> QED
    BY <2>3, SameAhead
<1>6. ~Change(c, r, n, s, n, m)
  BY <1>4, <1>5 DEF Change, MainRoster, ReserveRoster
<1> QED
  BY <1>6 DEF s

LEMMA SameTimesMoveNobody ==
    ASSUME NEW c, NEW r, NEW s, \A q \in Players : s[q].at = r[q].at /\ s[q].status = r[q].status,
           NEW n, NEW m, c.kind \notin {"cancel", "remove"}
    PROVE  ~Change(c, r, n, s, n, m)
<1>1. Active(s) = Active(r)
  BY DEF Active
<1>2. ASSUME NEW q \in Active(r) PROVE Position(s, q) = Position(r, q)
  <2>1. Ahead(s, q) = Ahead(r, q)
    BY <1>1 DEF Ahead, Before, Active
  <2> QED
    BY <2>1, SameAhead
<1> QED
  BY <1>1, <1>2 DEF Change, MainRoster, ReserveRoster

LEMMA ErasingMovesNobody ==
    ASSUME NEW c, NEW r, NEW s, Active(s) = {}, NEW n, NEW m, c.kind \notin {"cancel", "remove"}
    PROVE  ~Change(c, r, n, s, n, m)
BY DEF Change, MainRoster, ReserveRoster

\* A write to the registrations alone.
LEMMA RowsWritten ==
    ASSUME Structure, NEW g \in Groups, work[g].todo # <<>>, NEW e, e = CommandAt(g).event,
           NEW r, Commit(g, games, [rows EXCEPT ![e] = r])
    PROVE  \E newRows : Written(g, games, newRows, games[e], r)
<1>1. games = [games EXCEPT ![e] = games[e]]
  BY AtStep DEF Structure, TypeOK
<1> DEFINE newRows == [rows EXCEPT ![e] = r]
<1>2. Commit(g, games, newRows) /\ newRows = [rows EXCEPT ![e] = r]
  OBVIOUS
<1> HIDE DEF newRows
<1>3. Written(g, games, newRows, games[e], r)
  BY <1>1, <1>2 DEF Written
<1> QED
  BY <1>3

\* A write to the row of the game alone.
LEMMA GameWritten ==
    ASSUME Structure, NEW g \in Groups, work[g].todo # <<>>, NEW e, e = CommandAt(g).event,
           NEW game, Commit(g, [games EXCEPT ![e] = game], rows)
    PROVE  \E newGames : Written(g, newGames, rows, game, rows[e])
<1>1. rows = [rows EXCEPT ![e] = rows[e]]
  BY AtStep DEF Structure, TypeOK
<1> DEFINE newGames == [games EXCEPT ![e] = game]
<1>2. Commit(g, newGames, rows) /\ newGames = [games EXCEPT ![e] = game]
  OBVIOUS
<1> HIDE DEF newGames
<1>3. Written(g, newGames, rows, game, rows[e])
  BY <1>1, <1>2 DEF Written
<1> QED
  BY <1>3

LEMMA EnlistKeepsTold ==
    ASSUME Structure, OneAtATime, InTold, "confirm" \notin Kinds, NEW g \in Groups, WriteEnlist(g)
    PROVE  InTold'
<1> DEFINE c == CommandAt(g)
           e == c.event
           w == work[g]
           r == rows[e]
           p == Key(c)
           after == EnlistRow(r, p, c.op, w.time)
<1>1. c.kind = "enlist" /\ At(g, "write") /\ Commit(g, games, [rows EXCEPT ![e] = after])
  BY DEF WriteEnlist
<1>2. /\ w.todo # <<>> /\ c.op \in OperationIds /\ p \in Players
      /\ r \in Rows /\ ~Rejected(c, games[e], r) /\ EnlistReady(c, w, r)
  BY <1>1, AtWrite DEF Ready, ByPlayer
<1>3. PICK now \in Clock : IsQueueTime(r, now, w.time)
  BY <1>2 DEF EnlistReady
<1>4. w.time \in Nat
  BY <1>2, OrderedMutationsAssumption DEF EnlistReady
<1>5. p \notin Active(r)
  BY <1>1, <1>2 DEF EnlistReady, Rejected, Active
<1>6. \A m : ~Change(c, r, games[e].amount, after, games[e].amount, m)
  BY <1>1, <1>2, <1>3, <1>4, <1>5, EnlistMovesNobody
<1> HIDE DEF after
<1>7. PICK newRows : Written(g, games, newRows, games[e], after)
  BY <1>1, <1>2, RowsWritten
<1>8. c.kind \notin Moving
  BY <1>1 DEF Moving
<1> QED
  BY <1>2, <1>6, <1>7, <1>8, OtherWriteKeepsTold

LEMMA TouchKeepsTold ==
    ASSUME Structure, OneAtATime, InTold, "confirm" \notin Kinds, NEW g \in Groups, WriteTouch(g)
    PROVE  InTold'
<1> DEFINE c == CommandAt(g)
           e == c.event
           w == work[g]
           r == rows[e]
           p == Key(c)
           after == TouchRow(r, p, c.op)
<1>1. c.kind = "touch" /\ At(g, "write") /\ Commit(g, games, [rows EXCEPT ![e] = after])
  BY DEF WriteTouch
<1>2. w.todo # <<>> /\ c.op \in OperationIds /\ p \in Players /\ r \in Rows
  BY <1>1, AtWrite DEF ByPlayer
<1>3. r[p].status \in Statuses
  BY <1>2, RowFields
<1>4. \A q \in Players : after[q].at = r[q].at /\ after[q].status = r[q].status
  <2>1. CASE r[p].status = "none" \/ r[p].op = c.op
    BY <2>1 DEF TouchRow, Update
  <2>2. CASE ~(r[p].status = "none" \/ r[p].op = c.op)
    <3> DEFINE row == [r[p] EXCEPT !.status = r[p].status, !.op = c.op]
    <3>1. row.at = r[p].at /\ row.status = r[p].status
      BY <1>2, RowFields DEF Row
    <3>2. after = [r EXCEPT ![p] = row]
      BY <1>2, <2>2 DEF TouchRow, Update, Rows
    <3> HIDE DEF row, after
    <3>3. after[p] = row /\ \A q \in Players \ {p} : after[q] = r[q]
      BY <1>2, <3>2 DEF Rows
    <3> QED
      BY <3>1, <3>3
  <2> QED
    BY <2>1, <2>2
<1>5. \A m : ~Change(c, r, games[e].amount, after, games[e].amount, m)
  <2>1. c.kind \notin {"cancel", "remove"}
    BY <1>1
  <2> QED
    BY <1>4, <2>1, SameTimesMoveNobody
<1> HIDE DEF after
<1>6. PICK newRows : Written(g, games, newRows, games[e], after)
  BY <1>1, <1>2, RowsWritten
<1>7. c.kind \notin Moving
  BY <1>1 DEF Moving
<1> QED
  BY <1>2, <1>5, <1>6, <1>7, OtherWriteKeepsTold

LEMMA ErasingKeepsTold ==
    ASSUME Structure, OneAtATime, InTold, "confirm" \notin Kinds, NEW g \in Groups, EraseRows(g)
    PROVE  InTold'
<1> DEFINE c == CommandAt(g)
           e == c.event
           w == work[g]
           after == [p \in Players |-> NoRow]
<1>1. w.todo # <<>> /\ Head(w.todo) = "erase" /\ Commit(g, games, [rows EXCEPT ![e] = after])
  BY DEF EraseRows, At
<1>2. queue[g] # <<>> /\ Pending(w, "erase")
  BY <1>1, StepInTurn
<1>3. c.kind = "delete"
  BY <1>2, AtTurn DEF InTurn, Admitted
<1>4. Active(after) = {}
  BY DEF Active, NoRow
<1> HIDE DEF after
<1>5. PICK newRows : Written(g, games, newRows, games[e], after)
  BY <1>1, RowsWritten
<1>6. c.kind \notin Moving /\ c.kind \notin {"cancel", "remove"}
  BY <1>3 DEF Moving
<1>7. \A m : ~Change(c, rows[e], games[e].amount, after, games[e].amount, m)
  BY <1>4, <1>6, ErasingMovesNobody
<1> QED
  BY <1>1, <1>5, <1>6, <1>7, OtherWriteKeepsTold

LEMMA CancelKeepsTold ==
    ASSUME Structure, OneAtATime, InTold, "confirm" \notin Kinds, NEW g \in Groups, WriteCancel(g)
    PROVE  InTold'
<1> DEFINE c == CommandAt(g)
           e == c.event
           w == work[g]
           r == rows[e]
           p == Key(c)
           after == CancelRow(r, p, c.op)
<1>1. c.kind = "cancel" /\ At(g, "write") /\ Commit(g, games, [rows EXCEPT ![e] = after])
  BY DEF WriteCancel
<1>2. w.todo # <<>> /\ c.op \in OperationIds /\ p \in Players /\ r \in Rows /\ games[e].amount \in Nat
  BY <1>1, AtWrite DEF ByPlayer, Game
<1>3. c.player = {p}
  <2>1. queue[g] # <<>>
    BY <1>2, AtStep
  <2>2. WellFormed(c) /\ c.kind \in ByPlayer \cup ByTarget
    BY <1>1, <2>1, AtTurn DEF ByPlayer
  <2> QED
    BY <2>2, KeyOf
<1>4. WriteForeseen(c, games[e], r, games[e], after)
  BY <1>1, <1>2, <1>3, CancelForeseen
<1> HIDE DEF after
<1>5. PICK newRows : Written(g, games, newRows, games[e], after)
  BY <1>1, <1>2, RowsWritten
<1>6. c.kind \in Moving
  BY <1>1 DEF Moving
<1> QED
  BY <1>1, <1>4, <1>5, <1>6, MovingWriteKeepsTold

LEMMA RemoveKeepsTold ==
    ASSUME Structure, OneAtATime, InTold, "confirm" \notin Kinds, NEW g \in Groups, WriteRemove(g)
    PROVE  InTold'
<1> DEFINE c == CommandAt(g)
           e == c.event
           w == work[g]
           r == rows[e]
           p == Key(c)
           after == [r EXCEPT ![p] = NoRow]
<1>1. c.kind = "remove" /\ At(g, "write") /\ Commit(g, games, [rows EXCEPT ![e] = after])
  BY DEF WriteRemove
<1>2. /\ w.todo # <<>> /\ Pending(w, "write") /\ p \in Players /\ r \in Rows /\ games[e].amount \in Nat
  BY <1>1, AtWrite DEF ByTarget, Game
<1>3. queue[g] # <<>>
  BY <1>2, AtStep
<1>4. c.player = {p}
  <2>1. WellFormed(c) /\ c.kind \in ByPlayer \cup ByTarget
    BY <1>1, <1>3, AtTurn DEF ByTarget
  <2> QED
    BY <2>1, KeyOf
<1>5. r[p].status # "none"
  <2>1. PlanTells(c, w, r)
    BY <1>3, AtTold DEF Announces
  <2> QED
    BY <1>1, <1>2, <2>1 DEF PlanTells
<1>6. NoRow \in Row
  BY RowsAssumption DEF NoRow, Row, Statuses
<1>7. WriteForeseen(c, games[e], r, games[e], after)
  BY <1>1, <1>2, <1>4, <1>5, <1>6, RemoveForeseen
<1> HIDE DEF after
<1>8. PICK newRows : Written(g, games, newRows, games[e], after)
  BY <1>1, <1>2, RowsWritten
<1>9. c.kind \in Moving
  BY <1>1 DEF Moving
<1> QED
  BY <1>1, <1>7, <1>8, <1>9, MovingWriteKeepsTold

LEMMA SiftKeepsTold ==
    ASSUME Structure, OneAtATime, InTold, "confirm" \notin Kinds, NEW g \in Groups, WriteSift(g)
    PROVE  InTold'
<1> DEFINE c == CommandAt(g)
           e == c.event
           w == work[g]
           r == rows[e]
           after == SiftRows(r, w.time)
<1>1. c.kind = "sift" /\ At(g, "write") /\ Commit(g, games, [rows EXCEPT ![e] = after])
  BY DEF WriteSift
<1>2. /\ w.todo # <<>> /\ r \in Rows /\ games[e].amount \in Nat
      /\ Ready(c, w, games[e], r, c.op \in applied) /\ Pending(w, "write") /\ ~Pending(w, "look")
  BY <1>1, AtWrite DEF Game
<1>3. ~Sifted(r) /\ w.time \in Times /\ IsShift(r, w.time)
  BY <1>1, <1>2 DEF Ready, SiftReady
<1>4. w.time \in Nat
  BY <1>3, OrderedMutationsAssumption
<1>5. WriteForeseen(c, games[e], r, games[e], after)
  BY <1>1, <1>2, <1>3, <1>4, SiftForeseen
<1> HIDE DEF after
<1>6. PICK newRows : Written(g, games, newRows, games[e], after)
  BY <1>1, <1>2, RowsWritten
<1>7. c.kind \in Moving
  BY <1>1 DEF Moving
<1> QED
  BY <1>1, <1>5, <1>6, <1>7, MovingWriteKeepsTold

LEMMA PromoteKeepsTold ==
    ASSUME Structure, OneAtATime, InTold, "confirm" \notin Kinds, NEW g \in Groups, WritePromote(g)
    PROVE  InTold'
<1> DEFINE c == CommandAt(g)
           e == c.event
           w == work[g]
           r == rows[e]
           game == games[e]
           x == Key(c)
<1>1. c.kind = "promote" /\ At(g, "write")
  BY DEF WritePromote
<1>2. /\ w.todo # <<>> /\ c.op \in OperationIds /\ c.op # NoOperation /\ x \in Players /\ e \in Events
      /\ r \in Rows /\ DistinctTimes(r) /\ game.amount \in Nat
      /\ Ready(c, w, game, r, c.op \in applied) /\ Pending(w, "write")
  BY <1>1, AtWrite DEF ByTarget, Game
<1>3. c.op \notin applied /\ PromoteReady(c, w, game, r)
  BY <1>1, <1>2 DEF Ready
<1>4. PICK y \in Players : IsSwap(r, game.amount, x, y) /\ w.mate = {y} /\ w.time = r[x].at /\ w.mateTime = r[y].at
  BY <1>3 DEF PromoteReady
<1>5. r[x].op # c.op /\ r[y].op # c.op
  BY <1>2, <1>3 DEF OneAtATime, MarksAreApplied
<1> DEFINE after == SwapRows(r, c.op, x, r[x].at, y, r[y].at)
<1>6. Commit(g, games, [rows EXCEPT ![e] = after])
  BY <1>4 DEF WritePromote
<1>7. WriteForeseen(c, game, r, game, after)
  BY <1>1, <1>2, <1>4, <1>5, PromoteForeseen
<1> HIDE DEF after
<1>8. PICK newRows : Written(g, games, newRows, game, after)
  BY <1>2, <1>6, RowsWritten
<1>9. c.kind \in Moving
  BY <1>1 DEF Moving
<1> QED
  BY <1>1, <1>7, <1>8, <1>9, MovingWriteKeepsTold

LEMMA AmountKeepsTold ==
    ASSUME Structure, OneAtATime, InTold, "confirm" \notin Kinds, NEW g \in Groups, WriteAmount(g)
    PROVE  InTold'
<1> DEFINE c == CommandAt(g)
           e == c.event
           game == [games[e] EXCEPT !.amount = c.amount]
<1>1. c.kind = "amount" /\ At(g, "write") /\ work[g].todo # <<>> /\ Commit(g, [games EXCEPT ![e] = game], rows)
  BY DEF WriteAmount, At
<1>2. games[e] \in Game
  BY <1>1, AtStep DEF Structure, TypeOK
<1>3. game.amount = c.amount /\ game.removal = games[e].removal /\ game.reserve = games[e].reserve
  BY <1>2 DEF Game
<1> HIDE DEF game
<1>4. WriteForeseen(c, games[e], rows[e], game, rows[e])
  BY <1>1, <1>3, AmountForeseen
<1>5. PICK newGames : Written(g, newGames, rows, game, rows[e])
  BY <1>1, GameWritten
<1>6. c.kind \in Moving
  BY <1>1 DEF Moving
<1> QED
  BY <1>1, <1>3, <1>4, <1>5, <1>6, MovingWriteKeepsTold

\* A write to the row of the game that leaves the capacity alone.
LEMMA PlainGameWriteKeepsTold ==
    ASSUME Structure, OneAtATime, InTold, "confirm" \notin Kinds, NEW g \in Groups, work[g].todo # <<>>,
           NEW c, c = CommandAt(g), NEW e, e = c.event, c.kind \notin Moving,
           NEW game, Commit(g, [games EXCEPT ![e] = game], rows),
           game.amount = games[e].amount, game.removal = games[e].removal, game.reserve = games[e].reserve
    PROVE  InTold'
<1>1. PICK newGames : Written(g, newGames, rows, game, rows[e])
  BY GameWritten
<1>2. \A m : ~Change(c, rows[e], games[e].amount, rows[e], game.amount, m)
  BY NoChange
<1> QED
  BY <1>1, <1>2, OtherWriteKeepsTold

LEMMA GameWritesKeepTold ==
    ASSUME Structure, OneAtATime, InTold, "confirm" \notin Kinds, NEW g \in Groups,
           WriteStatus(g) \/ WriteArchival(g) \/ DropGame(g)
    PROVE  InTold'
<1> DEFINE c == CommandAt(g)
           e == c.event
           old == games[e]
<1>1. work[g].todo # <<>>
  BY DEF WriteStatus, WriteArchival, DropGame, At
<1>2. e \in Events /\ old \in Game
  BY <1>1, AtStep DEF Structure, TypeOK
<1>3. CASE WriteStatus(g)
  <2> DEFINE game == [old EXCEPT !.status = NewStatus(c.kind)]
  <2>1. c.kind \in {"open", "close", "open_confirmation"} /\ Commit(g, [games EXCEPT ![e] = game], rows)
    BY <1>3 DEF WriteStatus
  <2>2. game.amount = old.amount /\ game.removal = old.removal /\ game.reserve = old.reserve
    BY <1>2 DEF Game
  <2>3. c.kind \notin Moving
    BY <2>1 DEF Moving
  <2> HIDE DEF game
  <2> QED
    BY <1>1, <2>1, <2>2, <2>3, PlainGameWriteKeepsTold
<1>4. CASE WriteArchival(g) /\ c.kind = "archive"
  <2> DEFINE game == [old EXCEPT !.status = "closed", !.archived = TRUE]
  <2>1. Commit(g, [games EXCEPT ![e].status = "closed", ![e].archived = TRUE], rows)
    BY <1>4 DEF WriteArchival
  <2>2. [games EXCEPT ![e].status = "closed", ![e].archived = TRUE] = [games EXCEPT ![e] = game]
    BY <1>2 DEF Structure, TypeOK
  <2>3. Commit(g, [games EXCEPT ![e] = game], rows)
    BY <2>1, <2>2
  <2>4. game.amount = old.amount /\ game.removal = old.removal /\ game.reserve = old.reserve
    BY <1>2 DEF Game
  <2>5. c.kind \notin Moving
    BY <1>4 DEF Moving
  <2> HIDE DEF game
  <2> QED
    BY <1>1, <2>3, <2>4, <2>5, PlainGameWriteKeepsTold
<1>5. CASE WriteArchival(g) /\ c.kind = "unarchive"
  <2> DEFINE game == [old EXCEPT !.archived = FALSE]
  <2>1. Commit(g, [games EXCEPT ![e] = game], rows)
    BY <1>5 DEF WriteArchival
  <2>2. game.amount = old.amount /\ game.removal = old.removal /\ game.reserve = old.reserve
    BY <1>2 DEF Game
  <2>3. c.kind \notin Moving
    BY <1>5 DEF Moving
  <2> HIDE DEF game
  <2> QED
    BY <1>1, <2>1, <2>2, <2>3, PlainGameWriteKeepsTold
<1>6. CASE DropGame(g)
  <2> DEFINE game == [old EXCEPT !.exists = FALSE]
  <2>1. Commit(g, [games EXCEPT ![e] = game], rows) /\ Head(work[g].todo) = "drop"
    BY <1>6 DEF DropGame, At
  <2>2. game.amount = old.amount /\ game.removal = old.removal /\ game.reserve = old.reserve
    BY <1>2 DEF Game
  <2>3. c.kind = "delete"
    <3>1. queue[g] # <<>> /\ Pending(work[g], "drop")
      BY <1>1, <2>1, StepInTurn
    <3> QED
      BY <3>1, AtTurn DEF InTurn, Admitted
  <2>4. c.kind \notin Moving
    BY <2>3 DEF Moving
  <2> HIDE DEF game
  <2> QED
    BY <1>1, <2>1, <2>2, <2>4, PlainGameWriteKeepsTold
<1>7. WriteArchival(g) => c.kind \in {"archive", "unarchive"}
  BY DEF WriteArchival
<1> QED
  BY <1>3, <1>4, <1>5, <1>6, <1>7

-----------------------------------------------------------------------------
\* The other steps of an attempt

\* A step that changes nothing but the attempt.
LEMMA PassingKeepsTold ==
    ASSUME Structure, OneAtATime, InTold, "confirm" \notin Kinds, NEW g \in Groups, queue[g] # <<>>,
           UNCHANGED <<games, rows, queue, published, moved, told, applied>>,
           NEW a, work' = [work EXCEPT ![g] = a], NEW c, c = CommandAt(g),
           Announces(c, a, games[c.event], rows[c.event], MovesOf(c, moved), told)
    PROVE  InTold'
<1> DEFINE e == c.event
<1>1. DoneIsTold(games[e], told) /\ e \in Events /\ games \in [Events -> Game]
  BY AtTold
<1>2. games' = [games EXCEPT ![e] = games[e]]
  BY <1>1
<1>3. /\ games[e].reserve.op \in {games[e].reserve.op, c.op} /\ told \subseteq told'
      /\ DoneIsTold(games[e], told')
      /\ Announces(c, a, games[e], rows[e], MovesOf(c, moved), told')
  BY <1>1
<1>4. UNCHANGED <<rows, queue, published, moved, applied>>
  OBVIOUS
<1> QED
  BY <1>2, <1>3, <1>4, QuietStepKeepsTold

\* A step that goes on to the next one and changes the row of the game.
LEMMA RecordKeepsTold ==
    ASSUME Structure, InTold, "confirm" \notin Kinds, NEW g \in Groups, queue[g] # <<>>,
           UNCHANGED <<rows, queue, published, moved, applied>>, told \subseteq told',
           NEW c, c = CommandAt(g), NEW e, e = c.event,
           NEW game, games' = [games EXCEPT ![e] = game],
           NEW b, NEW a, Continued(g, b, a),
           game.reserve.op \in {games[e].reserve.op, c.op}, DoneIsTold(game, told'),
           Announces(c, a, game, rows[e], MovesOf(c, moved), told')
    PROVE  InTold'
<1>1. work' = [work EXCEPT ![g] = a]
  BY DEF Continued
<1> QED
  BY <1>1, QuietStepKeepsTold

LEMMA FailingKeepsTold ==
    ASSUME Structure, OneAtATime, InTold, "confirm" \notin Kinds, NEW g \in Groups, Fail(g)
    PROVE  InTold'
<1> DEFINE c == CommandAt(g)
           e == c.event
<1>1. queue[g] # <<>>
  BY AtStep DEF Fail
<1>2. Announces(c, work[g], games[e], rows[e], MovesOf(c, moved), told)
  BY <1>1, AtTold
<1>3. Idle.todo = <<>> /\ InOrder(Idle.todo) /\ \A step : ~Pending(Idle, step)
  BY DEF Idle, InOrder, Pending
<1>4. Announces(c, Idle, games[e], rows[e], MovesOf(c, moved), told)
  <2> DEFINE mine == MovesOf(c, moved)
  <2>1. Announces(c, work[g], games[e], rows[e], mine, told)
    BY <1>2
  <2> HIDE DEF mine
  <2>2. Announces(c, Idle, games[e], rows[e], mine, told)
    BY <1>3, <2>1, GivenUpAnnounces
  <2> QED
    BY <2>2 DEF mine
<1>5. work' = [work EXCEPT ![g] = Idle] /\ UNCHANGED <<games, rows, queue, published, moved, told, applied>>
  BY DEF Fail, history
<1> QED
  BY <1>1, <1>4, <1>5, PassingKeepsTold

LEMMA RemovalKeepsTold ==
    ASSUME Structure, OneAtATime, InTold, "confirm" \notin Kinds, NEW g \in Groups, RecordRemoval(g)
    PROVE  InTold'
<1> DEFINE c == CommandAt(g)
           e == c.event
           w == work[g]
           old == games[e]
           record == IF old.removal.op = c.op
                     THEN [old.removal EXCEPT !.entries = @ \cup w.entries]
                     ELSE [op |-> c.op, entries |-> w.entries, done |-> {}]
           game == [old EXCEPT !.removal = record]
           mine == MovesOf(c, moved)
<1>1. /\ w.todo # <<>> /\ Head(w.todo) = "removal" /\ Continue(g, w)
      /\ games' = [games EXCEPT ![e] = game]
      /\ UNCHANGED <<rows, queue, published, moved, applied, told>>
  BY DEF RecordRemoval, At, history
<1>2. queue[g] # <<>>
  BY <1>1, AtStep
<1>3. /\ w \in Attempt /\ old \in Game /\ old.removal \in Removal
      /\ DoneIsTold(old, told) /\ Announces(c, w, old, rows[e], mine, told)
  BY <1>2, AtTold
<1>4. PICK a : Continued(g, w, a)
  BY <1>1, <1>3, ContinueOnwards
<1>5. game.removal = record /\ game.amount = old.amount /\ game.reserve = old.reserve
  BY <1>3 DEF Game
<1>6. /\ record.op = c.op /\ w.entries \subseteq record.entries
      /\ old.removal.op = c.op => old.removal.entries \subseteq record.entries /\ record.done = old.removal.done
      /\ old.removal.op # c.op => record.done = {}
  BY <1>3 DEF Removal
<1> HIDE DEF record
<1> HIDE DEF game
<1> HIDE DEF mine
<1>7. Announces(c, a, game, rows[e], mine, told)
  <2>1. Onwards(w, a) /\ a.entries = w.entries /\ a.candidates = w.candidates /\ a.amount = w.amount
    BY <1>4 DEF Continued
  <2>2. game.removal.op = c.op /\ w.entries \subseteq game.removal.entries
    BY <1>5, <1>6
  <2>3. old.removal.op = c.op => old.removal.entries \subseteq game.removal.entries
    BY <1>5, <1>6
  <2>4. game.reserve.op = old.reserve.op /\ game.reserve.keys = old.reserve.keys /\ game.amount = old.amount
    BY <1>5
  <2>5. w \in Attempt /\ w.todo # <<>> /\ Head(w.todo) = "removal"
    BY <1>1, <1>3
  <2>6. Announces(c, w, old, rows[e], mine, told)
    BY <1>3
  <2> HIDE DEF w, old, e, c
  <2> QED
    BY <2>1, <2>2, <2>3, <2>4, <2>5, <2>6, RemovalAnnounces
<1>8. DoneIsTold(game, told)
  <2>1. Notices(game.removal.op, game.removal.done) \subseteq told
    <3>1. Notices(old.removal.op, old.removal.done) \subseteq told
      BY <1>3 DEF DoneIsTold
    <3>2. Notices(c.op, {}) = {}
      BY DEF Notices
    <3> QED
      BY <1>5, <1>6, <3>1, <3>2
  <2> QED
    BY <1>3, <1>5, <2>1 DEF DoneIsTold
<1>9. /\ game.reserve.op \in {games[e].reserve.op, c.op} /\ DoneIsTold(game, told') /\ told \subseteq told'
      /\ Announces(c, a, game, rows[e], MovesOf(c, moved), told')
  BY <1>1, <1>5, <1>7, <1>8 DEF mine
<1> QED
  BY <1>1, <1>2, <1>4, <1>9, RecordKeepsTold

LEMMA ReserveKeepsTold ==
    ASSUME Structure, OneAtATime, InTold, "confirm" \notin Kinds, NEW g \in Groups, RecordReserve(g)
    PROVE  InTold'
<1> DEFINE c == CommandAt(g)
           e == c.event
           w == work[g]
           old == games[e]
           record == [old.reserve EXCEPT !.op = c.op, !.keys = w.candidates, !.done = FALSE]
           game == [old EXCEPT !.reserve = record]
           mine == MovesOf(c, moved)
<1>1. w.todo # <<>> /\ Head(w.todo) = "reserve" /\ Continue(g, w)
      /\ UNCHANGED <<rows, queue, published, moved, applied, told>>
  BY DEF RecordReserve, At, history
<1>2. queue[g] # <<>>
  BY <1>1, AtStep
<1>3. /\ w \in Attempt /\ old \in Game /\ old.reserve \in Promotion /\ DrawnOn(g) = e
      /\ DoneIsTold(old, told) /\ Announces(c, w, old, rows[e], mine, told)
  BY <1>2, AtTold
<1>4. games' = [games EXCEPT ![e] = game]
  BY <1>3 DEF RecordReserve
<1>5. PICK a : Continued(g, w, a)
  BY <1>1, <1>3, ContinueOnwards
<1>6. game.reserve = record /\ game.amount = old.amount /\ game.removal = old.removal
  BY <1>3 DEF Game
<1>7. record.op = c.op /\ record.keys = w.candidates /\ record.done = FALSE
  BY <1>3 DEF Promotion
<1> HIDE DEF record
<1> HIDE DEF game
<1> HIDE DEF mine
<1>8. Announces(c, a, game, rows[e], mine, told)
  <2>1. Onwards(w, a) /\ a.entries = w.entries
    BY <1>5 DEF Continued
  <2>2. game.reserve.op = c.op /\ game.reserve.keys = w.candidates
    BY <1>6, <1>7
  <2>3. game.amount = old.amount /\ game.removal.op = old.removal.op
        /\ game.removal.entries = old.removal.entries
    BY <1>6
  <2>4. w \in Attempt /\ w.todo # <<>> /\ Head(w.todo) = "reserve"
    BY <1>1, <1>3
  <2>5. Announces(c, w, old, rows[e], mine, told)
    BY <1>3
  <2> HIDE DEF w, old, e, c
  <2> QED
    BY <2>1, <2>2, <2>3, <2>4, <2>5, ReserveAnnounces
<1>9. DoneIsTold(game, told)
  BY <1>3, <1>6, <1>7 DEF DoneIsTold
<1>10. /\ game.reserve.op \in {games[e].reserve.op, c.op} /\ DoneIsTold(game, told') /\ told \subseteq told'
       /\ Announces(c, a, game, rows[e], MovesOf(c, moved), told')
  BY <1>1, <1>6, <1>7, <1>8, <1>9 DEF mine
<1> QED
  BY <1>1, <1>2, <1>4, <1>5, <1>10, RecordKeepsTold

LEMMA LinkKeepsTold ==
    ASSUME Structure, OneAtATime, InTold, "confirm" \notin Kinds, NEW g \in Groups, RecordLink(g)
    PROVE  InTold'
<1> DEFINE c == CommandAt(g)
           e == c.event
           w == work[g]
           old == games[e]
           record == [old.link EXCEPT !.op = c.op, !.keys = w.confirmed, !.done = FALSE]
           game == [old EXCEPT !.link = record]
           mine == MovesOf(c, moved)
<1>1. w.todo # <<>> /\ Head(w.todo) = "link" /\ Continue(g, w)
      /\ UNCHANGED <<rows, queue, published, moved, applied, told>>
  BY DEF RecordLink, At, history
<1>2. queue[g] # <<>>
  BY <1>1, AtStep
<1>3. /\ w \in Attempt /\ old \in Game /\ DrawnOn(g) = e
      /\ DoneIsTold(old, told) /\ Announces(c, w, old, rows[e], mine, told)
  BY <1>2, AtTold
<1>4. games' = [games EXCEPT ![e] = game]
  BY <1>3 DEF RecordLink
<1>5. PICK a : Continued(g, w, a)
  BY <1>1, <1>3, ContinueOnwards
<1> HIDE DEF record
<1>6. game.amount = old.amount /\ game.removal = old.removal /\ game.reserve = old.reserve
  BY <1>3 DEF Game
<1> HIDE DEF game
<1> HIDE DEF mine
<1>7. Announces(c, a, game, rows[e], mine, told)
  <2>1. Onwards(w, a) /\ a.entries = w.entries /\ a.candidates = w.candidates /\ a.amount = w.amount
    BY <1>5 DEF Continued
  <2>2. /\ game.amount = old.amount /\ game.removal.op = old.removal.op
        /\ game.removal.entries = old.removal.entries
        /\ game.reserve.op = old.reserve.op /\ game.reserve.keys = old.reserve.keys
    BY <1>6
  <2>3. w \in Attempt /\ w.todo # <<>> /\ Head(w.todo) \notin Preparing /\ Head(w.todo) \notin Telling
    BY <1>1, <1>3 DEF Preparing, Telling
  <2>4. Announces(c, w, old, rows[e], mine, told)
    BY <1>3
  <2> HIDE DEF w, old, e, c
  <2> QED
    BY <2>1, <2>2, <2>3, <2>4, PassingAnnounces
<1>8. DoneIsTold(game, told)
  BY <1>3, <1>6 DEF DoneIsTold
<1>9. /\ game.reserve.op \in {games[e].reserve.op, c.op} /\ DoneIsTold(game, told') /\ told \subseteq told'
      /\ Announces(c, a, game, rows[e], MovesOf(c, moved), told')
  BY <1>1, <1>6, <1>7, <1>8 DEF mine
<1> QED
  BY <1>1, <1>2, <1>4, <1>5, <1>9, RecordKeepsTold

LEMMA TellLinkKeepsTold ==
    ASSUME Structure, OneAtATime, InTold, "confirm" \notin Kinds, NEW g \in Groups, TellLink(g)
    PROVE  InTold'
<1> DEFINE c == CommandAt(g)
           e == c.event
           w == work[g]
           old == games[e]
           marked == [old EXCEPT !.link = [@ EXCEPT !.done = TRUE]]
           game == IF old.link.op = c.op /\ old.link.keys # {} THEN marked ELSE old
           mine == MovesOf(c, moved)
<1>1. w.todo # <<>> /\ Head(w.todo) = "tellLink" /\ Continue(g, w)
      /\ UNCHANGED <<rows, queue, published, moved, applied, told>>
  BY DEF TellLink, At, history
<1>2. queue[g] # <<>>
  BY <1>1, AtStep
<1>3. /\ w \in Attempt /\ old \in Game /\ DrawnOn(g) = e /\ e \in Events /\ games \in [Events -> Game]
      /\ DoneIsTold(old, told) /\ Announces(c, w, old, rows[e], mine, told)
  BY <1>2, AtTold
<1>4. games' = [games EXCEPT ![e] = game]
  BY <1>3 DEF TellLink
<1>5. PICK a : Continued(g, w, a)
  BY <1>1, <1>3, ContinueOnwards
<1>6. game.amount = old.amount /\ game.removal = old.removal /\ game.reserve = old.reserve
  BY <1>3 DEF Game
<1> HIDE DEF game
<1> HIDE DEF mine
<1>7. Announces(c, a, game, rows[e], mine, told)
  <2>1. Onwards(w, a) /\ a.entries = w.entries /\ a.candidates = w.candidates /\ a.amount = w.amount
    BY <1>5 DEF Continued
  <2>2. /\ game.amount = old.amount /\ game.removal.op = old.removal.op
        /\ game.removal.entries = old.removal.entries
        /\ game.reserve.op = old.reserve.op /\ game.reserve.keys = old.reserve.keys
    BY <1>6
  <2>3. w \in Attempt /\ w.todo # <<>> /\ Head(w.todo) \notin Preparing /\ Head(w.todo) \notin Telling
    BY <1>1, <1>3 DEF Preparing, Telling
  <2>4. Announces(c, w, old, rows[e], mine, told)
    BY <1>3
  <2> HIDE DEF w, old, e, c
  <2> QED
    BY <2>1, <2>2, <2>3, <2>4, PassingAnnounces
<1>8. DoneIsTold(game, told)
  BY <1>3, <1>6 DEF DoneIsTold
<1>9. /\ game.reserve.op \in {games[e].reserve.op, c.op} /\ DoneIsTold(game, told') /\ told \subseteq told'
      /\ Announces(c, a, game, rows[e], MovesOf(c, moved), told')
  BY <1>1, <1>6, <1>7, <1>8 DEF mine
<1> QED
  BY <1>1, <1>2, <1>4, <1>5, <1>9, RecordKeepsTold

LEMMA LookKeepsTold ==
    ASSUME Structure, OneAtATime, InTold, "confirm" \notin Kinds, NEW g \in Groups, Look(g)
    PROVE  InTold'
<1> DEFINE c == CommandAt(g)
           e == c.event
           w == work[g]
           r == rows[e]
           keys == Promoted(r, Key(c), w.amount)
           mine == MovesOf(c, moved)
<1>1. w.todo # <<>> /\ Head(w.todo) = "look"
      /\ UNCHANGED <<games, rows, queue, published, moved, told, applied>>
  BY DEF Look, At, history
<1>2. queue[g] # <<>>
  BY <1>1, AtStep
<1>3. /\ w \in Attempt /\ DrawnOn(g) = e /\ Announces(c, w, games[e], r, mine, told)
  BY <1>2, AtTold
<1>4. c.kind = "sift" => Active(r) # {}
  <2> SUFFICES ASSUME c.kind = "sift", Active(r) = {} PROVE FALSE
    OBVIOUS
  <2>1. PlanTells(c, w, r) /\ Pending(w, "look")
    BY <1>1, <1>3, NothingEarlier DEF Announces
  <2>2. Pending(w, "write")
    BY <2>1 DEF PlanTells
  <2>3. ~Sifted(r)
    <3>1. InTurn(c, w, games[e], r, c.op \in applied)
      BY <1>2, AtTurn
    <3> QED
      BY <2>2, <3>1 DEF InTurn, Ready, SiftReady
  <2>4. WithStatus(r, "waiting") \subseteq Active(r)
    BY DEF WithStatus, Active
  <2> QED
    BY <2>3, <2>4 DEF Sifted
<1>5. \E b \in Attempt : /\ b.todo = w.todo /\ b.refused = w.refused /\ b.entries = w.entries
                         /\ Leaving(c) => b.candidates = keys
                         /\ Continue(g, b)
  <2>1. ASSUME NEW shift \in Times, c.kind = "sift", Continue(g, [w EXCEPT !.time = shift])
        PROVE  \E b \in Attempt : /\ b.todo = w.todo /\ b.refused = w.refused /\ b.entries = w.entries
                                  /\ Leaving(c) => b.candidates = keys
                                  /\ Continue(g, b)
    <3> DEFINE b == [w EXCEPT !.time = shift]
    <3>1. b \in Attempt /\ b.todo = w.todo /\ b.refused = w.refused /\ b.entries = w.entries
      BY <1>3, OrderedMutationsAssumption DEF Attempt
    <3>2. ~Leaving(c) /\ Continue(g, b)
      BY <2>1 DEF Leaving
    <3> HIDE DEF b
    <3> QED
      BY <3>1, <3>2
  <2>2. ASSUME Continue(g, [w EXCEPT !.candidates = keys,
                                     !.confirmed = {q \in keys : r[q].status = "confirmed"}])
        PROVE  \E b \in Attempt : /\ b.todo = w.todo /\ b.refused = w.refused /\ b.entries = w.entries
                                  /\ Leaving(c) => b.candidates = keys
                                  /\ Continue(g, b)
    <3>1. keys \subseteq Players
      BY DEF Promoted, Active
    <3> HIDE DEF keys
    <3> DEFINE some == {q \in keys : r[q].status = "confirmed"}
               b == [w EXCEPT !.candidates = keys, !.confirmed = some]
    <3>2. some \subseteq Players
      BY <3>1
    <3>3. Continue(g, b)
      BY <2>2
    <3> HIDE DEF some
    <3>4. /\ b \in Attempt /\ b.todo = w.todo /\ b.refused = w.refused /\ b.entries = w.entries
          /\ b.candidates = keys
      BY <1>3, <3>1, <3>2 DEF Attempt
    <3> HIDE DEF b
    <3> QED
      BY <3>3, <3>4
  <2> QED
    BY <1>3, <1>4, <2>1, <2>2 DEF Look
<1>6. PICK b \in Attempt : /\ b.todo = w.todo /\ b.refused = w.refused /\ b.entries = w.entries
                           /\ Leaving(c) => b.candidates = keys
                           /\ Continue(g, b)
  BY <1>5
<1>7. PICK a : Continued(g, b, a)
  BY <1>1, <1>6, ContinueOnwards
<1> HIDE DEF mine
<1>8. Announces(c, a, games[e], r, mine, told)
  <2>1. Onwards(w, a) /\ a.entries = w.entries
    BY <1>6, <1>7 DEF Continued
  <2>2. Leaving(c) => a.candidates = Promoted(r, Key(c), w.amount)
    BY <1>6, <1>7 DEF Continued
  <2>3. w \in Attempt /\ w.todo # <<>> /\ Head(w.todo) = "look"
    BY <1>1, <1>3
  <2>4. Announces(c, w, games[e], r, mine, told)
    BY <1>3
  <2> DEFINE game == games[e]
  <2> HIDE DEF w, game, r, e, c
  <2> QED
    BY <2>1, <2>2, <2>3, <2>4, LookAnnounces
<1>9. work' = [work EXCEPT ![g] = a]
  BY <1>7 DEF Continued
<1>10. Announces(c, a, games[e], rows[e], MovesOf(c, moved), told)
  BY <1>8 DEF mine
<1> QED
  BY <1>1, <1>2, <1>9, <1>10, PassingKeepsTold

\* Whoever is recorded for the operation moves up: they are told and marked.
LEMMA TellReserveKeepsTold ==
    ASSUME Structure, OneAtATime, InTold, "confirm" \notin Kinds, NEW g \in Groups, TellReserve(g)
    PROVE  InTold'
<1> DEFINE c == CommandAt(g)
           e == c.event
           w == work[g]
           old == games[e]
           due == old.reserve.op = c.op /\ ~old.reserve.done /\ old.reserve.keys # {}
           notices == Notices(c.op, Entries("up", old.reserve.keys))
           marked == [old EXCEPT !.reserve = [@ EXCEPT !.done = TRUE]]
           game == IF due THEN marked ELSE old
           mine == MovesOf(c, moved)
<1>1. w.todo # <<>> /\ Head(w.todo) = "tellReserve" /\ Continue(g, w)
      /\ UNCHANGED <<rows, queue, published, moved, applied>>
  BY DEF TellReserve, At
<1>2. queue[g] # <<>>
  BY <1>1, AtStep
<1>3. /\ w \in Attempt /\ old \in Game /\ old.reserve \in Promotion
      /\ DrawnOn(g) = e /\ e \in Events /\ games \in [Events -> Game]
      /\ DoneIsTold(old, told) /\ Announces(c, w, old, rows[e], mine, told)
  BY <1>2, AtTold
<1>4. /\ games' = [games EXCEPT ![e] = game] /\ told \subseteq told'
      /\ due => notices \subseteq told'
  BY <1>3 DEF TellReserve
<1>5. PICK a : Continued(g, w, a)
  BY <1>1, <1>3, ContinueOnwards
<1>6. /\ game.amount = old.amount /\ game.removal = old.removal
      /\ game.reserve.op = old.reserve.op /\ game.reserve.keys = old.reserve.keys
      /\ game.reserve.done => due \/ old.reserve.done
  <2>1. CASE due
    <3>1. marked.amount = old.amount /\ marked.removal = old.removal
          /\ marked.reserve = [old.reserve EXCEPT !.done = TRUE]
      BY <1>3 DEF Game
    <3>2. marked.reserve.op = old.reserve.op /\ marked.reserve.keys = old.reserve.keys
      BY <1>3, <3>1 DEF Promotion
    <3> HIDE DEF marked
    <3> HIDE DEF due
    <3> QED
      BY <2>1, <3>1, <3>2
  <2>2. CASE ~due
    <3>1. game = old
      BY <2>2
    <3> HIDE DEF game
    <3> QED
      BY <3>1
  <2> QED
    BY <2>1, <2>2
<1> HIDE DEF game
<1>7. due <=> old.reserve.op = c.op /\ ~old.reserve.done /\ old.reserve.keys # {}
  OBVIOUS
<1> HIDE DEF due
<1>8. Announces(c, a, game, rows[e], mine, told')
  <2>1. Onwards(w, a) /\ a.entries = w.entries /\ a.candidates = w.candidates /\ a.amount = w.amount
    BY <1>5 DEF Continued
  <2>2. /\ game.amount = old.amount /\ game.removal.op = old.removal.op
        /\ game.removal.entries = old.removal.entries
        /\ game.reserve.op = old.reserve.op /\ game.reserve.keys = old.reserve.keys
    BY <1>6
  <2>3. w \in Attempt /\ w.todo # <<>> /\ Head(w.todo) = "tellReserve"
    BY <1>1, <1>3
  <2>4. Announces(c, w, old, rows[e], MovesOf(c, moved), told) /\ DoneIsTold(old, told) /\ told \subseteq told'
    BY <1>3, <1>4
  <2>5. old.reserve.op = c.op /\ old.reserve.keys # {} /\ ~old.reserve.done
           => Notices(c.op, Entries("up", old.reserve.keys)) \subseteq told'
    BY <1>4, <1>7
  <2> DEFINE r == rows[e]
  <2>6. Announces(c, w, old, r, MovesOf(c, moved), told)
    BY <2>4
  <2> HIDE DEF w, old, r, e, c
  <2> DEFINE more == told'
  <2>7. old.reserve.op = c.op /\ old.reserve.keys # {} /\ ~old.reserve.done
           => Notices(c.op, Entries("up", old.reserve.keys)) \subseteq more
    BY <2>5
  <2>8. told \subseteq more
    BY <2>4
  <2> HIDE DEF more
  <2>9. Announces(c, a, game, r, MovesOf(c, moved), more)
    BY <2>1, <2>2, <2>3, <2>4, <2>6, <2>7, <2>8, TellReserveAnnounces
  <2> QED
    BY <2>9 DEF more, r
<1>9. DoneIsTold(game, told')
  <2>1. Notices(game.removal.op, game.removal.done) \subseteq told'
    BY <1>3, <1>4, <1>6 DEF DoneIsTold
  <2>2. ASSUME game.reserve.done
        PROVE  Notices(game.reserve.op, Entries("up", game.reserve.keys)) \subseteq told'
    <3>1. CASE due
      BY <1>4, <1>6, <1>7, <3>1
    <3>2. CASE old.reserve.done
      BY <1>3, <1>4, <1>6, <3>2 DEF DoneIsTold
    <3> QED
      BY <1>6, <2>2, <3>1, <3>2
  <2> QED
    BY <2>1, <2>2 DEF DoneIsTold
<1>10. /\ game.reserve.op \in {games[e].reserve.op, c.op} /\ DoneIsTold(game, told') /\ told \subseteq told'
       /\ Announces(c, a, game, rows[e], MovesOf(c, moved), told')
  BY <1>4, <1>6, <1>8, <1>9
<1> HIDE DEF mine
<1> QED
  BY <1>1, <1>2, <1>4, <1>5, <1>10, RecordKeepsTold

LEMMA ReadKeepsTold ==
    ASSUME Structure, OneAtATime, InTold, "confirm" \notin Kinds, NEW g \in Groups, Read(g)
    PROVE  InTold'
<1> DEFINE c == CommandAt(g)
           e == c.event
           w == work[g]
           game == games[e]
           r == rows[e]
           due == Due(c)
           b == [w EXCEPT !.entries = due]
           mine == MovesOf(c, moved)
<1>1. w.todo # <<>> /\ Head(w.todo) = "read" /\ Continue(g, b)
      /\ UNCHANGED <<games, rows, queue, published, moved, told, applied>>
  BY DEF Read, At, history
<1>2. queue[g] # <<>>
  BY <1>1, AtStep
<1>3. /\ w \in Attempt /\ game \in Game /\ game.removal \in Removal
      /\ DoneIsTold(game, told) /\ Announces(c, w, game, r, mine, told)
  BY <1>2, AtTold
<1>4. c.kind \in Moving /\ game.removal.op = c.op =>
          due = IF c.kind \in {"sift", "promote"}
                THEN Current(game.removal.entries \ game.removal.done, r, game.amount)
                ELSE game.removal.entries \ game.removal.done
  BY DEF Due, Moving
<1>5. due \in SUBSET Entry
  <2>1. Entries("opened", WithStatus(r, "waiting")) \subseteq Entry
    BY DEF Entries, WithStatus, Entry
  <2>2. game.removal.entries \subseteq Entry
    BY <1>3 DEF Removal
  <2>3. Current(game.removal.entries \ game.removal.done, r, game.amount) \subseteq Entry
    BY <2>2 DEF Current
  <2> QED
    BY <2>1, <2>2, <2>3 DEF Due
<1> HIDE DEF due
<1>6. b \in Attempt /\ b.todo = w.todo /\ b.refused = w.refused /\ b.entries = due
      /\ b.candidates = w.candidates /\ b.amount = w.amount
  BY <1>3, <1>5 DEF Attempt
<1> HIDE DEF b
<1>7. PICK a : Continued(g, b, a)
  BY <1>1, <1>6, ContinueOnwards
<1>8. Announces(c, a, game, r, mine, told)
  <2>1. Onwards(w, a) /\ a.candidates = w.candidates /\ a.amount = w.amount
    BY <1>6, <1>7 DEF Continued
  <2>2. a.entries = due
    BY <1>6, <1>7 DEF Continued
  <2>3. w \in Attempt /\ w.todo # <<>> /\ Head(w.todo) = "read"
    BY <1>1, <1>3
  <2>4. Announces(c, w, game, r, MovesOf(c, moved), told) /\ DoneIsTold(game, told)
    BY <1>3
  <2> HIDE DEF w, game, r, e, c
  <2>5. c.kind \in Moving /\ game.removal.op = c.op =>
            a.entries = IF c.kind \in {"sift", "promote"}
                        THEN Current(game.removal.entries \ game.removal.done, r, game.amount)
                        ELSE game.removal.entries \ game.removal.done
    BY <1>4, <2>2
  <2> QED
    BY <2>1, <2>3, <2>4, <2>5, ReadAnnounces
<1> HIDE DEF mine
<1>9. work' = [work EXCEPT ![g] = a]
  BY <1>7 DEF Continued
<1>10. Announces(c, a, games[e], rows[e], MovesOf(c, moved), told)
  BY <1>8 DEF mine
<1> QED
  BY <1>1, <1>2, <1>9, <1>10, PassingKeepsTold

LEMMA SendKeepsTold ==
    ASSUME Structure, OneAtATime, InTold, "confirm" \notin Kinds, NEW g \in Groups, Send(g)
    PROVE  InTold'
<1> DEFINE c == CommandAt(g)
           e == c.event
           w == work[g]
           old == games[e]
           mine == MovesOf(c, moved)
<1>1. w.todo # <<>> /\ Head(w.todo) = "send"
      /\ UNCHANGED <<rows, queue, published, moved, applied>>
  BY DEF Send, At
<1>2. queue[g] # <<>>
  BY <1>1, AtStep
<1>3. /\ w \in Attempt /\ old \in Game /\ old.removal \in Removal
      /\ e \in Events /\ games \in [Events -> Game] /\ work \in [Groups -> Attempt]
      /\ DoneIsTold(old, told) /\ Announces(c, w, old, rows[e], mine, told)
  BY <1>2, AtTold DEF Structure, TypeOK
<1>4. PICK n \in w.entries :
          /\ told' = told \cup Notices(c.op, {n})
          /\ games' = IF n.way # "opened" /\ old.removal.op = c.op
                      THEN [games EXCEPT ![e].removal.done = @ \cup {n}]
                      ELSE games
          /\ work' = [work EXCEPT ![g].entries = @ \ {n}]
  BY DEF Send
<1> DEFINE marks == n.way # "opened" /\ old.removal.op = c.op
           record == [old.removal EXCEPT !.done = @ \cup {n}]
           marked == [old EXCEPT !.removal = record]
           game == IF marks THEN marked ELSE old
           a == [w EXCEPT !.entries = @ \ {n}]
<1>5. games' = [games EXCEPT ![e] = game]
  <2>1. CASE marks
    <3>1. games' = [games EXCEPT ![e].removal.done = @ \cup {n}]
      BY <1>4, <2>1
    <3>2. games' = [games EXCEPT ![e] = marked]
      BY <3>1
    <3> HIDE DEF marked
    <3> QED
      BY <2>1, <3>2
  <2>2. CASE ~marks
    <3>1. games' = games /\ games[e] = game
      BY <1>4, <2>2
    <3> HIDE DEF game
    <3> QED
      BY <1>3, <3>1
  <2> QED
    BY <2>1, <2>2
<1>6. work' = [work EXCEPT ![g] = a]
  BY <1>3, <1>4
<1>7. /\ game.amount = old.amount /\ game.reserve = old.reserve
      /\ game.removal.op = old.removal.op /\ game.removal.entries = old.removal.entries
      /\ \/ game.removal.done = old.removal.done
         \/ game.removal.op = c.op /\ game.removal.done = old.removal.done \cup {n}
  <2>1. CASE marks
    <3>1. /\ marked.amount = old.amount /\ marked.reserve = old.reserve
          /\ marked.removal = record
      <4> HIDE DEF record
      <4> QED
        BY <1>3 DEF Game
    <3>2. /\ marked.removal.op = old.removal.op /\ marked.removal.entries = old.removal.entries
          /\ marked.removal.done = old.removal.done \cup {n}
      BY <1>3, <3>1 DEF Removal
    <3>3. game = marked /\ old.removal.op = c.op
      BY <2>1
    <3> HIDE DEF marked, marks, game
    <3> QED
      BY <3>1, <3>2, <3>3
  <2>2. CASE ~marks
    <3>1. game = old
      BY <2>2
    <3> HIDE DEF game
    <3> QED
      BY <3>1
  <2> QED
    BY <2>1, <2>2
<1> HIDE DEF game
<1>8. /\ a.todo = w.todo /\ a.refused = w.refused /\ a.entries = w.entries \ {n}
      /\ a.candidates = w.candidates /\ a.amount = w.amount
  BY <1>3 DEF Attempt
<1> HIDE DEF a
<1>9. Notices(c.op, {n}) \subseteq told' /\ told \subseteq told'
  BY <1>4
<1>10. Announces(c, a, game, rows[e], mine, told')
  <2> DEFINE r == rows[e]
             more == told'
  <2>1. w \in Attempt /\ w.todo # <<>> /\ Head(w.todo) = "send"
    BY <1>1, <1>3
  <2>2. Announces(c, w, old, r, MovesOf(c, moved), told)
    BY <1>3
  <2>3. /\ game.amount = old.amount /\ game.removal.op = old.removal.op
        /\ game.removal.entries = old.removal.entries
        /\ game.reserve.op = old.reserve.op /\ game.reserve.keys = old.reserve.keys
    BY <1>7
  <2>4. Notices(c.op, {n}) \subseteq more /\ told \subseteq more
    BY <1>9
  <2> HIDE DEF more, w, old, r, e, c
  <2>5. Announces(c, a, game, r, MovesOf(c, moved), more)
    BY <1>8, <2>1, <2>2, <2>3, <2>4, SendAnnounces
  <2> QED
    BY <2>5 DEF more, r
<1>11. DoneIsTold(game, told')
  <2>1. Notices(game.removal.op, game.removal.done) \subseteq told'
    <3>1. Notices(old.removal.op, old.removal.done) \subseteq told'
      BY <1>3, <1>9 DEF DoneIsTold
    <3>2. CASE game.removal.done = old.removal.done
      BY <1>7, <3>1, <3>2
    <3>3. CASE game.removal.op = c.op /\ game.removal.done = old.removal.done \cup {n}
      <4> DEFINE op == c.op
                 done == old.removal.done
      <4>1. Notices(op, done) \subseteq told' /\ Notices(op, {n}) \subseteq told'
        BY <1>7, <1>9, <3>1, <3>3
      <4> HIDE DEF op, done
      <4>2. Notices(op, done \cup {n}) \subseteq told'
        BY <4>1 DEF Notices
      <4> QED
        BY <3>3, <4>2 DEF op, done
    <3> QED
      BY <1>7, <3>2, <3>3
  <2>2. game.reserve.done => Notices(game.reserve.op, Entries("up", game.reserve.keys)) \subseteq told'
    BY <1>3, <1>7, <1>9 DEF DoneIsTold
  <2> QED
    BY <2>1, <2>2 DEF DoneIsTold
<1>12. game.reserve.op \in {games[e].reserve.op, c.op}
  BY <1>7
<1> HIDE DEF mine
<1>13. Announces(c, a, game, rows[e], MovesOf(c, moved), told')
  BY <1>10 DEF mine
<1> QED
  BY <1>1, <1>2, <1>5, <1>6, <1>9, <1>11, <1>12, <1>13, QuietStepKeepsTold

LEMMA AllSentKeepsTold ==
    ASSUME Structure, OneAtATime, InTold, "confirm" \notin Kinds, NEW g \in Groups, AllSent(g)
    PROVE  InTold'
<1> DEFINE c == CommandAt(g)
           e == c.event
           w == work[g]
           mine == MovesOf(c, moved)
<1>1. w.todo # <<>> /\ Head(w.todo) = "send" /\ w.entries = {} /\ Continue(g, w)
      /\ UNCHANGED <<games, rows, queue, published, moved, told, applied>>
  BY DEF AllSent, At, history
<1>2. queue[g] # <<>>
  BY <1>1, AtStep
<1>3. w \in Attempt /\ Announces(c, w, games[e], rows[e], mine, told)
  BY <1>2, AtTold
<1>4. PICK a : Continued(g, w, a)
  BY <1>1, <1>3, ContinueOnwards
<1> HIDE DEF mine
<1>5. Announces(c, a, games[e], rows[e], mine, told)
  <2>1. Onwards(w, a) /\ a.entries = w.entries /\ a.candidates = w.candidates /\ a.amount = w.amount
    BY <1>4 DEF Continued
  <2>2. w \in Attempt /\ w.todo # <<>> /\ Head(w.todo) = "send" /\ w.entries = {}
    BY <1>1, <1>3
  <2> DEFINE game == games[e]
             r == rows[e]
  <2>3. Announces(c, w, game, r, mine, told)
    BY <1>3
  <2> HIDE DEF w, game, r, e, c
  <2>4. Announces(c, a, game, r, mine, told)
    BY <2>1, <2>2, <2>3, AllSentAnnounces
  <2> QED
    BY <2>4 DEF game, r
<1>6. work' = [work EXCEPT ![g] = a]
  BY <1>4 DEF Continued
<1>7. Announces(c, a, games[e], rows[e], MovesOf(c, moved), told)
  BY <1>5 DEF mine
<1> QED
  BY <1>1, <1>2, <1>6, <1>7, PassingKeepsTold

LEMMA RefusingKeepsTold ==
    ASSUME Structure, OneAtATime, InTold, "confirm" \notin Kinds, NEW g \in Groups, queue[g] # <<>>,
           Refuse(g) \/ Deny(g)
    PROVE  InTold'
<1> DEFINE c == CommandAt(g)
           e == c.event
           mine == MovesOf(c, moved)
           a == IF Deny(g) THEN [Idle EXCEPT !.refused = TRUE, !.denied = TRUE, !.todo = <<"reply">>]
                ELSE [Idle EXCEPT !.refused = TRUE, !.todo = <<"reply">>]
<1>1. work' = [work EXCEPT ![g] = a] /\ UNCHANGED <<games, rows, queue, published, moved, told, applied>>
  BY DEF Refuse, Deny, Begin, history, Idle
<1>2. a.todo = <<"reply">> /\ a.refused
  BY DEF Idle
<1> HIDE DEF a
<1>3. InOrder(a.todo) /\ \A step : Pending(a, step) => step = "reply"
  <2>1. \A step : Pending(a, step) => step = "reply"
    BY <1>2 DEF Pending
  <2>2. ~Precedes("reply", "reply")
    BY OrderPairs
  <2>3. Len(a.todo) = 1 /\ a.todo[1] = "reply"
    BY <1>2
  <2>4. \A i \in 1 .. Len(a.todo) : i = 1
    BY <2>3
  <2>5. \A i, j \in 1 .. Len(a.todo) : i = j /\ ~Precedes(a.todo[i], a.todo[j])
    BY <2>2, <2>3, <2>4
  <2> QED
    BY <2>1, <2>5 DEF InOrder
<1>4. Announces(c, work[g], games[e], rows[e], mine, told)
  BY AtTold
<1> HIDE DEF mine
<1>5. Announces(c, a, games[e], rows[e], mine, told)
  BY <1>2, <1>3, <1>4, GivenUpAnnounces
<1>6. Announces(c, a, games[e], rows[e], MovesOf(c, moved), told)
  BY <1>5 DEF mine
<1> QED
  BY <1>1, <1>6, PassingKeepsTold

-----------------------------------------------------------------------------
\* The plans of the commands that move players

Among(s, step) == \E i \in 1 .. Len(s) : s[i] = step

\* The steps of a plan that is made of two parts, and their order.
LEMMA JoinedPlan ==
    ASSUME NEW s \in Seq(Steps), NEW t \in Seq(Steps), InOrder(s), InOrder(t),
           \A step, other : Among(s, step) /\ Among(t, other) => step # other /\ ~Precedes(other, step)
    PROVE  /\ s \o t \in Seq(Steps) /\ InOrder(s \o t)
           /\ \A step : Among(s \o t, step) <=> Among(s, step) \/ Among(t, step)
<1> DEFINE u == s \o t
<1>1. /\ Len(s) \in Nat /\ Len(t) \in Nat /\ Len(u) = Len(s) + Len(t) /\ u \in Seq(Steps)
      /\ \A i \in 1 .. Len(s) : u[i] = s[i]
      /\ \A i \in 1 .. Len(u) : i > Len(s) => u[i] = t[i - Len(s)]
  BY LenProperties, ConcatProperties
<1> HIDE DEF u
<1>2. ASSUME NEW i \in 1 .. Len(u)
      PROVE  \/ i \in 1 .. Len(s) /\ u[i] = s[i]
             \/ i > Len(s) /\ i - Len(s) \in 1 .. Len(t) /\ u[i] = t[i - Len(s)]
  BY <1>1
<1>3. \A i \in 1 .. Len(s) : i \in 1 .. Len(u) /\ u[i] = s[i]
  BY <1>1
<1>4. \A i \in 1 .. Len(t) : i + Len(s) \in 1 .. Len(u) /\ u[i + Len(s)] = t[i]
  BY <1>1
<1>5. \A step : Among(u, step) <=> Among(s, step) \/ Among(t, step)
  <2> SUFFICES ASSUME NEW step PROVE Among(u, step) <=> Among(s, step) \/ Among(t, step)
    OBVIOUS
  <2>1. ASSUME Among(u, step) PROVE Among(s, step) \/ Among(t, step)
    BY <1>2, <2>1 DEF Among
  <2>2. ASSUME Among(s, step) PROVE Among(u, step)
    BY <1>3, <2>2 DEF Among
  <2>3. ASSUME Among(t, step) PROVE Among(u, step)
    BY <1>4, <2>3 DEF Among
  <2> QED
    BY <2>1, <2>2, <2>3
<1>6. ASSUME NEW i \in 1 .. Len(u), NEW j \in 1 .. Len(u)
      PROVE  (u[i] = u[j] => i = j) /\ (Precedes(u[i], u[j]) => i < j)
  <2>1. CASE i \in 1 .. Len(s) /\ j \in 1 .. Len(s)
    BY <1>3, <2>1 DEF InOrder
  <2>2. CASE i \in 1 .. Len(s) /\ j > Len(s)
    <3>1. j - Len(s) \in 1 .. Len(t) /\ u[j] = t[j - Len(s)] /\ u[i] = s[i] /\ i < j
      BY <1>1, <1>2, <2>2
    <3>2. Among(s, u[i]) /\ Among(t, u[j])
      BY <2>2, <3>1 DEF Among
    <3> QED
      BY <3>1, <3>2
  <2>3. CASE i > Len(s) /\ j \in 1 .. Len(s)
    <3>1. i - Len(s) \in 1 .. Len(t) /\ u[i] = t[i - Len(s)] /\ u[j] = s[j]
      BY <1>1, <1>2, <2>3
    <3>2. Among(s, u[j]) /\ Among(t, u[i])
      BY <2>3, <3>1 DEF Among
    <3> QED
      BY <3>2
  <2>4. CASE i > Len(s) /\ j > Len(s)
    <3> DEFINE k == i - Len(s)
               l == j - Len(s)
    <3>1. k \in 1 .. Len(t) /\ l \in 1 .. Len(t) /\ u[i] = t[k] /\ u[j] = t[l]
      BY <1>1, <1>2, <2>4
    <3>2. (k = l => i = j) /\ (k < l => i < j)
      BY <1>1
    <3> HIDE DEF k, l
    <3>3. (t[k] = t[l] => k = l) /\ (Precedes(t[k], t[l]) => k < l)
      BY <3>1 DEF InOrder
    <3> QED
      BY <3>1, <3>2, <3>3
  <2> QED
    BY <1>1, <2>1, <2>2, <2>3, <2>4
<1> QED
  BY <1>1, <1>5, <1>6 DEF InOrder, u

LEMMA EmptyPlan == <<>> \in Seq(Steps) /\ InOrder(<<>>) /\ \A step : ~Among(<<>>, step)
BY EmptySeq DEF InOrder, Among

LEMMA OneStep ==
    ASSUME NEW x \in Steps, ~Precedes(x, x)
    PROVE  <<x>> \in Seq(Steps) /\ InOrder(<<x>>) /\ \A step : Among(<<x>>, step) <=> step = x
<1>1. Len(<<x>>) = 1 /\ <<x>>[1] = x /\ <<x>> \in Seq(Steps)
  OBVIOUS
<1>2. \A i \in 1 .. Len(<<x>>) : i = 1
  BY <1>1
<1> QED
  BY <1>1, <1>2 DEF InOrder, Among

LEMMA PartOfPlan ==
    ASSUME NEW condition, NEW s \in Seq(Steps), InOrder(s)
    PROVE  /\ When(condition, s) \in Seq(Steps) /\ InOrder(When(condition, s))
           /\ \A step : Among(When(condition, s), step) <=> condition /\ Among(s, step)
<1>1. CASE condition
  BY <1>1 DEF When
<1>2. CASE ~condition
  BY <1>2, EmptyPlan DEF When
<1> QED
  BY <1>1, <1>2

LEMMA StepsAreNotTheirOwn == \A step : ~Precedes(step, step)
BY DEF Precedes, Order

\* A plan that lists its steps.
LEMMA WritingTellsInOrder ==
    LET s == <<"write", "tellReserve", "tellLink", "read", "send", "reply">>
    IN  /\ s \in Seq(Steps) /\ InOrder(s)
        /\ \A step : Among(s, step) <=> step \in {"write", "tellReserve", "tellLink", "read", "send", "reply"}
<1> DEFINE s == <<"write", "tellReserve", "tellLink", "read", "send", "reply">>
<1>1. s \in Seq(Steps) /\ Len(s) = 6
  BY DEF Steps
<1>2. InOrder(s)
  BY DEF InOrder, Precedes, Order
<1>3. \A step : Among(s, step) <=> step \in {"write", "tellReserve", "tellLink", "read", "send", "reply"}
  BY DEF Among
<1> QED
  BY <1>1, <1>2, <1>3

LEMMA PromotionsPlan ==
    ASSUME NEW e, NEW c, NEW eligible
    PROVE  LET s == Promotions(e, c, eligible)
               reserve == games[e].reserve.op # c.op
               link == games[e].link.op # c.op
           IN  /\ s \in Seq(Steps) /\ InOrder(s)
               /\ \A step : Among(s, step) <=> \/ step = "look" /\ eligible /\ (reserve \/ link)
                                               \/ step = "reserve" /\ reserve
                                               \/ step = "link" /\ link
<1> DEFINE reserve == games[e].reserve.op # c.op
           link == games[e].link.op # c.op
           first == When(eligible /\ (reserve \/ link), <<"look">>)
           second == When(reserve, <<"reserve">>)
           third == When(link, <<"link">>)
<1>1. /\ first \in Seq(Steps) /\ InOrder(first)
      /\ \A step : Among(first, step) <=> eligible /\ (reserve \/ link) /\ step = "look"
  <2>1. "look" \in Steps
    BY DEF Steps
  <2>2. <<"look">> \in Seq(Steps) /\ InOrder(<<"look">>) /\ \A step : Among(<<"look">>, step) <=> step = "look"
    BY <2>1, OneStep, StepsAreNotTheirOwn
  <2> DEFINE condition == eligible /\ (reserve \/ link)
  <2> HIDE DEF condition
  <2>3. /\ When(condition, <<"look">>) \in Seq(Steps) /\ InOrder(When(condition, <<"look">>))
        /\ \A step : Among(When(condition, <<"look">>), step) <=> condition /\ Among(<<"look">>, step)
    BY <2>2, PartOfPlan
  <2> QED
    BY <2>2, <2>3 DEF condition
<1>2. /\ second \in Seq(Steps) /\ InOrder(second)
      /\ \A step : Among(second, step) <=> reserve /\ step = "reserve"
  <2>1. "reserve" \in Steps
    BY DEF Steps
  <2>2. <<"reserve">> \in Seq(Steps) /\ InOrder(<<"reserve">>) /\ \A step : Among(<<"reserve">>, step) <=> step = "reserve"
    BY <2>1, OneStep, StepsAreNotTheirOwn
  <2> HIDE DEF reserve
  <2>3. /\ second \in Seq(Steps) /\ InOrder(second)
        /\ \A step : Among(second, step) <=> reserve /\ Among(<<"reserve">>, step)
    BY <2>2, PartOfPlan
  <2> QED
    BY <2>2, <2>3
<1>3. /\ third \in Seq(Steps) /\ InOrder(third)
      /\ \A step : Among(third, step) <=> link /\ step = "link"
  <2>1. "link" \in Steps
    BY DEF Steps
  <2>2. <<"link">> \in Seq(Steps) /\ InOrder(<<"link">>) /\ \A step : Among(<<"link">>, step) <=> step = "link"
    BY <2>1, OneStep, StepsAreNotTheirOwn
  <2> HIDE DEF link
  <2>3. /\ third \in Seq(Steps) /\ InOrder(third)
        /\ \A step : Among(third, step) <=> link /\ Among(<<"link">>, step)
    BY <2>2, PartOfPlan
  <2> QED
    BY <2>2, <2>3
<1>4. Promotions(e, c, eligible) = (first \o second) \o third
  BY DEF Promotions
<1> HIDE DEF first, second, third, reserve, link
<1>5. /\ first \o second \in Seq(Steps) /\ InOrder(first \o second)
      /\ \A step : Among(first \o second, step) <=> Among(first, step) \/ Among(second, step)
  <2>1. \A step, other : Among(first, step) /\ Among(second, other) => step # other /\ ~Precedes(other, step)
    BY <1>1, <1>2, OrderPairs
  <2> QED
    BY <1>1, <1>2, <2>1, JoinedPlan
<1> DEFINE both == first \o second
<1>6. /\ both \in Seq(Steps) /\ InOrder(both)
      /\ \A step : Among(both, step) <=> Among(first, step) \/ Among(second, step)
  BY <1>5
<1> HIDE DEF both
<1>7. /\ both \o third \in Seq(Steps) /\ InOrder(both \o third)
      /\ \A step : Among(both \o third, step) <=> Among(both, step) \/ Among(third, step)
  <2>1. \A step, other : Among(both, step) /\ Among(third, other) => step # other /\ ~Precedes(other, step)
    BY <1>1, <1>2, <1>3, <1>6, OrderPairs
  <2> QED
    BY <1>3, <1>6, <2>1, JoinedPlan
<1>8. \A step : Among(both \o third, step) <=> \/ step = "look" /\ eligible /\ (reserve \/ link)
                                               \/ step = "reserve" /\ reserve
                                               \/ step = "link" /\ link
  BY <1>1, <1>2, <1>3, <1>6, <1>7
<1> QED
  BY <1>4, <1>7, <1>8 DEF both, reserve, link

\* The record of a removal is planned once.
LEMMA RemovalPlan ==
    ASSUME NEW condition
    PROVE  LET s == When(condition, <<"removal">>)
           IN  /\ s \in Seq(Steps) /\ InOrder(s)
               /\ \A step : Among(s, step) <=> condition /\ step = "removal"
<1>1. "removal" \in Steps
  BY DEF Steps
<1>2. <<"removal">> \in Seq(Steps) /\ InOrder(<<"removal">>) /\ \A step : Among(<<"removal">>, step) <=> step = "removal"
  BY <1>1, OneStep, StepsAreNotTheirOwn
<1> DEFINE s == When(condition, <<"removal">>)
<1>3. s \in Seq(Steps) /\ InOrder(s) /\ \A step : Among(s, step) <=> condition /\ Among(<<"removal">>, step)
  BY <1>2, PartOfPlan
<1> QED
  BY <1>2, <1>3

\* What is recorded before a player leaves the queue.
LEMMA RecordsPlan ==
    ASSUME NEW e, NEW c, NEW eligible
    PROVE  LET s == When(games[e].removal.op # c.op, <<"removal">>) \o Promotions(e, c, eligible)
               reserve == games[e].reserve.op # c.op
               link == games[e].link.op # c.op
           IN  /\ s \in Seq(Steps) /\ InOrder(s)
               /\ \A step : Among(s, step) <=> \/ step = "removal" /\ games[e].removal.op # c.op
                                               \/ step = "look" /\ eligible /\ (reserve \/ link)
                                               \/ step = "reserve" /\ reserve
                                               \/ step = "link" /\ link
<1> DEFINE removal == games[e].removal.op # c.op
           reserve == games[e].reserve.op # c.op
           link == games[e].link.op # c.op
           s == When(removal, <<"removal">>)
           t == Promotions(e, c, eligible)
<1>1. s \in Seq(Steps) /\ InOrder(s) /\ \A step : Among(s, step) <=> removal /\ step = "removal"
  BY RemovalPlan
<1>2. /\ t \in Seq(Steps) /\ InOrder(t)
      /\ \A step : Among(t, step) <=> \/ step = "look" /\ eligible /\ (reserve \/ link)
                                      \/ step = "reserve" /\ reserve
                                      \/ step = "link" /\ link
  BY PromotionsPlan
<1> HIDE DEF s, t, removal, reserve, link
<1>3. \A step, other : Among(s, step) /\ Among(t, other) => step # other /\ ~Precedes(other, step)
  BY <1>1, <1>2, OrderPairs
<1>4. /\ s \o t \in Seq(Steps) /\ InOrder(s \o t)
      /\ \A step : Among(s \o t, step) <=> Among(s, step) \/ Among(t, step)
  BY <1>1, <1>2, <1>3, JoinedPlan
<1>5. \A step : Among(s \o t, step) <=> \/ step = "removal" /\ removal
                                        \/ step = "look" /\ eligible /\ (reserve \/ link)
                                        \/ step = "reserve" /\ reserve
                                        \/ step = "link" /\ link
  BY <1>1, <1>2, <1>4
<1> QED
  BY <1>4, <1>5 DEF s, t, removal, reserve, link

\* Plans without a condition.
LEMMA ListedPlans ==
    /\ LET s == <<"read", "send", "tellReserve", "tellLink", "reply">>
       IN  /\ s \in Seq(Steps) /\ InOrder(s)
           /\ \A step : Among(s, step) <=> step \in {"read", "send", "tellReserve", "tellLink", "reply"}
    /\ LET s == <<"removal", "look", "write", "read", "send", "reply">>
       IN  /\ s \in Seq(Steps) /\ InOrder(s)
           /\ \A step : Among(s, step) <=> step \in {"removal", "look", "write", "read", "send", "reply"}
    /\ LET s == <<"removal", "write", "read", "send", "reply">>
       IN  /\ s \in Seq(Steps) /\ InOrder(s)
           /\ \A step : Among(s, step) <=> step \in {"removal", "write", "read", "send", "reply"}
    /\ LET s == <<"write", "read", "send", "reply">>
       IN  /\ s \in Seq(Steps) /\ InOrder(s)
           /\ \A step : Among(s, step) <=> step \in {"write", "read", "send", "reply"}
    /\ LET s == <<"read", "send", "reply">>
       IN  /\ s \in Seq(Steps) /\ InOrder(s)
           /\ \A step : Among(s, step) <=> step \in {"read", "send", "reply"}
<1>1. LET s == <<"read", "send", "tellReserve", "tellLink", "reply">>
      IN  /\ s \in Seq(Steps) /\ InOrder(s)
          /\ \A step : Among(s, step) <=> step \in {"read", "send", "tellReserve", "tellLink", "reply"}
  <2> DEFINE s == <<"read", "send", "tellReserve", "tellLink", "reply">>
  <2>1. s \in Seq(Steps)
    BY DEF Steps
  <2>2. InOrder(s)
    BY DEF InOrder, Precedes, Order
  <2>3. \A step : Among(s, step) <=> step \in {"read", "send", "tellReserve", "tellLink", "reply"}
    BY DEF Among
  <2> QED
    BY <2>1, <2>2, <2>3
<1>2. LET s == <<"removal", "look", "write", "read", "send", "reply">>
      IN  /\ s \in Seq(Steps) /\ InOrder(s)
          /\ \A step : Among(s, step) <=> step \in {"removal", "look", "write", "read", "send", "reply"}
  <2> DEFINE s == <<"removal", "look", "write", "read", "send", "reply">>
  <2>1. s \in Seq(Steps)
    BY DEF Steps
  <2>2. InOrder(s)
    BY DEF InOrder, Precedes, Order
  <2>3. \A step : Among(s, step) <=> step \in {"removal", "look", "write", "read", "send", "reply"}
    BY DEF Among
  <2> QED
    BY <2>1, <2>2, <2>3
<1>3. LET s == <<"removal", "write", "read", "send", "reply">>
      IN  /\ s \in Seq(Steps) /\ InOrder(s)
          /\ \A step : Among(s, step) <=> step \in {"removal", "write", "read", "send", "reply"}
  <2> DEFINE s == <<"removal", "write", "read", "send", "reply">>
  <2>1. s \in Seq(Steps)
    BY DEF Steps
  <2>2. InOrder(s)
    BY DEF InOrder, Precedes, Order
  <2>3. \A step : Among(s, step) <=> step \in {"removal", "write", "read", "send", "reply"}
    BY DEF Among
  <2> QED
    BY <2>1, <2>2, <2>3
<1>4. LET s == <<"write", "read", "send", "reply">>
      IN  /\ s \in Seq(Steps) /\ InOrder(s)
          /\ \A step : Among(s, step) <=> step \in {"write", "read", "send", "reply"}
  <2> DEFINE s == <<"write", "read", "send", "reply">>
  <2>1. s \in Seq(Steps)
    BY DEF Steps
  <2>2. InOrder(s)
    BY DEF InOrder, Precedes, Order
  <2>3. \A step : Among(s, step) <=> step \in {"write", "read", "send", "reply"}
    BY DEF Among
  <2> QED
    BY <2>1, <2>2, <2>3
<1>5. LET s == <<"read", "send", "reply">>
      IN  /\ s \in Seq(Steps) /\ InOrder(s)
          /\ \A step : Among(s, step) <=> step \in {"read", "send", "reply"}
  <2> DEFINE s == <<"read", "send", "reply">>
  <2>1. s \in Seq(Steps)
    BY DEF Steps
  <2>2. InOrder(s)
    BY DEF InOrder, Precedes, Order
  <2>3. \A step : Among(s, step) <=> step \in {"read", "send", "reply"}
    BY DEF Among
  <2> QED
    BY <2>1, <2>2, <2>3
<1> QED
  BY <1>1, <1>2, <1>3, <1>4, <1>5

\* The snapshot of a repeated attempt is the recorded one, or is planned again.
LEMMA SnapshotPlanned ==
    ASSUME NEW c, NEW w, NEW game, NEW r, SnapshotNames(c, w, game, r), NEW a,
           game.removal.op # c.op /\ (Pending(a, "removal") \/ Pending(a, "write"))
               => Pending(a, "removal") /\ Named(c, game, r, a.entries)
    PROVE  SnapshotNames(c, a, game, r)
BY DEF SnapshotNames, Snapshot

\* So is the record of the player who moves up.
LEMMA ReservePlanned ==
    ASSUME NEW c, NEW w, NEW game, NEW r, ReserveNames(c, w, game, r), NEW a,
           Leaving(c) => /\ a.amount = game.amount
                         /\ Pending(a, "reserve") <=> game.reserve.op # c.op
                         /\ game.reserve.op # c.op /\ ~Pending(a, "look")
                            => Promoted(r, Key(c), game.amount) = {}
    PROVE  ReserveNames(c, a, game, r)
<1> SUFFICES ASSUME Leaving(c)
             PROVE  /\ \/ game.reserve.op = c.op
                       \/ (Pending(a, "reserve") \/ Pending(a, "write")) /\ ~Pending(a, "look")
                       => Promoted(r, Key(c), game.amount) \subseteq Candidates(c, a, game)
                    /\ Pending(a, "look") =>
                         a.amount = game.amount /\ (game.reserve.op # c.op => Pending(a, "reserve"))
                    /\ Pending(a, "reserve") => game.reserve.op # c.op
  BY DEF ReserveNames
<1>1. game.reserve.op = c.op => Promoted(r, Key(c), game.amount) \subseteq game.reserve.keys
  BY DEF ReserveNames, Candidates
<1>2. game.reserve.op = c.op => Candidates(c, a, game) = game.reserve.keys
  BY DEF Candidates
<1> QED
  BY <1>1, <1>2

\* An attempt begins.
LEMMA PlanKeepsTold ==
    ASSUME Structure, OneAtATime, InTold, "confirm" \notin Kinds, NEW g \in Groups, queue[g] # <<>>,
           NEW todo, NEW attempt, Begin(g, todo, attempt),
           NEW a, a = [attempt EXCEPT !.todo = todo], NEW c, c = CommandAt(g),
           c.kind \in Moving => /\ SnapshotNames(c, a, games[c.event], rows[c.event])
                                /\ ReserveNames(c, a, games[c.event], rows[c.event])
                                /\ Pending(a, "read") /\ (Leaving(c) => Pending(a, "tellReserve")),
           PlanTells(c, a, rows[c.event])
    PROVE  InTold'
<1> DEFINE e == c.event
           mine == MovesOf(c, moved)
           game == games[e]
           r == rows[e]
<1>1. work' = [work EXCEPT ![g] = a] /\ UNCHANGED <<games, rows, queue, published, moved, told, applied>>
  BY DEF Begin, history
<1>2. Announces(c, work[g], game, r, mine, told)
  BY AtTold
<1>3. PlanTells(c, a, r)
  OBVIOUS
<1>4. c.kind \in Moving => /\ SnapshotNames(c, a, game, r) /\ ReserveNames(c, a, game, r)
                           /\ Pending(a, "read") /\ (Leaving(c) => Pending(a, "tellReserve"))
  OBVIOUS
<1> HIDE DEF mine, game, r
<1>5. Announces(c, a, game, r, mine, told)
  <2>1. CASE c.kind \in Moving
    BY <1>2, <1>3, <1>4, <2>1, LoadAnnounces
  <2>2. CASE c.kind \notin Moving
    <3>1. mine = {}
      BY <1>2, <2>2 DEF Announces, Noted
    <3>2. Announces(c, a, game, r, {}, told)
      BY <1>3, <2>2, OtherAnnounces
    <3> QED
      BY <3>1, <3>2
  <2> QED
    BY <2>1, <2>2
<1>6. Announces(c, a, games[c.event], rows[c.event], MovesOf(c, moved), told)
  BY <1>5 DEF mine, game, r
<1> QED
  BY <1>1, <1>6, PassingKeepsTold

\* A plan that moves players records them first, and tells them.
MovingPlan(c, todo, entries, amount, game, r) ==
    /\ InOrder(todo) /\ Among(todo, "read") /\ Among(todo, "send")
    /\ game.removal.op # c.op /\ (Among(todo, "removal") \/ Among(todo, "write"))
           => Among(todo, "removal") /\ Named(c, game, r, entries)
    /\ Leaving(c) => /\ amount = game.amount /\ Among(todo, "tellReserve")
                     /\ Among(todo, "reserve") <=> game.reserve.op # c.op
                     /\ game.reserve.op # c.op /\ ~Among(todo, "look")
                        => Promoted(r, Key(c), game.amount) = {}
    /\ Among(todo, "write") /\ c.kind = "remove" => r[Key(c)].status # "none"
    /\ Among(todo, "look") /\ c.kind = "sift" => Among(todo, "write")

LEMMA MovingPlanKeepsTold ==
    ASSUME Structure, OneAtATime, InTold, "confirm" \notin Kinds, NEW g \in Groups, queue[g] # <<>>,
           NEW todo, NEW attempt, Begin(g, todo, attempt),
           NEW a, a = [attempt EXCEPT !.todo = todo], a.todo = todo, NEW c, c = CommandAt(g),
           MovingPlan(c, todo, a.entries, a.amount, games[c.event], rows[c.event])
    PROVE  InTold'
<1> DEFINE game == games[c.event]
           r == rows[c.event]
<1>1. \A step : Pending(a, step) <=> Among(todo, step)
  BY DEF Pending, Among
<1>2. SnapshotNames(c, work[g], game, r) /\ ReserveNames(c, work[g], game, r)
  BY AtTold DEF Announces
<1>3. MovingPlan(c, todo, a.entries, a.amount, game, r)
  OBVIOUS
<1> HIDE DEF game, r
<1>4. SnapshotNames(c, a, game, r)
  BY <1>1, <1>2, <1>3, SnapshotPlanned DEF MovingPlan
<1>5. ReserveNames(c, a, game, r)
  BY <1>1, <1>2, <1>3, ReservePlanned DEF MovingPlan
<1>6. PlanTells(c, a, r)
  BY <1>1, <1>3 DEF PlanTells, MovingPlan
<1>7. Pending(a, "read") /\ (Leaving(c) => Pending(a, "tellReserve"))
  BY <1>1, <1>3 DEF MovingPlan
<1> USE DEF game, r
<1> QED
  BY <1>4, <1>5, <1>6, <1>7, PlanKeepsTold

\* An attempt that begins and moves nobody.
LEMMA StillPlanKeepsTold ==
    ASSUME Structure, OneAtATime, InTold, "confirm" \notin Kinds, NEW g \in Groups, queue[g] # <<>>,
           NEW todo, InOrder(todo), Among(todo, "read") => Among(todo, "send"),
           NEW attempt, Begin(g, todo, attempt),
           NEW a, a = [attempt EXCEPT !.todo = todo], a.todo = todo, CommandAt(g).kind \notin Moving
    PROVE  InTold'
<1> DEFINE c == CommandAt(g)
           r == rows[c.event]
<1>1. \A step : Pending(a, step) <=> Among(todo, step)
  BY DEF Pending, Among
<1>2. PlanTells(c, a, r)
  BY <1>1 DEF PlanTells, Leaving, Moving
<1> QED
  BY <1>2, PlanKeepsTold

\* Who leaves, in a snapshot.
LEMMA LeavingNamed ==
    ASSUME NEW c, NEW game, NEW r \in Rows, NEW p \in Players, p = Key(c), c.player = {p},
           c.kind \in {"cancel", "remove"}, NEW entries,
           c.kind = "cancel" /\ r[p].status # "cancelled" => entries = Entries("cancelled", {p}),
           c.kind = "remove" /\ r[p].status # "none" => entries = Entries("out", {p})
    PROVE  Named(c, game, r, entries)
<1> SUFFICES ASSUME NEW n \in Entry, Foreseen(c, game, r, n) PROVE n \in entries
  BY DEF Named
<1>1. n = [way |-> n.way, key |-> n.key]
  BY DEF Entry
<1>2. CASE c.kind = "cancel"
  <2>1. n.way = "cancelled" /\ n.key = p /\ p \in Active(r)
    BY <1>2 DEF Foreseen
  <2>2. r[p].status # "cancelled"
    BY <2>1 DEF Active
  <2>3. entries = Entries("cancelled", {p})
    BY <1>2, <2>2
  <2> QED
    BY <1>1, <2>1, <2>3 DEF Entries
<1>3. CASE c.kind = "remove"
  <2>1. n.way = "out" /\ n.key = p /\ r[p].status # "none"
    BY <1>3 DEF Foreseen
  <2>2. entries = Entries("out", {p})
    BY <1>3, <2>1
  <2> QED
    BY <1>1, <2>1, <2>2 DEF Entries
<1> QED
  BY <1>2, <1>3

LEMMA NobodyMovesUp ==
    ASSUME NEW r, NEW p, NEW amount, p \notin Active(r)
    PROVE  Promoted(r, p, amount) = {}
BY DEF Promoted

\* Recording comes before the write, and both before anybody is told.
LEMMA RecordsComeFirst ==
    /\ \A step \in {"removal", "look", "reserve", "link"},
          other \in {"write", "tellReserve", "tellLink", "read", "send", "reply"} :
            step # other /\ ~Precedes(other, step)
    /\ \A other \in {"tellReserve", "tellLink", "read", "send", "reply"} :
            "write" # other /\ ~Precedes(other, "write")
<1>1. /\ \A other : Precedes(other, "reserve") => other = "look"
      /\ \A other : Precedes(other, "write") => other \in {"removal", "look", "reserve"}
      /\ \A step \in {"removal", "look", "link"} : \A other : ~Precedes(other, step)
  BY DEF Precedes, Order
<1> QED
  BY <1>1

\* The steps of a cancellation.
LEMMA CancelPlan ==
    ASSUME NEW e, NEW c, NEW active
    PROVE  LET s == When(games[e].removal.op # c.op, <<"removal">>) \o Promotions(e, c, active)
                    \o <<"write", "tellReserve", "tellLink", "read", "send", "reply">>
           IN  /\ InOrder(s) /\ Among(s, "read") /\ Among(s, "send") /\ Among(s, "tellReserve")
               /\ Among(s, "removal") <=> games[e].removal.op # c.op
               /\ Among(s, "reserve") <=> games[e].reserve.op # c.op
               /\ active /\ games[e].reserve.op # c.op => Among(s, "look")
<1> DEFINE removal == games[e].removal.op # c.op
           reserve == games[e].reserve.op # c.op
           link == games[e].link.op # c.op
           before == When(games[e].removal.op # c.op, <<"removal">>) \o Promotions(e, c, active)
           rest == <<"write", "tellReserve", "tellLink", "read", "send", "reply">>
<1>1. /\ before \in Seq(Steps) /\ InOrder(before)
      /\ \A step : Among(before, step) <=> \/ step = "removal" /\ removal
                                           \/ step = "look" /\ active /\ (reserve \/ link)
                                           \/ step = "reserve" /\ reserve
                                           \/ step = "link" /\ link
  BY RecordsPlan
<1>2. /\ rest \in Seq(Steps) /\ InOrder(rest)
      /\ \A step : Among(rest, step) <=> step \in {"write", "tellReserve", "tellLink", "read", "send", "reply"}
  BY WritingTellsInOrder
<1> HIDE DEF before, rest, removal, reserve, link
<1>3. \A step, other : Among(before, step) /\ Among(rest, other) => step # other /\ ~Precedes(other, step)
  <2>1. \A step : Among(before, step) => step \in {"removal", "look", "reserve", "link"}
    BY <1>1
  <2>2. \A step : Among(rest, step) => step \in {"write", "tellReserve", "tellLink", "read", "send", "reply"}
    BY <1>2
  <2> QED
    BY <2>1, <2>2, RecordsComeFirst
<1>4. /\ InOrder(before \o rest)
      /\ \A step : Among(before \o rest, step) <=> Among(before, step) \/ Among(rest, step)
  BY <1>1, <1>2, <1>3, JoinedPlan
<1> DEFINE s == before \o rest
<1>5. \A step : Among(s, step) <=> Among(before, step) \/ Among(rest, step)
  BY <1>4
<1> HIDE DEF s
<1>6. /\ Among(s, "read") /\ Among(s, "send") /\ Among(s, "tellReserve")
      /\ Among(s, "removal") <=> removal
      /\ Among(s, "reserve") <=> reserve
      /\ active /\ reserve => Among(s, "look")
  BY <1>1, <1>2, <1>5
<1> QED
  BY <1>4, <1>6 DEF s, before, rest, removal, reserve

\* The steps of a removal.
LEMMA RemovePlan ==
    ASSUME NEW e, NEW c, NEW present
    PROVE  LET s == When(games[e].removal.op # c.op, <<"removal">>) \o Promotions(e, c, present)
                    \o When(present, <<"write">>) \o <<"read", "send", "tellReserve", "tellLink", "reply">>
           IN  /\ InOrder(s) /\ Among(s, "read") /\ Among(s, "send") /\ Among(s, "tellReserve")
               /\ Among(s, "removal") <=> games[e].removal.op # c.op
               /\ Among(s, "reserve") <=> games[e].reserve.op # c.op
               /\ present /\ games[e].reserve.op # c.op => Among(s, "look")
               /\ Among(s, "write") => present
<1> DEFINE removal == games[e].removal.op # c.op
           reserve == games[e].reserve.op # c.op
           link == games[e].link.op # c.op
           records == When(games[e].removal.op # c.op, <<"removal">>) \o Promotions(e, c, present)
           writing == When(present, <<"write">>)
           rest == <<"read", "send", "tellReserve", "tellLink", "reply">>
<1>1. /\ records \in Seq(Steps) /\ InOrder(records)
      /\ \A step : Among(records, step) <=> \/ step = "removal" /\ removal
                                            \/ step = "look" /\ present /\ (reserve \/ link)
                                            \/ step = "reserve" /\ reserve
                                            \/ step = "link" /\ link
  BY RecordsPlan
<1>2. /\ rest \in Seq(Steps) /\ InOrder(rest)
      /\ \A step : Among(rest, step) <=> step \in {"read", "send", "tellReserve", "tellLink", "reply"}
  BY ListedPlans
<1>3. /\ writing \in Seq(Steps) /\ InOrder(writing)
      /\ \A step : Among(writing, step) <=> present /\ step = "write"
  <2>1. "write" \in Steps
    BY DEF Steps
  <2>2. <<"write">> \in Seq(Steps) /\ InOrder(<<"write">>) /\ \A step : Among(<<"write">>, step) <=> step = "write"
    BY <2>1, OneStep, StepsAreNotTheirOwn
  <2>3. /\ writing \in Seq(Steps) /\ InOrder(writing)
        /\ \A step : Among(writing, step) <=> present /\ Among(<<"write">>, step)
    BY <2>2, PartOfPlan
  <2> QED
    BY <2>2, <2>3
<1> HIDE DEF records, writing, rest, removal, reserve, link
<1> DEFINE before == records \o writing
<1>4. /\ before \in Seq(Steps) /\ InOrder(before)
      /\ \A step : Among(before, step) <=> Among(records, step) \/ Among(writing, step)
  <2>1. \A step, other : Among(records, step) /\ Among(writing, other) => step # other /\ ~Precedes(other, step)
    <3>1. \A step : Among(records, step) => step \in {"removal", "look", "reserve", "link"}
      BY <1>1
    <3>2. \A step : Among(writing, step) => step = "write"
      BY <1>3
    <3> QED
      BY <3>1, <3>2, RecordsComeFirst
  <2> QED
    BY <1>1, <1>3, <2>1, JoinedPlan
<1> HIDE DEF before
<1> DEFINE s == before \o rest
<1>5. /\ InOrder(s)
      /\ \A step : Among(s, step) <=> Among(before, step) \/ Among(rest, step)
  <2>1. \A step, other : Among(before, step) /\ Among(rest, other) => step # other /\ ~Precedes(other, step)
    <3>1. \A step : Among(before, step) => step \in {"removal", "look", "reserve", "link", "write"}
      BY <1>1, <1>3, <1>4
    <3>2. \A step : Among(rest, step) => step \in {"read", "send", "tellReserve", "tellLink", "reply"}
      BY <1>2
    <3> QED
      BY <3>1, <3>2, RecordsComeFirst
  <2> QED
    BY <1>2, <1>4, <2>1, JoinedPlan
<1> HIDE DEF s
<1>6. /\ Among(s, "read") /\ Among(s, "send") /\ Among(s, "tellReserve")
      /\ Among(s, "removal") <=> removal
      /\ Among(s, "reserve") <=> reserve
      /\ present /\ reserve => Among(s, "look")
      /\ Among(s, "write") => present
  <2>1. \A step : Among(s, step) <=> Among(records, step) \/ Among(writing, step) \/ Among(rest, step)
    BY <1>4, <1>5
  <2>2. Among(s, "read") /\ Among(s, "send") /\ Among(s, "tellReserve")
    BY <1>2, <2>1
  <2>3. Among(s, "removal") <=> removal
    BY <1>1, <1>2, <1>3, <2>1
  <2>4. Among(s, "reserve") <=> reserve
    BY <1>1, <1>2, <1>3, <2>1
  <2>5. present /\ reserve => Among(s, "look")
    BY <1>1, <2>1
  <2>6. Among(s, "write") => present
    BY <1>1, <1>2, <1>3, <2>1
  <2> QED
    BY <2>2, <2>3, <2>4, <2>5, <2>6
<1> QED
  BY <1>5, <1>6 DEF s, before, records, writing, rest, removal, reserve

\* The plan of a player who leaves names them, and looks for who moves up.
LEMMA LeavingPlan ==
    ASSUME NEW c, Leaving(c), NEW game, NEW r \in Rows, NEW p \in Players, p = Key(c), c.player = {p},
           NEW todo, InOrder(todo), Among(todo, "read"), Among(todo, "send"), Among(todo, "tellReserve"),
           Among(todo, "removal") <=> game.removal.op # c.op,
           Among(todo, "reserve") <=> game.reserve.op # c.op,
           p \in Active(r) /\ game.reserve.op # c.op => Among(todo, "look"),
           c.kind = "remove" /\ Among(todo, "write") => r[p].status # "none",
           NEW entries,
           c.kind = "cancel" /\ r[p].status # "cancelled" => entries = Entries("cancelled", {p}),
           c.kind = "remove" /\ r[p].status # "none" => entries = Entries("out", {p})
    PROVE  MovingPlan(c, todo, entries, game.amount, game, r)
<1>1. c.kind \in {"cancel", "remove"}
  BY DEF Leaving
<1>2. Named(c, game, r, entries)
  BY <1>1, LeavingNamed
<1>3. p \notin Active(r) => Promoted(r, p, game.amount) = {}
  BY NobodyMovesUp
<1>4. c.kind # "sift"
  BY <1>1
<1> QED
  BY <1>2, <1>3, <1>4 DEF MovingPlan

LEMMA LoadingCancelKeepsTold ==
    ASSUME Structure, OneAtATime, InTold, "confirm" \notin Kinds, NEW g \in Groups, queue[g] # <<>>,
           NEW c, c = CommandAt(g), LoadCancel(g, c)
    PROVE  InTold'
<1> DEFINE e == c.event
           game == games[e]
           r == rows[e]
           p == Key(c)
           active == r[p].status # "cancelled"
           entries == IF active THEN Entries("cancelled", c.player) ELSE {}
           attempt == [Idle EXCEPT !.amount = game.amount, !.entries = entries]
           todo == When(games[e].removal.op # c.op, <<"removal">>) \o Promotions(e, c, active)
                   \o <<"write", "tellReserve", "tellLink", "read", "send", "reply">>
           a == [attempt EXCEPT !.todo = todo]
<1>1. c.kind = "cancel" /\ Begin(g, todo, attempt)
  BY DEF LoadCancel, RowOf, GameOf
<1>2. r \in Rows /\ WellFormed(c)
  BY AtTurn
<1>3. p \in Players /\ c.player = {p}
  BY <1>1, <1>2 DEF WellFormed, ByPlayer, Key
<1>4. /\ InOrder(todo) /\ Among(todo, "read") /\ Among(todo, "send") /\ Among(todo, "tellReserve")
      /\ Among(todo, "removal") <=> game.removal.op # c.op
      /\ Among(todo, "reserve") <=> game.reserve.op # c.op
      /\ active /\ game.reserve.op # c.op => Among(todo, "look")
  <2> HIDE DEF active, e
  <2> QED
    BY CancelPlan
<1>5. /\ c.kind = "cancel" /\ r[p].status # "cancelled" => entries = Entries("cancelled", {p})
      /\ c.kind = "remove" /\ r[p].status # "none" => entries = Entries("out", {p})
  BY <1>1, <1>3
<1>6. a.entries = entries /\ a.amount = game.amount /\ a.todo = todo
  BY DEF Idle
<1>7. p \in Active(r) => active
  BY DEF Active
<1> HIDE DEF a, todo, entries, attempt, active
<1>8. MovingPlan(c, todo, entries, game.amount, game, r)
  <2>1. Leaving(c) /\ (c.kind = "remove" /\ Among(todo, "write") => r[p].status # "none")
    BY <1>1 DEF Leaving
  <2>2. p = Key(c) /\ (p \in Active(r) /\ game.reserve.op # c.op => Among(todo, "look"))
    BY <1>4, <1>7
  <2> HIDE DEF game, r, p, e
  <2> QED
    BY <1>2, <1>3, <1>4, <1>5, <2>1, <2>2, LeavingPlan
<1>9. MovingPlan(c, todo, a.entries, a.amount, games[c.event], rows[c.event])
  BY <1>6, <1>8
<1>10. a = [attempt EXCEPT !.todo = todo] /\ a.todo = todo
  BY <1>6 DEF a
<1> HIDE DEF e, game, r, p
<1> QED
  BY <1>1, <1>9, <1>10, MovingPlanKeepsTold

LEMMA LoadingRemoveKeepsTold ==
    ASSUME Structure, OneAtATime, InTold, "confirm" \notin Kinds, NEW g \in Groups, queue[g] # <<>>,
           NEW c, c = CommandAt(g), LoadRemove(g, c)
    PROVE  InTold'
<1> DEFINE e == c.event
           game == games[e]
           r == rows[e]
           p == Key(c)
           present == r[p].status # "none"
           entries == IF present THEN Entries("out", c.player) ELSE {}
           attempt == [Idle EXCEPT !.amount = game.amount, !.entries = entries]
           todo == When(games[e].removal.op # c.op, <<"removal">>) \o Promotions(e, c, present)
                   \o When(present, <<"write">>) \o <<"read", "send", "tellReserve", "tellLink", "reply">>
           a == [attempt EXCEPT !.todo = todo]
<1>1. c.kind = "remove" /\ Begin(g, todo, attempt)
  BY DEF LoadRemove, RowOf, GameOf
<1>2. r \in Rows /\ WellFormed(c)
  BY AtTurn
<1>3. p \in Players /\ c.player = {p}
  BY <1>1, <1>2 DEF WellFormed, ByTarget, Key
<1>4. /\ InOrder(todo) /\ Among(todo, "read") /\ Among(todo, "send") /\ Among(todo, "tellReserve")
      /\ Among(todo, "removal") <=> game.removal.op # c.op
      /\ Among(todo, "reserve") <=> game.reserve.op # c.op
      /\ present /\ game.reserve.op # c.op => Among(todo, "look")
      /\ Among(todo, "write") => present
  <2> HIDE DEF present, e
  <2> QED
    BY RemovePlan
<1>5. /\ c.kind = "cancel" /\ r[p].status # "cancelled" => entries = Entries("cancelled", {p})
      /\ c.kind = "remove" /\ r[p].status # "none" => entries = Entries("out", {p})
  BY <1>1, <1>3
<1>6. a.entries = entries /\ a.amount = game.amount /\ a.todo = todo
  BY DEF Idle
<1>7. (p \in Active(r) => present) /\ (present => r[p].status # "none")
  BY DEF Active
<1> HIDE DEF a, todo, entries, attempt, present
<1>8. MovingPlan(c, todo, entries, game.amount, game, r)
  <2>1. Leaving(c) /\ (c.kind = "remove" /\ Among(todo, "write") => r[p].status # "none")
    BY <1>1, <1>4, <1>7 DEF Leaving
  <2>2. p = Key(c) /\ (p \in Active(r) /\ game.reserve.op # c.op => Among(todo, "look"))
    BY <1>4, <1>7
  <2> HIDE DEF game, r, p, e
  <2> QED
    BY <1>2, <1>3, <1>4, <1>5, <2>1, <2>2, LeavingPlan
<1>9. MovingPlan(c, todo, a.entries, a.amount, games[c.event], rows[c.event])
  BY <1>6, <1>8
<1>10. a = [attempt EXCEPT !.todo = todo] /\ a.todo = todo
  BY <1>6 DEF a
<1> HIDE DEF e, game, r, p
<1> QED
  BY <1>1, <1>9, <1>10, MovingPlanKeepsTold

LEMMA InEntries ==
    ASSUME NEW n \in Entry, NEW keys, n.key \in keys
    PROVE  n \in Entries(n.way, keys)
<1>1. n = [way |-> n.way, key |-> n.key]
  BY DEF Entry
<1> QED
  BY <1>1 DEF Entries

\* All shifts that IsShift admits are the same.
LEMMA OneShift ==
    ASSUME NEW r \in Rows, NEW s \in Nat, NEW t \in Nat, IsShift(r, s), IsShift(r, t)
    PROVE  s = t
<1>1. \A p \in Active(r) : r[p].at \in Nat
  BY DEF Rows, Row, Active
<1>2. PICK p1 \in Active(r), q1 \in Active(r) : r[p1].at + 1 = r[q1].at + s
  BY DEF IsShift
<1>3. PICK p2 \in Active(r), q2 \in Active(r) : r[p2].at + 1 = r[q2].at + t
  BY DEF IsShift
<1>4. r[p1].at < r[q1].at + t /\ r[p2].at < r[q2].at + s
  BY DEF IsShift
<1> QED
  BY <1>1, <1>2, <1>3, <1>4

\* Only one player makes room for another.
LEMMA OneMate ==
    ASSUME NEW r \in Rows, NEW amount, NEW p, NEW q, NEW s, IsSwap(r, amount, p, q), IsSwap(r, amount, p, s)
    PROVE  q = s
<1>1. q \in Players /\ s \in Players
  BY DEF IsSwap, MainRoster, Active
<1>2. r[q].at \in Nat /\ r[s].at \in Nat /\ q \in Nat /\ s \in Nat
  BY <1>1, RowsAssumption DEF Rows, Row
<1>3. q = s \/ (Before(r, q, s) /\ Before(r, s, q))
  BY DEF IsSwap
<1> QED
  BY <1>2, <1>3 DEF Before

\* Whom a sift moves, in a snapshot.
LEMMA SiftNamed ==
    ASSUME NEW c, c.kind = "sift", NEW game, NEW r \in Rows, NEW shift \in Nat, IsShift(r, shift),
           NEW main, main = MainRoster(r, game.amount),
           NEW after, after = MainRoster(SiftRows(r, shift), game.amount)
    PROVE  Named(c, game, r, Entries("up", after \ main) \cup Entries("down", main \ after))
<1> DEFINE entries == Entries("up", after \ main) \cup Entries("down", main \ after)
<1> SUFFICES ASSUME NEW n \in Entry, Foreseen(c, game, r, n) PROVE n \in entries
  BY DEF Named
<1>1. SiftMoves(r, game.amount, n)
  BY DEF Foreseen
<1>2. PICK s \in Nat :
        /\ IsShift(r, s)
        /\ \/ n.way = "up" /\ n.key \in MainRoster(SiftRows(r, s), game.amount) \ MainRoster(r, game.amount)
           \/ n.way = "down" /\ n.key \in MainRoster(r, game.amount) \ MainRoster(SiftRows(r, s), game.amount)
  BY <1>1 DEF SiftMoves
<1>3. s = shift
  BY <1>2, OneShift
<1>4. \/ n.way = "up" /\ n.key \in after \ main
      \/ n.way = "down" /\ n.key \in main \ after
  BY <1>2, <1>3
<1> QED
  BY <1>4, InEntries

LEMMA SwapNamed ==
    ASSUME NEW c, c.kind = "promote", NEW game, NEW r \in Rows, c.player = {Key(c)},
           NEW p, IsSwap(r, game.amount, Key(c), p)
    PROVE  Named(c, game, r, Entries("up", c.player) \cup Entries("down", {p}))
<1> DEFINE entries == Entries("up", c.player) \cup Entries("down", {p})
<1> SUFFICES ASSUME NEW n \in Entry, Foreseen(c, game, r, n) PROVE n \in entries
  BY DEF Named
<1>1. SwapMoves(c, r, game.amount, n)
  BY DEF Foreseen
<1>2. PICK q \in Players :
          IsSwap(r, game.amount, Key(c), q) /\ (n = Up(c) \/ (n.way = "down" /\ n.key = q))
  BY <1>1 DEF SwapMoves
<1>3. q = p
  BY <1>2, OneMate
<1>4. \/ n.way = "up" /\ n.key \in c.player
      \/ n.way = "down" /\ n.key \in {p}
  BY <1>2, <1>3 DEF Up
<1> QED
  BY <1>4, InEntries

LEMMA AmountNamed ==
    ASSUME NEW c, c.kind = "amount", NEW game, NEW r,
           NEW keys, keys = MainRoster(r, c.amount) \ MainRoster(r, game.amount)
    PROVE  Named(c, game, r, Entries("up", keys))
<1> SUFFICES ASSUME NEW n \in Entry, Foreseen(c, game, r, n) PROVE n \in Entries("up", keys)
  BY DEF Named
<1>1. n.way = "up" /\ n.key \in keys
  BY DEF Foreseen
<1> QED
  BY <1>1, InEntries

\* The plan of a master's command that moves players.
LEMMA MastersPlan ==
    ASSUME NEW c, c.kind \in {"sift", "promote", "amount"}, NEW game, NEW r, NEW entries, NEW amount,
           NEW todo, InOrder(todo), Among(todo, "read"), Among(todo, "send"),
           game.removal.op # c.op => (Among(todo, "write") => Among(todo, "removal")),
           game.removal.op # c.op /\ Among(todo, "removal") => Named(c, game, r, entries),
           Among(todo, "look") => Among(todo, "write")
    PROVE  MovingPlan(c, todo, entries, amount, game, r)
<1>1. ~Leaving(c) /\ c.kind # "remove"
  BY DEF Leaving
<1> QED
  BY <1>1 DEF MovingPlan

\* The record of a removal, and the rest of a plan that needs it.
LEMMA RecordedPlan ==
    ASSUME NEW condition, NEW rest \in Seq(Steps), InOrder(rest),
           \A step : Among(rest, step) => step \in {"write", "read", "send", "reply"}
    PROVE  LET s == When(condition, <<"removal">>) \o rest
           IN  /\ InOrder(s)
               /\ \A step : Among(s, step) <=> (condition /\ step = "removal") \/ Among(rest, step)
<1> DEFINE before == When(condition, <<"removal">>)
<1>1. before \in Seq(Steps) /\ InOrder(before) /\ \A step : Among(before, step) <=> condition /\ step = "removal"
  BY RemovalPlan
<1> HIDE DEF before
<1>2. \A step, other : Among(before, step) /\ Among(rest, other) => step # other /\ ~Precedes(other, step)
  <2>1. \A step : Among(before, step) => step = "removal"
    BY <1>1
  <2> QED
    BY <2>1, RecordsComeFirst
<1>3. InOrder(before \o rest) /\ \A step : Among(before \o rest, step) <=> Among(before, step) \/ Among(rest, step)
  BY <1>1, <1>2, JoinedPlan
<1> QED
  BY <1>1, <1>3 DEF before

LEMMA LoadingSiftKeepsTold ==
    ASSUME Structure, OneAtATime, InTold, "confirm" \notin Kinds, NEW g \in Groups, queue[g] # <<>>,
           NEW c, c = CommandAt(g), LoadSift(g, c)
    PROVE  InTold'
<1> DEFINE e == c.event
           game == games[e]
           r == rows[e]
<1>1. c.kind = "sift" /\ r \in Rows
  BY AtTurn DEF LoadSift
<1>2. CASE Sifted(r) /\ Begin(g, When(game.removal.op # c.op, <<"removal">>) \o <<"read", "send", "reply">>, Idle)
  <2> DEFINE todo == When(game.removal.op # c.op, <<"removal">>) \o <<"read", "send", "reply">>
             a == [Idle EXCEPT !.todo = todo]
             rest == <<"read", "send", "reply">>
  <2>1. rest \in Seq(Steps) /\ InOrder(rest) /\ \A step : Among(rest, step) <=> step \in {"read", "send", "reply"}
    BY ListedPlans
  <2>2. InOrder(todo) /\ \A step : Among(todo, step) <=>
            (game.removal.op # c.op /\ step = "removal") \/ Among(rest, step)
    <3> DEFINE condition == game.removal.op # c.op
    <3>1. todo = When(condition, <<"removal">>) \o rest
      OBVIOUS
    <3>2. \A step : Among(rest, step) => step \in {"write", "read", "send", "reply"}
      BY <2>1
    <3> HIDE DEF condition, rest, todo
    <3>3. InOrder(When(condition, <<"removal">>) \o rest)
          /\ \A step : Among(When(condition, <<"removal">>) \o rest, step)
                         <=> (condition /\ step = "removal") \/ Among(rest, step)
      BY <2>1, <3>2, RecordedPlan
    <3> QED
      BY <3>1, <3>3 DEF condition
  <2>3. a.todo = todo
    BY DEF Idle
  <2>4. Begin(g, todo, Idle)
    BY <1>2
  <2>5. a = [Idle EXCEPT !.todo = todo]
    OBVIOUS
  <2> HIDE DEF a, todo, rest
  <2>6. Among(todo, "read") /\ Among(todo, "send") /\ ~Among(todo, "write") /\ ~Among(todo, "look")
    BY <2>1, <2>2
  <2>7. Named(c, game, r, a.entries)
    BY <1>1, <1>2 DEF Named, Foreseen
  <2>8. MovingPlan(c, todo, a.entries, a.amount, game, r)
    BY <1>1, <2>2, <2>6, <2>7, MastersPlan
  <2>9. MovingPlan(c, todo, a.entries, a.amount, games[c.event], rows[c.event])
    BY <2>8
  <2> QED
    BY <2>3, <2>4, <2>5, <2>9, MovingPlanKeepsTold
<1>3. ASSUME NEW shift \in Times, IsShift(r, shift), NEW entries,
             LET main == MainRoster(r, game.amount)
                 after == MainRoster(SiftRows(r, shift), game.amount)
             IN  entries = Entries("up", after \ main) \cup Entries("down", main \ after),
             Begin(g, <<"removal", "look", "write", "read", "send", "reply">>, [Idle EXCEPT !.entries = entries])
      PROVE  InTold'
  <2> DEFINE todo == <<"removal", "look", "write", "read", "send", "reply">>
             attempt == [Idle EXCEPT !.entries = entries]
             a == [attempt EXCEPT !.todo = todo]
  <2>1. /\ InOrder(todo)
        /\ \A step : Among(todo, step) <=> step \in {"removal", "look", "write", "read", "send", "reply"}
    BY ListedPlans
  <2>2. a.todo = todo /\ a.entries = entries
    BY DEF Idle
  <2>3. Begin(g, todo, attempt) /\ a = [attempt EXCEPT !.todo = todo]
    BY <1>3
  <2> HIDE DEF a, todo, attempt
  <2>4. /\ Among(todo, "read") /\ Among(todo, "send") /\ Among(todo, "removal") /\ Among(todo, "write")
        /\ Among(todo, "look")
    BY <2>1
  <2>5. Named(c, game, r, a.entries)
    <3> DEFINE main == MainRoster(r, game.amount)
               after == MainRoster(SiftRows(r, shift), game.amount)
    <3>1. shift \in Nat
      BY OrderedMutationsAssumption
    <3>2. Named(c, game, r, Entries("up", after \ main) \cup Entries("down", main \ after))
      <4> HIDE DEF game, r
      <4> QED
        BY <1>1, <1>3, <3>1, SiftNamed
    <3>3. a.entries = Entries("up", after \ main) \cup Entries("down", main \ after)
      BY <1>3, <2>2
    <3> QED
      BY <3>2, <3>3
  <2>6. MovingPlan(c, todo, a.entries, a.amount, game, r)
    <3> HIDE DEF game, r
    <3> QED
      BY <1>1, <2>1, <2>4, <2>5, MastersPlan
  <2>7. MovingPlan(c, todo, a.entries, a.amount, games[c.event], rows[c.event])
    BY <2>6
  <2> QED
    BY <2>2, <2>3, <2>7, MovingPlanKeepsTold
<1> QED
  BY <1>2, <1>3 DEF LoadSift, GameOf

LEMMA LoadingPromoteKeepsTold ==
    ASSUME Structure, OneAtATime, InTold, "confirm" \notin Kinds, NEW g \in Groups, queue[g] # <<>>,
           NEW c, c = CommandAt(g), LoadPromote(g, c)
    PROVE  InTold'
<1> DEFINE e == c.event
           game == games[e]
           r == rows[e]
<1>1. c.kind = "promote" /\ r \in Rows /\ WellFormed(c)
  BY AtTurn DEF LoadPromote
<1>2. c.player = {Key(c)}
  BY <1>1 DEF WellFormed, ByTarget, Key
<1>3. CASE AlreadySwapped(c) /\ Begin(g, <<"read", "send", "reply">>, Idle)
  <2> DEFINE todo == <<"read", "send", "reply">>
             a == [Idle EXCEPT !.todo = todo]
  <2>1. InOrder(todo) /\ \A step : Among(todo, step) <=> step \in {"read", "send", "reply"}
    BY ListedPlans
  <2>2. a.todo = todo
    BY DEF Idle
  <2>3. Begin(g, todo, Idle) /\ a = [Idle EXCEPT !.todo = todo]
    BY <1>3
  <2> HIDE DEF a, todo
  <2>4. /\ Among(todo, "read") /\ Among(todo, "send") /\ ~Among(todo, "removal") /\ ~Among(todo, "write")
        /\ ~Among(todo, "look")
    BY <2>1
  <2>5. MovingPlan(c, todo, a.entries, a.amount, game, r)
    <3> HIDE DEF game, r
    <3> QED
      BY <1>1, <2>1, <2>4, MastersPlan
  <2>6. MovingPlan(c, todo, a.entries, a.amount, games[c.event], rows[c.event])
    BY <2>5
  <2> QED
    BY <2>2, <2>3, <2>6, MovingPlanKeepsTold
<1>4. ASSUME NEW p \in Players, IsSwap(r, game.amount, Key(c), p), NEW attempt,
             attempt = [Idle EXCEPT !.entries = Entries("up", c.player) \cup Entries("down", {p}),
                                    !.time = RowOf(c).at,
                                    !.mate = {p}, !.mateTime = rows[c.event][p].at],
             Begin(g, <<"removal", "write", "read", "send", "reply">>, attempt)
      PROVE  InTold'
  <2> DEFINE todo == <<"removal", "write", "read", "send", "reply">>
             entries == Entries("up", c.player) \cup Entries("down", {p})
             a == [attempt EXCEPT !.todo = todo]
  <2>1. /\ InOrder(todo)
        /\ \A step : Among(todo, step) <=> step \in {"removal", "write", "read", "send", "reply"}
    BY ListedPlans
  <2>2. a.todo = todo /\ a.entries = entries
    BY <1>4 DEF Idle
  <2>3. Begin(g, todo, attempt) /\ a = [attempt EXCEPT !.todo = todo]
    BY <1>4
  <2> HIDE DEF a, todo
  <2>4. /\ Among(todo, "read") /\ Among(todo, "send") /\ Among(todo, "removal") /\ Among(todo, "write")
        /\ ~Among(todo, "look")
    BY <2>1
  <2>5. Named(c, game, r, entries)
    <3> HIDE DEF game, r
    <3> QED
      BY <1>1, <1>2, <1>4, SwapNamed
  <2> HIDE DEF entries
  <2>6. MovingPlan(c, todo, a.entries, a.amount, game, r)
    <3>1. Named(c, game, r, a.entries)
      BY <2>2, <2>5
    <3> HIDE DEF game, r
    <3> QED
      BY <1>1, <2>1, <2>4, <3>1, MastersPlan
  <2>7. MovingPlan(c, todo, a.entries, a.amount, games[c.event], rows[c.event])
    BY <2>6
  <2> QED
    BY <2>2, <2>3, <2>7, MovingPlanKeepsTold
<1> QED
  BY <1>3, <1>4 DEF LoadPromote, GameOf

LEMMA LoadingAmountKeepsTold ==
    ASSUME Structure, OneAtATime, InTold, "confirm" \notin Kinds, NEW g \in Groups, queue[g] # <<>>,
           NEW c, c = CommandAt(g), LoadAmount(g, c)
    PROVE  InTold'
<1> DEFINE e == c.event
           game == games[e]
           r == rows[e]
           keys == MainRoster(r, c.amount) \ MainRoster(r, game.amount)
           entries == Entries("up", keys)
           attempt == [Idle EXCEPT !.entries = entries]
           rest == <<"write", "read", "send", "reply">>
           condition == game.removal.op # c.op
           todo == When(condition, <<"removal">>) \o rest
           a == [attempt EXCEPT !.todo = todo]
<1>1. c.kind = "amount" /\ Begin(g, todo, attempt)
  BY DEF LoadAmount, GameOf
<1>2. /\ rest \in Seq(Steps) /\ InOrder(rest)
      /\ \A step : Among(rest, step) <=> step \in {"write", "read", "send", "reply"}
  BY ListedPlans
<1>3. Named(c, game, r, entries)
  BY <1>1, AmountNamed
<1>4. a.todo = todo /\ a.entries = entries /\ a = [attempt EXCEPT !.todo = todo]
  BY DEF Idle
<1>5. condition <=> game.removal.op # c.op
  OBVIOUS
<1> HIDE DEF a, attempt, entries, keys, rest, condition
<1>6. /\ InOrder(todo)
      /\ \A step : Among(todo, step) <=> (condition /\ step = "removal") \/ Among(rest, step)
  BY <1>2, RecordedPlan
<1> HIDE DEF todo
<1>7. /\ Among(todo, "read") /\ Among(todo, "send") /\ (Among(todo, "removal") <=> condition)
      /\ ~Among(todo, "look")
  BY <1>2, <1>6
<1>8. MovingPlan(c, todo, a.entries, a.amount, game, r)
  <2>1. Named(c, game, r, a.entries)
    BY <1>3, <1>4
  <2> HIDE DEF game, r
  <2> QED
    BY <1>1, <1>5, <1>6, <1>7, <2>1, MastersPlan
<1>9. MovingPlan(c, todo, a.entries, a.amount, games[c.event], rows[c.event])
  BY <1>8
<1> QED
  BY <1>1, <1>4, <1>9, MovingPlanKeepsTold

\* A plan of a command that moves nobody.
Plain(s) == InOrder(s) /\ (Among(s, "read") => Among(s, "send"))

LEMMA ShortPlans ==
    /\ Plain(<<"reply">>) /\ Plain(<<"write", "reply">>)
    /\ <<"erase", "drop">> \in Seq(Steps) /\ InOrder(<<"erase", "drop">>)
    /\ \A step : Among(<<"erase", "drop">>, step) <=> step \in {"erase", "drop"}
    /\ <<"read", "send">> \in Seq(Steps) /\ InOrder(<<"read", "send">>)
    /\ \A step : Among(<<"read", "send">>, step) <=> step \in {"read", "send"}
<1>1. Plain(<<"reply">>)
  BY DEF InOrder, Among, Precedes, Order, Plain
<1>2. Plain(<<"write", "reply">>)
  BY DEF InOrder, Among, Precedes, Order, Plain
<1>3. <<"erase", "drop">> \in Seq(Steps) /\ InOrder(<<"erase", "drop">>)
  BY DEF InOrder, Precedes, Order, Steps
<1>4. \A step : Among(<<"erase", "drop">>, step) <=> step \in {"erase", "drop"}
  BY DEF Among
<1>5. <<"read", "send">> \in Seq(Steps) /\ InOrder(<<"read", "send">>)
  BY DEF InOrder, Precedes, Order, Steps
<1>6. \A step : Among(<<"read", "send">>, step) <=> step \in {"read", "send"}
  BY DEF Among
<1> QED
  BY <1>1, <1>2, <1>3, <1>4, <1>5, <1>6

LEMMA AnsweredPlan ==
    ASSUME NEW s \in Seq(Steps), InOrder(s), Among(s, "read") => Among(s, "send"), ~Among(s, "reply")
    PROVE  Plain(s \o <<"reply">>)
<1> DEFINE last == <<"reply">>
<1>1. last \in Seq(Steps) /\ InOrder(last) /\ \A step : Among(last, step) <=> step = "reply"
  BY OneStep, StepsAreNotTheirOwn DEF Steps
<1> HIDE DEF last
<1>2. \A step, other : Among(s, step) /\ Among(last, other) => step # other /\ ~Precedes(other, step)
  <2>1. \A step : ~Precedes("reply", step)
    BY DEF Precedes, Order
  <2> QED
    BY <1>1, <2>1
<1>3. InOrder(s \o last) /\ \A step : Among(s \o last, step) <=> Among(s, step) \/ Among(last, step)
  BY <1>1, <1>2, JoinedPlan
<1> QED
  <2>1. Among(s \o last, "read") => Among(s \o last, "send")
    BY <1>1, <1>3
  <2> QED
    BY <1>3, <2>1 DEF Plain, last

LEMMA ConditionalPlans ==
    ASSUME NEW condition
    PROVE  /\ Plain(When(condition, <<"write">>) \o <<"reply">>)
           /\ Plain(When(condition, <<"erase", "drop">>) \o <<"reply">>)
           /\ Plain(<<"write">> \o When(condition, <<"read", "send">>) \o <<"reply">>)
<1> DEFINE one == <<"write">>
           two == <<"erase", "drop">>
           three == <<"read", "send">>
<1>1. one \in Seq(Steps) /\ InOrder(one) /\ \A step : Among(one, step) <=> step = "write"
  BY OneStep, StepsAreNotTheirOwn DEF Steps
<1>2. two \in Seq(Steps) /\ InOrder(two) /\ \A step : Among(two, step) <=> step \in {"erase", "drop"}
  BY ShortPlans
<1>3. three \in Seq(Steps) /\ InOrder(three) /\ \A step : Among(three, step) <=> step \in {"read", "send"}
  BY ShortPlans
<1> HIDE DEF one, two, three
<1>4. /\ When(condition, one) \in Seq(Steps) /\ InOrder(When(condition, one))
      /\ \A step : Among(When(condition, one), step) <=> condition /\ Among(one, step)
  BY <1>1, PartOfPlan
<1>5. /\ When(condition, two) \in Seq(Steps) /\ InOrder(When(condition, two))
      /\ \A step : Among(When(condition, two), step) <=> condition /\ Among(two, step)
  BY <1>2, PartOfPlan
<1>6. /\ When(condition, three) \in Seq(Steps) /\ InOrder(When(condition, three))
      /\ \A step : Among(When(condition, three), step) <=> condition /\ Among(three, step)
  BY <1>3, PartOfPlan
<1>7. Plain(When(condition, one) \o <<"reply">>)
  BY <1>1, <1>4, AnsweredPlan
<1>8. Plain(When(condition, two) \o <<"reply">>)
  BY <1>2, <1>5, AnsweredPlan
<1>9. Plain(one \o When(condition, three) \o <<"reply">>)
  <2> DEFINE notices == When(condition, three)
  <2>1. notices \in Seq(Steps) /\ InOrder(notices) /\ \A step : Among(notices, step) <=> condition /\ Among(three, step)
    BY <1>6
  <2> HIDE DEF notices
  <2>2. \A step, other : Among(one, step) /\ Among(notices, other) => step # other /\ ~Precedes(other, step)
    BY <1>1, <1>3, <2>1 DEF Precedes, Order
  <2>3. /\ one \o notices \in Seq(Steps) /\ InOrder(one \o notices)
        /\ \A step : Among(one \o notices, step) <=> Among(one, step) \/ Among(notices, step)
    BY <1>1, <2>1, <2>2, JoinedPlan
  <2>4. (Among(one \o notices, "read") => Among(one \o notices, "send")) /\ ~Among(one \o notices, "reply")
    BY <1>1, <1>3, <2>1, <2>3
  <2>5. Plain((one \o notices) \o <<"reply">>)
    BY <2>3, <2>4, AnsweredPlan
  <2> QED
    BY <2>5 DEF notices
<1> QED
  BY <1>7, <1>8, <1>9 DEF one, two, three

LEMMA LoadingPlainKeepsTold ==
    ASSUME Structure, OneAtATime, InTold, "confirm" \notin Kinds, NEW g \in Groups, queue[g] # <<>>,
           NEW c, c = CommandAt(g), LoadEnlist(g, c) \/ LoadStatus(g, c) \/ LoadArchival(g, c)
    PROVE  InTold'
<1>1. ASSUME NEW attempt, NEW todo, Plain(todo), Begin(g, todo, attempt), c.kind \notin Moving,
             NEW a, a = [attempt EXCEPT !.todo = todo], a.todo = todo
      PROVE  InTold'
  <2>1. InOrder(todo) /\ (Among(todo, "read") => Among(todo, "send"))
    BY <1>1 DEF Plain
  <2> QED
    BY <1>1, <2>1, StillPlanKeepsTold
<1>2. CASE LoadEnlist(g, c)
  <2>1. c.kind \notin Moving
    BY <1>2 DEF LoadEnlist, Moving
  <2>2. CASE Begin(g, <<"reply">>, Idle)
    <3> DEFINE todo == <<"reply">>
               a == [Idle EXCEPT !.todo = todo]
    <3>1. a.todo = todo /\ Plain(todo)
      BY ShortPlans DEF Idle
    <3>2. Begin(g, todo, Idle) /\ a = [Idle EXCEPT !.todo = todo]
      BY <2>2
    <3> HIDE DEF a, todo
    <3> QED
      BY <1>1, <2>1, <3>1, <3>2
  <2>3. ASSUME NEW time, Begin(g, <<"write", "reply">>, [Idle EXCEPT !.time = time])
        PROVE  InTold'
    <3> DEFINE todo == <<"write", "reply">>
               attempt == [Idle EXCEPT !.time = time]
               a == [attempt EXCEPT !.todo = todo]
    <3>1. a.todo = todo /\ Plain(todo)
      BY ShortPlans DEF Idle
    <3>2. Begin(g, todo, attempt) /\ a = [attempt EXCEPT !.todo = todo]
      BY <2>3
    <3> HIDE DEF a, todo, attempt
    <3> QED
      BY <1>1, <2>1, <3>1, <3>2
  <2> QED
    BY <1>2, <2>2, <2>3 DEF LoadEnlist
<1>3. CASE LoadStatus(g, c) \/ LoadArchival(g, c)
  <2>1. c.kind \notin Moving
    BY <1>3 DEF LoadStatus, LoadArchival, Moving
  <2>2. \E todo : Plain(todo) /\ Begin(g, todo, Idle)
    <3>2. CASE LoadStatus(g, c)
      <4> DEFINE condition == GameOf(c).status # "confirmation_open"
                 plan == <<"write">> \o When(condition, <<"read", "send">>) \o <<"reply">>
      <4>1. Plain(plan)
        <5> HIDE DEF condition
        <5> QED
          BY ConditionalPlans
      <4>2. Plain(<<"write", "reply">>)
        BY ShortPlans
      <4>3. Begin(g, plan, Idle) \/ Begin(g, <<"write", "reply">>, Idle)
        BY <3>2 DEF LoadStatus
      <4> HIDE DEF plan
      <4> QED
        BY <4>1, <4>2, <4>3
    <3>3. CASE LoadArchival(g, c)
      <4> DEFINE archives == GameOf(c).exists /\ ~GameOf(c).archived
                 archived == GameOf(c).archived
                 exists == GameOf(c).exists
                 first == When(archives, <<"write">>) \o <<"reply">>
                 second == When(archived, <<"write">>) \o <<"reply">>
                 third == When(exists, <<"erase", "drop">>) \o <<"reply">>
      <4>1. Plain(first) /\ Plain(second) /\ Plain(third)
        <5> HIDE DEF archives, archived, exists
        <5> QED
          BY ConditionalPlans
      <4>2. Begin(g, first, Idle) \/ Begin(g, second, Idle) \/ Begin(g, third, Idle)
        BY <3>3 DEF LoadArchival
      <4> HIDE DEF first, second, third
      <4> QED
        BY <4>1, <4>2
    <3> QED
      BY <1>3, <3>2, <3>3
  <2>3. PICK todo : Plain(todo) /\ Begin(g, todo, Idle)
    BY <2>2
  <2> DEFINE a == [Idle EXCEPT !.todo = todo]
  <2>4. a.todo = todo /\ a = [Idle EXCEPT !.todo = todo]
    BY DEF Idle
  <2> HIDE DEF a
  <2> QED
    BY <1>1, <2>1, <2>3, <2>4
<1> QED
  BY <1>2, <1>3

LEMMA LoadKeepsTold ==
    ASSUME Structure, OneAtATime, InTold, "confirm" \notin Kinds, NEW g \in Groups, Load(g)
    PROVE  InTold'
<1> DEFINE c == CommandAt(g)
<1>1. queue[g] # <<>> /\ c = Head(queue[g])
  BY DEF Load, CommandAt
<1>2. c.kind # "confirm"
  BY <1>1, AtTurn
<1> HIDE DEF c
<1>3. CASE Refuse(g) \/ Deny(g)
  BY <1>1, <1>3, RefusingKeepsTold
<1>4. CASE LoadCancel(g, c)
  BY <1>1, <1>4, LoadingCancelKeepsTold DEF c
<1>5. CASE LoadRemove(g, c)
  BY <1>1, <1>5, LoadingRemoveKeepsTold DEF c
<1>6. CASE LoadSift(g, c)
  BY <1>1, <1>6, LoadingSiftKeepsTold DEF c
<1>7. CASE LoadPromote(g, c)
  BY <1>1, <1>7, LoadingPromoteKeepsTold DEF c
<1>8. CASE LoadAmount(g, c)
  BY <1>1, <1>8, LoadingAmountKeepsTold DEF c
<1>9. CASE LoadEnlist(g, c) \/ LoadStatus(g, c) \/ LoadArchival(g, c)
  BY <1>1, <1>9, LoadingPlainKeepsTold DEF c
<1> QED
  BY <1>1, <1>2, <1>3, <1>4, <1>5, <1>6, <1>7, <1>8, <1>9 DEF Load, LoadConfirm

-----------------------------------------------------------------------------
\* The next command comes to the head of its group

\* A command that has left nothing yet owes nothing.
LEMMA NewHeadAnnounces ==
    ASSUME MovesAreApplied, NEW c, Fresh(c.op), Unreserved(c.op), c.event \in Events, NEW a, a.todo = <<>>
    PROVE  Announces(c, a, games[c.event], rows[c.event], MovesOf(c, moved), told)
<1> DEFINE game == games[c.event]
           r == rows[c.event]
<1>1. game.removal.op # c.op /\ c.op \notin applied
  BY DEF Fresh
<1>2. game.reserve.op # c.op
  BY DEF Unreserved
<1>3. MovesOf(c, moved) = {}
  BY <1>1 DEF MovesOf, MovesAreApplied
<1> HIDE DEF game, r
<1>4. Announces(c, a, game, r, {}, told)
  BY <1>1, <1>2, FreshAnnounces
<1> QED
  BY <1>3, <1>4 DEF game, r

\* What is said of moves and records does not depend on the queues.
LEMMA RecordsStay ==
    ASSUME InTold, UNCHANGED <<games, moved, told, applied>>
    PROVE  MovesAreApplied' /\ MarkedAreTold' /\ \A op : Unreserved(op)' <=> Unreserved(op)
BY DEF InTold, MovesAreApplied, MarkedAreTold, DoneIsTold, Unreserved

LEMMA AnsweringKeepsTold ==
    ASSUME Structure, OneAtATime, InTold, "confirm" \notin Kinds, NEW g \in Groups, Reply(g)
    PROVE  InTold'
<1>1. UNCHANGED <<games, rows, published, moved, told, applied>>
  BY DEF Reply, history
<1>2. /\ queue[g] # <<>>
      /\ \A h \in Groups \ {g} : queue'[h] = queue[h] /\ work'[h] = work[h]
      /\ work'[g] = Idle /\ queue'[g] \in Seq(Command)
      /\ \A i \in 1 .. Len(queue'[g]) :
            i + 1 \in 1 .. Len(queue[g]) /\ i + 1 > 1 /\ queue'[g][i] = queue[g][i + 1]
  BY ReplyEffect
<1>3. Idle.todo = <<>>
  BY DEF Idle
<1>4. MovesAreApplied' /\ MarkedAreTold' /\ \A op : Unreserved(op)' <=> Unreserved(op)
  BY <1>1, RecordsStay
<1>5. ASSUME NEW h \in Groups, queue'[h] # <<>>, NEW c, c = Head(queue'[h])
      PROVE  Announces(c, work'[h], games[c.event], rows[c.event], MovesOf(c, moved), told)
  <2>1. CASE h = g
    <3>1. Head(queue'[g]) = queue'[g][1] /\ 1 \in 1 .. Len(queue'[g]) /\ c \in Command
      BY <1>2, <1>5, <2>1, EmptySeq, HeadTailProperties, LenProperties
    <3>2. 1 + 1 \in 1 .. Len(queue[g]) /\ 1 + 1 > 1 /\ c = queue[g][1 + 1]
      BY <1>2, <1>5, <2>1, <3>1
    <3>3. Fresh(c.op) /\ Unreserved(c.op)
      BY <3>2 DEF Structure, QueuesSound, InTold, ReservesOfHeads
    <3>4. c.event \in Events
      BY <3>1 DEF Command
    <3> QED
      BY <1>2, <1>3, <2>1, <3>3, <3>4, NewHeadAnnounces DEF InTold
  <2>2. CASE h # g
    BY <1>2, <1>5, <2>2 DEF InTold, EveryHeadAnnounces, CommandAt
  <2> QED
    BY <2>1, <2>2
<1>6. EveryHeadAnnounces'
  BY <1>1, <1>5 DEF EveryHeadAnnounces, CommandAt
<1>7. ReservesOfHeads'
  <2>1. ASSUME NEW h \in Groups, NEW i \in 1 .. Len(queue'[h]), i > 1 PROVE Unreserved(queue'[h][i].op)
    <3>1. CASE h = g
      BY <1>2, <2>1, <3>1 DEF InTold, ReservesOfHeads
    <3>2. CASE h # g
      BY <1>2, <2>1, <3>2 DEF InTold, ReservesOfHeads
    <3> QED
      BY <3>1, <3>2
  <2>2. \A op \in published + 1 .. MaxOps : Unreserved(op)
    BY DEF InTold, ReservesOfHeads
  <2> QED
    BY <1>1, <1>4, <2>1, <2>2 DEF ReservesOfHeads
<1> QED
  BY <1>4, <1>6, <1>7 DEF InTold

LEMMA PublishingKeepsTold ==
    ASSUME Structure, OneAtATime, InTold, "confirm" \notin Kinds, Publish
    PROVE  InTold'
<1>1. UNCHANGED <<games, rows, work, moved, told, applied>>
  BY DEF Publish, history
<1>2. published' = published + 1 /\ published + 1 \in 1 .. MaxOps /\ Fresh(published + 1)
  BY PublishEffect
<1>3. PICK c \in Command :
          /\ c.op = published + 1 /\ queue' \in [Groups -> Seq(Command)]
          /\ \A g \in Groups : \A i \in 1 .. Len(queue'[g]) :
                \/ i \in 1 .. Len(queue[g]) /\ queue'[g][i] = queue[g][i]
                \/ g = GroupOf(c) /\ i = Len(queue[g]) + 1 /\ queue'[g][i] = c
          /\ \A g \in Groups : queue[g] # <<>> => CommandAt(g)' = CommandAt(g)
  BY PublishEffect
<1>4. MovesAreApplied' /\ MarkedAreTold' /\ \A op : Unreserved(op)' <=> Unreserved(op)
  BY <1>1, RecordsStay
<1>5. published \in Nat /\ MaxOps \in Nat
  BY OrderedMutationsAssumption DEF Structure, TypeOK
<1>6. \A op \in published + 1 .. MaxOps : Unreserved(op)
  BY DEF InTold, ReservesOfHeads
<1>7. Unreserved(c.op)
  BY <1>2, <1>3, <1>5, <1>6
<1>8. ASSUME NEW h \in Groups, queue'[h] # <<>>, NEW d, d = Head(queue'[h])
      PROVE  Announces(d, work[h], games[d.event], rows[d.event], MovesOf(d, moved), told)
  <2>1. CASE queue[h] # <<>>
    <3>1. d = CommandAt(h)
      BY <1>3, <1>8, <2>1 DEF CommandAt
    <3> QED
      BY <2>1, <3>1 DEF InTold, EveryHeadAnnounces
  <2>2. CASE queue[h] = <<>>
    <3>1. queue'[h] \in Seq(Command)
      BY <1>3
    <3>2. Head(queue'[h]) = queue'[h][1] /\ 1 \in 1 .. Len(queue'[h])
      BY <1>8, <3>1, EmptySeq, HeadTailProperties, LenProperties
    <3>3. ~(1 \in 1 .. Len(queue[h]))
      BY <2>2
    <3>4. d = c
      BY <1>3, <1>8, <3>2, <3>3
    <3>5. work[h].todo = <<>>
      BY <2>2 DEF Structure, TypeOK
    <3>6. Fresh(d.op) /\ Unreserved(d.op) /\ d.event \in Events
      BY <1>2, <1>3, <1>7, <3>4 DEF Command
    <3> QED
      BY <3>5, <3>6, NewHeadAnnounces DEF InTold
  <2> QED
    BY <2>1, <2>2
<1>9. EveryHeadAnnounces'
  BY <1>1, <1>8 DEF EveryHeadAnnounces, CommandAt
<1>10. ReservesOfHeads'
  <2>1. ASSUME NEW h \in Groups, NEW i \in 1 .. Len(queue'[h]), i > 1 PROVE Unreserved(queue'[h][i].op)
    <3>1. CASE i \in 1 .. Len(queue[h]) /\ queue'[h][i] = queue[h][i]
      BY <2>1, <3>1 DEF InTold, ReservesOfHeads
    <3>2. CASE queue'[h][i] = c
      BY <1>7, <3>2
    <3> QED
      BY <1>3, <2>1, <3>1, <3>2
  <2>2. \A op \in published' + 1 .. MaxOps : Unreserved(op)
    BY <1>2, <1>5, <1>6
  <2> QED
    BY <1>4, <2>1, <2>2 DEF ReservesOfHeads
<1> QED
  BY <1>4, <1>9, <1>10 DEF InTold

LEMMA StutterKeepsTold ==
    ASSUME InTold, UNCHANGED vars
    PROVE  InTold'
<1>1. UNCHANGED <<games, rows, queue, work, published, moved, told, applied>>
  BY DEF vars
<1>2. MovesAreApplied' /\ MarkedAreTold' /\ \A op : Unreserved(op)' <=> Unreserved(op)
  BY <1>1, RecordsStay
<1>3. EveryHeadAnnounces'
  BY <1>1 DEF InTold, EveryHeadAnnounces, CommandAt
<1>4. ReservesOfHeads'
  BY <1>1, <1>2 DEF InTold, ReservesOfHeads
<1> QED
  BY <1>2, <1>3, <1>4 DEF InTold

LEMMA InitTold == Init => InTold
<1> SUFFICES ASSUME Init PROVE InTold
  OBVIOUS
<1>1. /\ games \in [Events -> {NewGame(a) : a \in Amounts}] /\ queue = [g \in Groups |-> <<>>]
      /\ moved = {} /\ told = {} /\ published = 0
  BY DEF Init
<1>2. EveryHeadAnnounces
  BY <1>1 DEF EveryHeadAnnounces
<1>3. MovesAreApplied
  BY <1>1 DEF MovesAreApplied
<1>4. ASSUME NEW e \in Events
      PROVE  games[e].reserve.op = 0 /\ games[e].reserve.done = FALSE /\ games[e].removal.done = {}
  <2>1. PICK a \in Amounts : games[e] = NewGame(a)
    BY <1>1
  <2> QED
    BY <2>1, OrderedMutationsAssumption DEF NewGame
<1>5. MarkedAreTold
  <2>1. \A op : Notices(op, {}) \subseteq told
    BY Zenon DEF Notices
  <2>2. \A e \in Events : Notices(games[e].removal.op, games[e].removal.done) \subseteq told
    BY <1>4, <2>1
  <2> QED
    BY <1>4, <2>2 DEF MarkedAreTold, DoneIsTold
<1>6. ReservesOfHeads
  <2>1. MaxOps \in Nat
    BY OrderedMutationsAssumption
  <2>2. ASSUME NEW op \in 1 .. MaxOps PROVE Unreserved(op)
    <3>1. op # 0
      BY <2>1
    <3>2. \A e \in Events : games[e].reserve.op = 0
      BY <1>4
    <3> QED
      BY <3>1, <3>2 DEF Unreserved
  <2>3. \A g \in Groups : queue[g] = <<>>
    BY <1>1
  <2>4. Len(<<>>) = 0
    BY EmptySeq
  <2>5. \A g \in Groups : \A i \in 1 .. Len(queue[g]) : FALSE
    BY <2>3, <2>4
  <2> QED
    BY <1>1, <2>1, <2>2, <2>5 DEF ReservesOfHeads
<1> QED
  BY <1>2, <1>3, <1>5, <1>6 DEF InTold

-----------------------------------------------------------------------------
\* Every step, and the answer

LEMMA StepKeepsAllTold ==
    ASSUME Structure, OneAtATime, InTold, "confirm" \notin Kinds, NEW g \in Groups, Step(g) \/ Fail(g)
    PROVE  InTold'
<1>1. CASE Load(g)
  BY <1>1, LoadKeepsTold
<1>2. CASE RecordRemoval(g) \/ RecordReserve(g) \/ RecordLink(g) \/ Look(g)
  BY <1>2, RemovalKeepsTold, ReserveKeepsTold, LinkKeepsTold, LookKeepsTold
<1>3. CASE WriteEnlist(g) \/ WriteCancel(g) \/ WriteTouch(g) \/ WriteRemove(g)
  BY <1>3, EnlistKeepsTold, CancelKeepsTold, TouchKeepsTold, RemoveKeepsTold
<1>4. CASE WriteSift(g) \/ WritePromote(g) \/ EraseRows(g)
  BY <1>4, SiftKeepsTold, PromoteKeepsTold, ErasingKeepsTold
<1>5. CASE WriteAmount(g) \/ WriteStatus(g) \/ WriteArchival(g) \/ DropGame(g)
  BY <1>5, AmountKeepsTold, GameWritesKeepTold
<1>6. CASE WriteConfirm(g)
  <2>1. work[g].todo # <<>> /\ CommandAt(g).kind = "confirm"
    BY <1>6 DEF WriteConfirm, At
  <2> QED
    BY <2>1, AtStep, AtTurn
<1>7. CASE TellReserve(g) \/ TellLink(g) \/ Read(g) \/ Send(g) \/ AllSent(g)
  BY <1>7, TellReserveKeepsTold, TellLinkKeepsTold, ReadKeepsTold, SendKeepsTold, AllSentKeepsTold
<1>8. CASE LoseGame(g)
  BY <1>8, NoGameIsLost
<1>9. CASE Reply(g) \/ Fail(g)
  BY <1>9, AnsweringKeepsTold, FailingKeepsTold
<1> QED
  BY <1>1, <1>2, <1>3, <1>4, <1>5, <1>6, <1>7, <1>8, <1>9 DEF Step, Write

LEMMA NextInTold ==
    ASSUME "confirm" \notin Kinds, Structure, OneAtATime, InTold, [Next]_vars
    PROVE  InTold'
<1>1. CASE Publish
  BY <1>1, PublishingKeepsTold
<1>2. CASE \E g \in Groups : Step(g) \/ Fail(g)
  BY <1>2, StepKeepsAllTold
<1>3. CASE UNCHANGED vars
  BY <1>3, StutterKeepsTold
<1> QED
  BY <1>1, <1>2, <1>3 DEF Next, Done

\* At the answer everybody whom the command has moved, and who is still there,
\* has been told, unless the attempt was denied.
AnswersTellAll ==
    \A g \in Groups : At(g, "reply") /\ ~work[g].denied => Untold(CommandAt(g).op, {"up", "down", "out", "cancelled"}) = {}

LEMMA AnswerComesLast ==
    \A step \in {"tellReserve", "read", "send"} : Precedes(step, "reply")
BY DEF Precedes, Order

LEMMA AnnouncedIsTold ==
    ASSUME NEW c, NEW w \in Attempt, w.todo # <<>>, Head(w.todo) = "reply", NEW r, PlanTells(c, w, r),
           NEW game, NEW m, NEW said, Announced(c, w, game, r, m, said), Stays(m, game, r)
    PROVE  NoticeOf(m) \in said
<1>1. ~Pending(w, "tellReserve") /\ ~Pending(w, "read") /\ ~Pending(w, "send")
  BY NothingEarlier, AnswerComesLast
<1> QED
  BY <1>1 DEF Announced

\* A player who is where the move has put them, as the two definitions say it.
LEMMA HoldsStays ==
    ASSUME NEW m, m.way \in {"up", "down", "out", "cancelled"}, Holds(m)
    PROVE  Stays(m, games[m.event], rows[m.event])
<1>1. CASE m.way = "up"
  BY <1>1 DEF Holds, Stays
<1>2. CASE m.way = "down"
  BY <1>2 DEF Holds, Stays
<1>3. CASE m.way \in {"out", "cancelled"}
  BY <1>3 DEF Stays
<1> QED
  BY <1>1, <1>2, <1>3

LEMMA ToldIsEnough == Structure /\ OneAtATime /\ InTold /\ "confirm" \notin Kinds => AnswersTellAll
<1> SUFFICES ASSUME Structure, OneAtATime, InTold, "confirm" \notin Kinds, NEW g \in Groups, At(g, "reply"), ~work[g].denied,
                    NEW m \in Untold(CommandAt(g).op, {"up", "down", "out", "cancelled"})
             PROVE  FALSE
  BY Zenon DEF AnswersTellAll
<1> DEFINE c == CommandAt(g)
           e == c.event
           w == work[g]
<1>1. w.todo # <<>> /\ Head(w.todo) = "reply"
  BY DEF At
<1>2. /\ m \in moved /\ m.op = c.op /\ m.way \in {"up", "down", "out", "cancelled"} /\ Holds(m)
      /\ [op |-> c.op, way |-> m.way, key |-> m.key] \notin told
  BY DEF Untold
<1>3. NoticeOf(m) \notin told /\ m \in MovesOf(c, moved)
  BY <1>2 DEF NoticeOf, MovesOf, Ways
<1>4. queue[g] # <<>> /\ w \in Attempt /\ InTurn(c, w, games[e], rows[e], c.op \in applied)
  BY <1>1, AtStep, AtTurn
<1>5. Announces(c, w, games[e], rows[e], MovesOf(c, moved), told)
  BY <1>4 DEF InTold, EveryHeadAnnounces
<1>6. c.op \in applied
  BY <1>2 DEF InTold, MovesAreApplied, Ways
<1>7. ~w.refused
  BY <1>4, <1>6 DEF InTurn, Admitted
<1> HIDE DEF c, e, w
<1>8. Noted(c, games[e], rows[e], m) /\ PlanTells(c, w, rows[e]) /\ Announced(c, w, games[e], rows[e], m, told)
  BY <1>1, <1>3, <1>5, <1>7 DEF Announces
<1>9. m.event = e
  BY <1>8 DEF Noted, e
<1>10. Stays(m, games[e], rows[e])
  BY <1>2, <1>9, HoldsStays
<1> QED
  BY <1>1, <1>3, <1>4, <1>8, <1>10, AnnouncedIsTold

\* A command is answered, and leaves the queue, only after every player it
\* moved between main roster and reserve, removed or cancelled has been told,
\* while nobody confirms and unless the attempt that answers was denied for
\* rights, links or an opening withdrawn meanwhile: what the write of an attempt changes for a player is
\* named by the snapshot or by the record of promotions made before it, and no
\* attempt, the first or a repeated one, comes to the answer before it has sent
\* what these still owe.
THEOREM EverybodyMovedIsTold ==
    ASSUME "confirm" \notin Kinds
    PROVE  Spec => MovesAreTold
<1>1. Init => Structure /\ OneAtATime /\ InTold
  BY InitStructure, InitOneAtATime, InitTold
<1>2. Structure /\ OneAtATime /\ InTold /\ [Next]_vars => (Structure /\ OneAtATime /\ InTold)'
  BY NextStructure, NextOneAtATime, NextInTold
<1>3. Structure /\ OneAtATime /\ InTold
          => [\A g \in Groups :
                At(g, "reply") /\ queue'[g] # queue[g] /\ ~work[g].denied
                => Untold(CommandAt(g).op, {"up", "down", "out", "cancelled"}) = {}]_vars
  BY ToldIsEnough DEF AnswersTellAll
<1> QED
  BY <1>1, <1>2, <1>3, PTL DEF Spec, MovesAreTold
================================================================================
