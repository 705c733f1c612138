-------------------------- MODULE GameCreation_proofs --------------------------
(***************************************************************************)
(* Proofs about GameCreation, for any people, days, hours, game ids, and   *)
(* number of failures and changes of roles, with and without the mirror    *)
(* and on both backends.                                                   *)
(*                                                                         *)
(* A game's plan passes from the requester's row to a turn, from the turn  *)
(* to an upload, and from the turn or the upload to the game.  The         *)
(* invariant says what each of them knows of it, and counts the uploads    *)
(* that have been ordered: a game has one, and a dialogue orders one for   *)
(* each turn that failed and one for the turn that succeeds.               *)
(***************************************************************************)
EXTENDS GameCreation, FiniteSetTheorems, SequenceTheorems, TLAPS

\* The row and the creating message.
RowInv ==
    /\ RowSound(user)
    /\ Current.created # 0 =>
        /\ games[Current.created].made /\ user.state \in ConfirmationStates
        /\ message # {} \/ "outdated" \in ended
    /\ message # {} => user.state \in ConfirmationStates
    /\ message = {} => turn.step = "none"

\* The plan a turn carries, and what it has done for it.
TurnInv ==
    /\ turn.step \in {"submit", "invoke", "store", "persist"} => PlanSound(turn.context) /\ Current.created = 0
    /\ turn.step \in {"none", "submit", "invoke"} => turn.id = 0
    /\ turn.step \in {"store", "persist"} =>
        mirrored /\ turn.id \in Ids /\ jobs[turn.id].step # "none" /\ jobs[turn.id].plan = turn.context
    /\ turn.step \in {"persist", "tell"} => turn.id \in Ids /\ games[turn.id].made
    /\ turn.step = "tell" => Current.created = turn.id
    /\ turn.step = "answer" /\ Current.created # 0 => Current.created = turn.id
    /\ turn.step = "answer" /\ turn.id # 0 =>
        games[turn.id].made /\ (games[turn.id].plan.master \in People => turn.id \in told)

JobSound(i) ==
    /\ jobs[i].step # "none" => PlanSound(jobs[i].plan) /\ Valid(jobs[i].plan)
    /\ games[i].made => jobs[i].step # "none" /\ games[i].plan = jobs[i].plan
    /\ i \in answered => games[i].made /\ (games[i].plan.master \in People => i \in told)
    /\ ~mirrored /\ games[i].made /\ ~jobs[i].repeated => jobs[i].step = "tell" \/ i \in told

JobsInv == \A i \in Ids : JobSound(i)

\* With the mirror a game ordered for a master is told to the master, or will be.
TellingSound(i) ==
    /\ i \in heard => jobs[i].step = "done"
    /\ mirrored /\ jobs[i].step # "none" /\ jobs[i].plan.master \in People => i \in told \/ StillToBeTold(i)

TellingInv == \A i \in Ids : TellingSound(i)

Ordered == {i \in Ids : jobs[i].step # "none"}

\* The creating turn has ordered its upload, or no other will.
Settled ==
    \/ turn.step \in {"store", "persist", "tell", "answer"}
    \/ Current.created # 0
    \/ user.state = "IDLE"

OrdersCounted ==
    /\ IsFiniteSet(Ordered) /\ failed \in Nat
    /\ Cardinality(Ordered) <= failed + 1
    /\ ~Settled => Cardinality(Ordered) <= failed

\* The inductive invariant.
IInv == TypeOK /\ RowInv /\ TurnInv /\ JobsInv /\ TellingInv /\ OrdersCounted

-----------------------------------------------------------------------------
(***************************************************************************)
(* The places of the answers                                               *)
(***************************************************************************)
\* The fold that defines Taken, as a function of the positions summed up.
Sums(seq) ==
    CHOOSE sum : sum = [s \in SUBSET (DOMAIN seq) |->
                          IF s = {} THEN 0 ELSE sum[s \ {Max(s)}] + seq[Max(s)]]

LEMMA TakenIsSum == ASSUME NEW seq PROVE Taken(seq) = Sums(seq)[DOMAIN seq]
  BY DEF Taken, FoldLeft, MapThenFoldSet, Sums

LEMMA TakenOfTwo ==
    ASSUME NEW a \in Nat, NEW b \in Nat PROVE Taken(<<a, b>>) = a + b
<1> DEFINE q == <<a, b>>
           Step(sum, s) == IF s = {} THEN 0 ELSE sum[s \ {Max(s)}] + q[Max(s)]
           w == [s \in SUBSET {1, 2} |-> (IF 1 \in s THEN a ELSE 0) + (IF 2 \in s THEN b ELSE 0)]
<1>1. DOMAIN q = {1, 2}
  OBVIOUS
<1>2. Max({1}) = 1 /\ Max({2}) = 2 /\ Max({1, 2}) = 2
  BY DEF Max
<1>3. ASSUME NEW s \in SUBSET {1, 2} PROVE w[s] = Step(w, s)
  <2>1. w[{}] = 0 /\ w[{1}] = a /\ w[{2}] = b /\ w[{1, 2}] = a + b
    OBVIOUS
  <2>2. CASE s = {}
    BY <2>2
  <2>3. CASE s = {1}
    <3>1. s \ {Max(s)} = {} /\ q[Max(s)] = a
      BY <1>2, <2>3
    <3> QED
      BY <2>1, <2>3, <3>1
  <2>4. CASE s = {2}
    <3>1. s \ {Max(s)} = {} /\ q[Max(s)] = b
      BY <1>2, <2>4
    <3> QED
      BY <2>1, <2>4, <3>1
  <2>5. CASE s = {1, 2}
    <3>1. s \ {Max(s)} = {1} /\ q[Max(s)] = b
      BY <1>2, <2>5
    <3> QED
      BY <2>1, <2>5, <3>1
  <2> QED
    BY <2>2, <2>3, <2>4, <2>5
<1>4. w = [s \in SUBSET {1, 2} |-> Step(w, s)]
  BY <1>3
<1> DEFINE sum == Sums(q)
<1>5. sum = [s \in SUBSET {1, 2} |-> Step(sum, s)]
  BY <1>1, <1>4 DEF Sums
<1>6. q[1] = a /\ q[2] = b
  OBVIOUS
<1> HIDE DEF q, sum, w
<1>7. \A s \in SUBSET {1, 2} : sum[s] = Step(sum, s)
  BY <1>5
<1>8. sum[{}] = 0
  BY <1>7
<1>9. sum[{1}] = a
  <2>1. {1} \ {1} = {} /\ {1} # {} /\ {1} \in SUBSET {1, 2}
    OBVIOUS
  <2>2. sum[{1}] = sum[{1} \ {Max({1})}] + q[Max({1})]
    BY <1>7, <2>1
  <2> QED
    BY <1>2, <1>6, <1>8, <2>1, <2>2
<1>10. sum[{1, 2}] = a + b
  <2>1. {1, 2} \ {2} = {1} /\ {1, 2} # {} /\ {1, 2} \in SUBSET {1, 2}
    OBVIOUS
  <2>2. sum[{1, 2}] = sum[{1, 2} \ {Max({1, 2})}] + q[Max({1, 2})]
    BY <1>7, <2>1
  <2> QED
    BY <1>2, <1>6, <1>9, <2>1, <2>2
<1> QED
  BY <1>1, <1>10, TakenIsSum DEF sum, q

LEMMA TakenOfOne == ASSUME NEW a \in Nat PROVE Taken(<<a>>) = a
<1> DEFINE q == <<a>>
           Step(sum, s) == IF s = {} THEN 0 ELSE sum[s \ {Max(s)}] + q[Max(s)]
           w == [s \in SUBSET {1} |-> IF 1 \in s THEN a ELSE 0]
<1>1. DOMAIN q = {1} /\ Max({1}) = 1
  BY DEF Max
<1>2. ASSUME NEW s \in SUBSET {1} PROVE w[s] = Step(w, s)
  <2>1. w[{}] = 0 /\ w[{1}] = a
    OBVIOUS
  <2>2. CASE s = {}
    BY <2>2
  <2>3. CASE s = {1}
    <3>1. s \ {Max(s)} = {} /\ q[Max(s)] = a
      BY <1>1, <2>3
    <3> QED
      BY <2>1, <2>3, <3>1
  <2> QED
    BY <2>2, <2>3
<1>3. w = [s \in SUBSET {1} |-> Step(w, s)]
  BY <1>2
<1> DEFINE sum == Sums(q)
<1>4. sum = [s \in SUBSET {1} |-> Step(sum, s)]
  BY <1>1, <1>3 DEF Sums
<1>5. q[1] = a
  OBVIOUS
<1> HIDE DEF q, sum, w
<1>6. \A s \in SUBSET {1} : sum[s] = Step(sum, s)
  BY <1>4
<1>7. sum[{}] = 0
  BY <1>6
<1>8. sum[{1}] = a
  <2>1. {1} \ {1} = {} /\ {1} # {} /\ {1} \in SUBSET {1}
    OBVIOUS
  <2>2. sum[{1}] = sum[{1} \ {Max({1})}] + q[Max({1})]
    BY <1>6, <2>1
  <2> QED
    BY <1>1, <1>5, <1>7, <2>1, <2>2
<1> QED
  BY <1>1, <1>8, TakenIsSum DEF sum, q

LEMMA AtMostTwo ==
    ASSUME NEW S
    PROVE  /\ <<>> \in SeqOf(S, 2)
           /\ \A s \in SeqOf(S, 2) : s \in Seq(S) /\ Len(s) \in 0 .. 2 /\ (Len(s) = 0 <=> s = <<>>)
           /\ \A s \in Seq(S) : Len(s) <= 2 => s \in SeqOf(S, 2)
<1>1. <<>> \in [1 .. 0 -> S] /\ 0 \in 0 .. 2
  OBVIOUS
<1>2. ASSUME NEW s \in SeqOf(S, 2)
      PROVE  s \in Seq(S) /\ Len(s) \in 0 .. 2 /\ (Len(s) = 0 <=> s = <<>>)
  <2>1. PICK m \in 0 .. 2 : s \in [1 .. m -> S]
    BY DEF SeqOf
  <2>2. s \in Seq(S) /\ Len(s) = m
    BY <2>1
  <2> QED
    BY <2>2
<1>3. ASSUME NEW s \in Seq(S), Len(s) <= 2
      PROVE  s \in SeqOf(S, 2)
  <2>1. s \in [1 .. Len(s) -> S] /\ Len(s) \in Nat
    OBVIOUS
  <2>2. Len(s) \in 0 .. 2
    BY <1>3, <2>1
  <2> QED
    BY <2>1, <2>2 DEF SeqOf
<1> QED
  BY <1>1, <1>2, <1>3 DEF SeqOf

-----------------------------------------------------------------------------
(***************************************************************************)
(* The dialogue                                                            *)
(***************************************************************************)
LEMMA CurrentType ==
    ASSUME IInv
    PROVE  /\ Current \in Context /\ user.state \in States /\ user = [state |-> user.state, context |-> Current]
           /\ Current.later => Current.master = None
           /\ user.state \notin {"CREATE_CONFIRMATION_SCHEDULE_CHOICE", "CREATE_CONFIRMATION_SCHEDULE_TIME",
                                 "CREATE_CONFIRMATION_DEADLINE"} => Current.created = 0
           /\ Current.created \in Ids \cup {0} /\ 0 \notin Ids
  BY GameCreationAssumption DEF Context, IInv, TypeOK, User, RowInv, RowSound, Current, ConfirmationStates

LEMMA NoContextType == NoContext \in Context /\ NoContext.created = 0 /\ ~NoContext.later
<1>1. <<>> \in SeqOf(1 .. MaxPlayers, 2)
  BY AtMostTwo
<1>2. 0 \in 0 .. MaxPlayers
  BY GameCreationAssumption
<1> QED
  BY <1>1, <1>2 DEF NoContext, Context, Optional

\* An answer changes the requester's row, and perhaps a role.
LEMMA AnswerKeeps ==
    ASSUME IInv, message = {}, user.state # "IDLE", Current.created = 0 \/ user'.state = "IDLE",
           user' \in User, RowSound(user'), user'.context.created = 0,
           role' \in [People \cup {Self} -> Roles], ended' \subseteq {"refused", "failed", "outdated"},
           ended \subseteq ended', offered' \in BOOLEAN, UNCHANGED Outside
    PROVE  IInv'
<1>1. /\ UNCHANGED <<backend, mirrored, failed, now, message, turn, games, jobs, told, answered, heard>>
      /\ turn.step = "none"
  BY DEF Outside, apart, IInv, RowInv
<1>2. TypeOK' /\ RowInv' /\ TurnInv'
  BY <1>1 DEF IInv, TypeOK, RowInv, TurnInv, Current
<1>3. JobsInv'
  BY <1>1 DEF IInv, JobsInv, JobSound
<1>4. OrdersCounted'
  <2>1. CASE Current.created = 0
    <3>1. ~Settled /\ Ordered' = Ordered
      BY <1>1, <2>1 DEF IInv, RowInv, Settled, Ordered
    <3> QED
      BY <1>1, <3>1 DEF IInv, OrdersCounted
  <2>2. CASE Current.created # 0
    <3>1. Settled' /\ Ordered' = Ordered
      BY <1>1, <2>2 DEF Settled, Ordered
    <3> QED
      BY <1>1, <3>1 DEF IInv, OrdersCounted
  <2> QED
    BY <2>1, <2>2
<1>5. TellingInv'
  BY <1>1 DEF IInv, RowInv, TellingInv, TellingSound, StillToBeTold, Current
<1> QED
  BY <1>2, <1>3, <1>4, <1>5 DEF IInv

LEMMA SayKeeps ==
    ASSUME IInv, NEW states, NEW next \in States, NEW context \in Context, Say(states, next, context),
           user.state # "IDLE", Current.created = 0 \/ next = "IDLE", context.created = 0,
           RowSound([state |-> next, context |-> context])
    PROVE  IInv'
<1>1. /\ message = {} /\ user' = [state |-> next, context |-> context] /\ offered' \in BOOLEAN
      /\ UNCHANGED <<Outside, role, ended>>
  BY DEF Say
<1>2. user' \in User /\ RowSound(user') /\ user'.context.created = 0
  BY <1>1 DEF User
<1> QED
  BY <1>1, <1>2, AnswerKeeps DEF IInv, TypeOK

LEMMA RefuseKeeps ==
    ASSUME IInv, message = {}, user.state # "IDLE", Refuse
    PROVE  IInv'
<1>1. /\ user' = [state |-> "IDLE", context |-> NoContext] /\ ended' = ended \cup {"refused"}
      /\ offered' \in BOOLEAN /\ UNCHANGED <<Outside, role>>
  BY DEF Refuse
<1>2. user' \in User /\ RowSound(user') /\ user'.context.created = 0
  BY <1>1, NoContextType DEF User, States, RowSound, MasterStates, ConfirmationStates
<1> QED
  BY <1>1, <1>2, AnswerKeeps DEF IInv, TypeOK

LEMMA OpeningKeeps ==
    ASSUME IInv, Name \/ Date \/ Close
    PROVE  IInv'
<1>1. CASE Name
  <2>1. user.state # "IDLE" /\ "CREATE_DATE" \in States /\ Current.created = 0
    BY <1>1, CurrentType DEF Name, Say, States
  <2>2. RowSound([state |-> "CREATE_DATE", context |-> NoContext])
    BY NoContextType DEF RowSound, NoContext, MasterStates, ConfirmationStates
  <2> QED
    BY <1>1, <2>1, <2>2, NoContextType, SayKeeps DEF Name
<1>2. CASE Date
  <2>1. PICK d \in Dates : Say({"CREATE_DATE"}, "CREATE_CLOSE_TIME", [Current EXCEPT !.date = d])
    BY <1>2 DEF Date
  <2> DEFINE next == [Current EXCEPT !.date = d]
  <2>2. user.state = "CREATE_DATE" /\ message = {} /\ "CREATE_CLOSE_TIME" \in States
    BY <2>1 DEF Say, States
  <2>3. next \in Context /\ next.created = 0 /\ next.options = Current.options
        /\ next.later = Current.later /\ next.master = Current.master
    BY <2>2, CurrentType DEF Context
  <2>4. Current.options = <<>> /\ Current.created = 0
    BY <2>2, CurrentType DEF IInv, RowInv, RowSound, Current
  <2> HIDE DEF next
  <2>5. RowSound([state |-> "CREATE_CLOSE_TIME", context |-> next])
    BY <2>3, <2>4, CurrentType DEF RowSound, MasterStates, ConfirmationStates
  <2>6. Say({"CREATE_DATE"}, "CREATE_CLOSE_TIME", next)
    BY <2>1 DEF next
  <2> QED
    BY <2>2, <2>3, <2>4, <2>5, <2>6, SayKeeps
<1>3. CASE Close
  <2>1. PICK t \in Optional :
            /\ t = 0 \/ (t > Current.date /\ t > now)
            /\ Say({"CREATE_CLOSE_TIME"}, "QUESTION_CREATE_CHOICE", [Current EXCEPT !.close = t])
    BY <1>3 DEF Close
  <2> DEFINE next == [Current EXCEPT !.close = t]
  <2>2. user.state = "CREATE_CLOSE_TIME" /\ message = {} /\ "QUESTION_CREATE_CHOICE" \in States
    BY <2>1 DEF Say, States
  <2>3. next \in Context /\ next.created = 0 /\ next.options = Current.options /\ next.date = Current.date
        /\ next.close = t /\ next.later = Current.later /\ next.master = Current.master
    BY <2>2, CurrentType DEF Context
  <2>4. Current.options = <<>> /\ Current.created = 0
    BY <2>2, CurrentType DEF IInv, RowInv, RowSound, Current
  <2> HIDE DEF next
  <2>5. RowSound([state |-> "QUESTION_CREATE_CHOICE", context |-> next])
    BY <2>1, <2>3, <2>4, CurrentType DEF RowSound, MasterStates, ConfirmationStates
  <2>6. Say({"CREATE_CLOSE_TIME"}, "QUESTION_CREATE_CHOICE", next)
    BY <2>1 DEF next
  <2> QED
    BY <2>2, <2>3, <2>4, <2>5, <2>6, SayKeeps
<1> QED
  BY <1>1, <1>2, <1>3

\* The capacity is known, and the question has two answers or none.
LEMMA AmountKnown ==
    ASSUME IInv, NEW states, NEW context \in Context, SayAfterAmount(states, context),
           user.state # "IDLE", Current.created = 0, context.created = 0, PlanSound(context)
    PROVE  IInv'
<1> DEFINE next == AfterAmount(context)
<1>1. next.state \in States /\ next.context \in Context /\ next.context.created = 0
  BY DEF AfterAmount, States, MasterStates, Context
<1>2. /\ next.context.close = context.close /\ next.context.date = context.date
      /\ next.context.options = context.options /\ next.context.amount = context.amount
      /\ next.context.later => next.context.master = None
      /\ next.state \in {"CREATE_MASTER_CHOICE", "CREATE_SCHEDULE_CHOICE"}
  BY DEF AfterAmount, PlanSound, Context
<1>3. Say(states, next.state, next.context)
  BY DEF SayAfterAmount
<1> HIDE DEF next
<1>4. RowSound([state |-> next.state, context |-> next.context])
  BY <1>2 DEF PlanSound, RowSound, MasterStates, ConfirmationStates
<1> QED
  BY <1>1, <1>3, <1>4, SayKeeps

LEMMA AmountKeeps == ASSUME IInv, Amount PROVE IInv'
<1>1. PICK n \in 1 .. MaxPlayers :
          SayAfterAmount({"CREATE_PLAYER_AMOUNT"}, [Current EXCEPT !.amount = n])
  BY DEF Amount
<1> DEFINE next == [Current EXCEPT !.amount = n]
<1>2. user.state = "CREATE_PLAYER_AMOUNT" /\ message = {}
  BY <1>1 DEF SayAfterAmount, Say
<1>3. n \in 0 .. MaxPlayers
  BY GameCreationAssumption
<1>4. next \in Context /\ next.created = 0 /\ next.options = Current.options /\ next.date = Current.date
      /\ next.close = Current.close /\ next.later = Current.later /\ next.master = Current.master
  BY <1>2, <1>3, CurrentType DEF Context
<1>5. Current.options = <<>> /\ Current.created = 0 /\ (Current.close # 0 => Current.close > Current.date)
  BY <1>2, CurrentType DEF IInv, RowInv, RowSound, Current
<1>6. SayAfterAmount({"CREATE_PLAYER_AMOUNT"}, next)
  BY <1>1
<1> HIDE DEF next
<1>7. PlanSound(next)
  BY <1>4, <1>5, CurrentType DEF PlanSound
<1> QED
  BY <1>2, <1>4, <1>5, <1>6, <1>7, AmountKnown

LEMMA QuestionKeeps == ASSUME IInv, Question PROVE IInv'
<1>1. message = {} /\ user.state \in {"QUESTION_CREATE_CHOICE", "QUESTION_CREATE_TEXT", "QUESTION_CREATE_NAME"}
  BY DEF Question, Say
<1>2. Current.created = 0 /\ (Current.close # 0 => Current.close > Current.date)
  BY <1>1, CurrentType DEF IInv, RowInv, RowSound, Current
<1>3. CASE user.state = "QUESTION_CREATE_CHOICE"
  <2>1. PICK next \in {"CREATE_PLAYER_AMOUNT", "QUESTION_CREATE_TEXT"} :
            Say({"QUESTION_CREATE_CHOICE"}, next, Current)
    BY <1>3 DEF Question, Say
  <2>2. Current.options = <<>>
    BY <1>3 DEF IInv, RowInv, RowSound, Current
  <2>3. RowSound([state |-> next, context |-> Current]) /\ next \in States
    BY <1>2, <2>2, CurrentType DEF RowSound, States, MasterStates, ConfirmationStates
  <2> QED
    BY <1>2, <1>3, <2>1, <2>3, CurrentType, SayKeeps
<1>4. CASE user.state = "QUESTION_CREATE_TEXT"
  <2> DEFINE next == [Current EXCEPT !.options = <<>>]
  <2>1. Say({"QUESTION_CREATE_TEXT"}, "QUESTION_CREATE_NAME", next)
    BY <1>4 DEF Question, Say
  <2>2. next \in Context /\ next.created = 0 /\ next.options = <<>> /\ next.date = Current.date
        /\ next.close = Current.close /\ next.later = Current.later /\ next.master = Current.master
    BY <1>2, AtMostTwo, CurrentType DEF Context
  <2> HIDE DEF next
  <2>3. RowSound([state |-> "QUESTION_CREATE_NAME", context |-> next]) /\ "QUESTION_CREATE_NAME" \in States
    BY <1>2, <2>2, CurrentType DEF RowSound, States, MasterStates, ConfirmationStates
  <2> QED
    BY <1>2, <1>4, <2>1, <2>2, <2>3, SayKeeps
<1>5. CASE user.state = "QUESTION_CREATE_NAME"
  <2>1. Say({"QUESTION_CREATE_NAME"}, "QUESTION_CREATE_CAPACITY", Current)
    BY <1>5 DEF Question, Say
  <2>2. Len(Current.options) < 2
    BY <1>5 DEF IInv, RowInv, RowSound, Current
  <2>3. RowSound([state |-> "QUESTION_CREATE_CAPACITY", context |-> Current])
        /\ "QUESTION_CREATE_CAPACITY" \in States
    BY <1>2, <2>2, CurrentType DEF RowSound, States, MasterStates, ConfirmationStates
  <2> QED
    BY <1>2, <1>5, <2>1, <2>3, CurrentType, SayKeeps
<1> QED
  BY <1>1, <1>3, <1>4, <1>5

LEMMA OneMore ==
    ASSUME NEW q \in SeqOf(1 .. MaxPlayers, 2), Len(q) < 2, NEW n \in 1 .. MaxPlayers
    PROVE  /\ Len(q) \in {0, 1} /\ Len(Append(q, n)) = Len(q) + 1
           /\ Append(q, n) \in SeqOf(1 .. MaxPlayers, 2)
           /\ Len(q) = 1 => \E a \in 1 .. MaxPlayers : q = <<a>> /\ Append(q, n) = <<a, n>>
<1> DEFINE S == 1 .. MaxPlayers
<1>1. q \in Seq(S) /\ Len(q) \in 0 .. 2 /\ n \in S
  BY AtMostTwo
<1> HIDE DEF S
<1>2. Append(q, n) \in Seq(S) /\ Len(Append(q, n)) = Len(q) + 1
  BY <1>1
<1>3. Append(q, n) \in SeqOf(S, 2)
  <2>1. Len(Append(q, n)) <= 2
    BY <1>1, <1>2
  <2> QED
    BY <1>2, <2>1, AtMostTwo
<1>4. ASSUME Len(q) = 1
      PROVE  \E a \in S : q = <<a>> /\ Append(q, n) = <<a, n>>
  <2>1. q[1] \in S /\ <<q[1]>> \in Seq(S) /\ <<q[1], n>> \in Seq(S)
    BY <1>1, <1>4
  <2>2. q = <<q[1]>>
    BY <1>1, <1>4, <2>1, SeqEqual
  <2>3. \A i \in 1 .. 2 : Append(q, n)[i] = <<q[1], n>>[i]
    <3>1. Append(q, n)[1] = q[1] /\ Append(q, n)[2] = n
      <4>1. (\A i \in 1 .. Len(q) : Append(q, n)[i] = q[i]) /\ Append(q, n)[Len(q) + 1] = n
        BY <1>1, AppendProperties
      <4>2. 1 \in 1 .. Len(q) /\ Len(q) + 1 = 2
        BY <1>4
      <4> QED
        BY <4>1, <4>2
    <3>2. <<q[1], n>>[1] = q[1] /\ <<q[1], n>>[2] = n /\ 1 .. 2 = {1, 2}
      OBVIOUS
    <3> QED
      BY <3>1, <3>2
  <2>4. Append(q, n) = <<q[1], n>>
    <3>1. Len(Append(q, n)) = 2 /\ Len(<<q[1], n>>) = 2
      BY <1>2, <1>4
    <3> QED
      BY <1>2, <2>1, <2>3, <3>1, SeqEqual
  <2> QED
    BY <2>1, <2>2, <2>4
<1>5. Len(q) \in {0, 1}
  BY <1>1
<1> QED
  BY <1>2, <1>3, <1>4, <1>5 DEF S

\* The places of two answers are at most MAX_PLAYER_AMOUNT together.
LEMMA CapacityKeeps == ASSUME IInv, Capacity PROVE IInv'
<1>1. PICK n \in 1 .. MaxPlayers :
          LET options == Append(Current.options, n) IN
          IF Len(options) < 2
          THEN /\ n <= MaxPlayers - 1
               /\ Say({"QUESTION_CREATE_CAPACITY"}, "QUESTION_CREATE_NAME", [Current EXCEPT !.options = options])
          ELSE /\ n <= MaxPlayers - Taken(Current.options)
               /\ SayAfterAmount({"QUESTION_CREATE_CAPACITY"},
                                 [Current EXCEPT !.options = options, !.amount = Taken(options)])
  BY DEF Capacity
<1> DEFINE options == Append(Current.options, n)
<1>2. user.state = "QUESTION_CREATE_CAPACITY" /\ message = {}
  BY <1>1 DEF SayAfterAmount, Say
<1>3. /\ Len(Current.options) < 2 /\ Current.created = 0 /\ (Current.close # 0 => Current.close > Current.date)
      /\ Current.options \in SeqOf(1 .. MaxPlayers, 2)
  BY <1>2, CurrentType DEF IInv, RowInv, RowSound, Current, Context
<1>4. Len(Current.options) \in {0, 1}
  BY <1>3, OneMore
<1>5. options \in SeqOf(1 .. MaxPlayers, 2) /\ Len(options) = Len(Current.options) + 1
  BY <1>3, OneMore
<1>7. CASE Len(options) < 2
  <2> DEFINE next == [Current EXCEPT !.options = options]
  <2>1. Say({"QUESTION_CREATE_CAPACITY"}, "QUESTION_CREATE_NAME", next)
    BY <1>1, <1>7
  <2>2. next \in Context /\ next.created = 0 /\ next.options = options /\ next.date = Current.date
        /\ next.close = Current.close /\ next.later = Current.later /\ next.master = Current.master
    BY <1>3, <1>5, CurrentType DEF Context
  <2> HIDE DEF next
  <2>3. RowSound([state |-> "QUESTION_CREATE_NAME", context |-> next]) /\ "QUESTION_CREATE_NAME" \in States
    BY <1>3, <1>7, <2>2, CurrentType DEF RowSound, States, MasterStates, ConfirmationStates
  <2> QED
    BY <1>2, <1>3, <2>1, <2>2, <2>3, SayKeeps
<1>8. CASE ~(Len(options) < 2)
  <2> DEFINE next == [Current EXCEPT !.options = options, !.amount = Taken(options)]
  <2>1. n <= MaxPlayers - Taken(Current.options) /\ SayAfterAmount({"QUESTION_CREATE_CAPACITY"}, next)
    BY <1>1, <1>8
  <2>2. Len(Current.options) = 1 /\ Len(options) = 2
    <3>1. ASSUME NEW k \in {0, 1}, NEW m, m = k + 1, ~(m < 2)
          PROVE  k = 1 /\ m = 2
      BY <3>1
    <3> HIDE DEF options
    <3> QED
      BY <1>4, <1>5, <1>8, <3>1
  <2>3. PICK a \in 1 .. MaxPlayers : Current.options = <<a>> /\ options = <<a, n>>
    BY <1>3, <2>2, OneMore
  <2>4. MaxPlayers \in Nat /\ a \in Nat /\ n \in Nat
    BY GameCreationAssumption
  <2>5. Taken(options) = a + n /\ Taken(Current.options) = a
    BY <2>3, <2>4, TakenOfOne, TakenOfTwo
  <2>6. Taken(options) \in 0 .. MaxPlayers
    BY <2>1, <2>4, <2>5
  <2> HIDE DEF options
  <2>7. next \in Context /\ next.created = 0 /\ next.options = options /\ next.date = Current.date
        /\ next.close = Current.close /\ next.later = Current.later /\ next.master = Current.master
        /\ next.amount = Taken(options)
    BY <1>3, <1>5, <2>6, CurrentType DEF Context
  <2> HIDE DEF next
  <2>8. PlanSound(next)
    BY <1>3, <2>2, <2>7, CurrentType DEF PlanSound
  <2> QED
    BY <1>2, <1>3, <2>1, <2>7, <2>8, AmountKnown
<1> QED
  BY <1>7, <1>8

\* Later questions only add to a sound plan.
LaterStates == {"CREATE_SCHEDULE_CHOICE", "CREATE_SCHEDULE_TIME"} \cup MasterStates \cup ConfirmationStates

LEMMA LaterAnswer ==
    ASSUME IInv, user.state \in LaterStates, NEW states, NEW next \in LaterStates,
           NEW context \in Context, Say(states, next, context), Current.created = 0, context.created = 0,
           context.close = Current.close, context.date = Current.date,
           context.options = Current.options, context.amount = Current.amount,
           context.later => context.master = None
    PROVE  IInv'
<1>1. PlanSound(Current)
  BY DEF LaterStates, IInv, RowInv, RowSound, Current
<1>2. RowSound([state |-> next, context |-> context]) /\ next \in States /\ user.state # "IDLE"
  BY <1>1 DEF PlanSound, RowSound, States, LaterStates, MasterStates, ConfirmationStates
<1> QED
  BY <1>2, SayKeeps

LEMMA MasterKeeps == ASSUME IInv, ChooseMaster PROVE IInv'
<1>1. message = {} /\ user.state \in MasterStates
  BY DEF ChooseMaster, ByAdmin
<1>2. user.state \in LaterStates /\ Current \in Context /\ Current.created = 0
      /\ (Current.later => Current.master = None)
  BY <1>1, CurrentType DEF LaterStates, MasterStates
<1>3. ASSUME NEW p \in People \cup {Self}, NEW states, Say(states, "CREATE_SCHEDULE_CHOICE", With(p))
      PROVE  IInv'
  <2> DEFINE next == With(p)
  <2>1. /\ next \in Context /\ next.created = 0 /\ next.close = Current.close /\ next.date = Current.date
        /\ next.options = Current.options /\ next.amount = Current.amount /\ ~next.later
    BY <1>2 DEF Context, With
  <2>2. "CREATE_SCHEDULE_CHOICE" \in LaterStates /\ Say(states, "CREATE_SCHEDULE_CHOICE", next)
    BY <1>3 DEF LaterStates
  <2> HIDE DEF next
  <2> QED
    BY <1>2, <2>1, <2>2, LaterAnswer
<1>4. ASSUME NEW states, Say(states, "CREATE_SCHEDULE_CHOICE", WithoutMaster)
      PROVE  IInv'
  <2> DEFINE next == WithoutMaster
  <2>1. /\ next \in Context /\ next.created = 0 /\ next.close = Current.close /\ next.date = Current.date
        /\ next.options = Current.options /\ next.amount = Current.amount /\ next.master = None
    BY <1>2 DEF Context, WithoutMaster
  <2>2. "CREATE_SCHEDULE_CHOICE" \in LaterStates /\ Say(states, "CREATE_SCHEDULE_CHOICE", next)
    BY <1>4 DEF LaterStates
  <2> HIDE DEF next
  <2> QED
    BY <1>2, <2>1, <2>2, LaterAnswer
<1>5. ASSUME NEW states, NEW next \in MasterStates, Say(states, next, Current)
      PROVE  IInv'
  BY <1>2, <1>5, LaterAnswer DEF LaterStates
<1>6. ASSUME NEW states, NEW p \in People, Propose(states, p)
      PROVE  IInv'
  <2>1. CASE Privileged(p)
    BY <1>3, <1>6, <2>1 DEF Propose
  <2>2. CASE ~Privileged(p)
    <3> DEFINE next == [Current EXCEPT !.target = p]
    <3>1. /\ next \in Context /\ next.created = 0 /\ next.close = Current.close /\ next.date = Current.date
          /\ next.options = Current.options /\ next.amount = Current.amount
          /\ next.later = Current.later /\ next.master = Current.master
      BY <1>2 DEF Context
    <3>2. "CREATE_MASTER_PROMOTE_CONFIRM" \in LaterStates /\ Say(states, "CREATE_MASTER_PROMOTE_CONFIRM", next)
      BY <1>6, <2>2 DEF Propose, LaterStates, MasterStates
    <3> HIDE DEF next
    <3> QED
      BY <1>2, <3>1, <3>2, LaterAnswer
  <2> QED
    BY <2>1, <2>2
<1>7. {"CREATE_MASTER_PICK", "CREATE_MASTER_CHOICE", "CREATE_MASTER_PLATFORM", "CREATE_MASTER_PROFILE"}
          \subseteq MasterStates
  BY DEF MasterStates
<1> QED
  BY <1>3, <1>4, <1>5, <1>6, <1>7 DEF ChooseMaster

LEMMA PromoteKeeps == ASSUME IInv, Promote PROVE IInv'
<1>1. /\ message = {} /\ user.state = "CREATE_MASTER_PROMOTE_CONFIRM"
      /\ role' = [role EXCEPT ![Current.target] = IF @ = "none" THEN "moderator" ELSE @]
      /\ user' = [state |-> "CREATE_SCHEDULE_CHOICE", context |-> With(Current.target)]
      /\ offered' \in BOOLEAN /\ UNCHANGED <<Outside, ended>>
  BY DEF Promote, ByAdmin
<1>2. role' \in [People \cup {Self} -> Roles]
  <2>1. role \in [People \cup {Self} -> Roles]
    BY DEF IInv, TypeOK
  <2> QED
    BY <1>1, <2>1 DEF Roles
<1> DEFINE next == With(Current.target)
<1>3. /\ next \in Context /\ next.created = 0 /\ next.close = Current.close /\ next.date = Current.date
      /\ next.options = Current.options /\ next.amount = Current.amount /\ ~next.later
  BY <1>1, CurrentType DEF With, Context
<1>4. PlanSound(Current)
  BY <1>1 DEF IInv, RowInv, RowSound, Current, MasterStates
<1>5. user' = [state |-> "CREATE_SCHEDULE_CHOICE", context |-> next]
  BY <1>1
<1> HIDE DEF next
<1>6. user' \in User /\ RowSound(user') /\ user'.context.created = 0
  BY <1>3, <1>4, <1>5 DEF User, States, RowSound, PlanSound, MasterStates, ConfirmationStates
<1> QED
  BY <1>1, <1>2, <1>6, CurrentType, AnswerKeeps DEF IInv, TypeOK

LEMMA ScheduleKeeps == ASSUME IInv, Schedule \/ Confirmation PROVE IInv'
<1>1. /\ message = {} /\ user.state \in LaterStates
      /\ Current.created = 0 \/ user.state \in {"CREATE_SCHEDULE_CHOICE", "CREATE_SCHEDULE_TIME"}
  BY DEF Schedule, Scheduling, Confirmation, AskConfirmation, Say, LaterStates, ConfirmationStates
<1>2. Current \in Context /\ Current.created = 0 /\ (Current.later => Current.master = None)
  BY <1>1, CurrentType
<1>3. ASSUME NEW states, NEW next \in LaterStates, Say(states, next, Current)
      PROVE  IInv'
  BY <1>1, <1>2, <1>3, LaterAnswer
<1>4. ASSUME NEW states, NEW t \in Optional,
             Say(states, "CREATE_CONFIRMATION_SCHEDULE_CHOICE", [Current EXCEPT !.open = t])
      PROVE  IInv'
  <2> DEFINE next == [Current EXCEPT !.open = t]
  <2>1. /\ next \in Context /\ next.created = 0 /\ next.close = Current.close /\ next.date = Current.date
        /\ next.options = Current.options /\ next.amount = Current.amount
        /\ next.later = Current.later /\ next.master = Current.master
    BY <1>2 DEF Context
  <2>2. "CREATE_CONFIRMATION_SCHEDULE_CHOICE" \in LaterStates
        /\ Say(states, "CREATE_CONFIRMATION_SCHEDULE_CHOICE", next)
    BY <1>4 DEF LaterStates, ConfirmationStates
  <2> HIDE DEF next
  <2> QED
    BY <1>1, <1>2, <2>1, <2>2, LaterAnswer
<1>5. ASSUME NEW states, NEW t \in Times,
             Say(states, "CREATE_CONFIRMATION_DEADLINE", [Current EXCEPT !.confirm = t])
      PROVE  IInv'
  <2> DEFINE next == [Current EXCEPT !.confirm = t]
  <2>1. /\ next \in Context /\ next.created = 0 /\ next.close = Current.close /\ next.date = Current.date
        /\ next.options = Current.options /\ next.amount = Current.amount
        /\ next.later = Current.later /\ next.master = Current.master
    BY <1>2 DEF Context, Optional
  <2>2. "CREATE_CONFIRMATION_DEADLINE" \in LaterStates
        /\ Say(states, "CREATE_CONFIRMATION_DEADLINE", next)
    BY <1>5 DEF LaterStates, ConfirmationStates
  <2> HIDE DEF next
  <2> QED
    BY <1>1, <1>2, <2>1, <2>2, LaterAnswer
<1>6. {"CREATE_SCHEDULE_TIME", "CREATE_CONFIRMATION_SCHEDULE_TIME"} \subseteq LaterStates
      /\ 0 \in Optional /\ Times \subseteq Optional
  BY DEF LaterStates, ConfirmationStates, Optional
<1>7. CASE Schedule
  BY <1>3, <1>4, <1>6, <1>7 DEF Schedule
<1>8. CASE Confirmation
  <2>1. CASE AskConfirmation
    BY <1>1, <1>3, <1>6, <2>1 DEF AskConfirmation
  <2>2. CASE ~AskConfirmation
    BY <1>5, <1>8, <2>2 DEF Confirmation
  <2> QED
    BY <2>1, <2>2
<1> QED
  BY <1>7, <1>8

LEMMA DialogueKeeps == ASSUME IInv, Dialogue PROVE IInv'
<1>1. CASE Leave
  <2>1. Say(States, "IDLE", NoContext) /\ user.state # "IDLE" /\ "IDLE" \in States
    BY <1>1 DEF Leave, States
  <2>2. RowSound([state |-> "IDLE", context |-> NoContext])
    BY NoContextType DEF RowSound, MasterStates, ConfirmationStates
  <2> QED
    BY <2>1, <2>2, NoContextType, SayKeeps
<1>2. CASE RefusedMaster \/ RefusedSchedule
  <2>1. message = {} /\ user.state # "IDLE" /\ Refuse
    BY <1>2 DEF RefusedMaster, RefusedSchedule, Scheduling, MasterStates
  <2> QED
    BY <2>1, RefuseKeeps
<1> QED
  BY <1>1, <1>2, OpeningKeeps, AmountKeeps, QuestionKeeps, CapacityKeeps, MasterKeeps, PromoteKeeps,
     ScheduleKeeps DEF Dialogue

-----------------------------------------------------------------------------
(***************************************************************************)
(* The turn that creates the game                                          *)
(***************************************************************************)
LEMMA OthersKeep == ASSUME IInv, Tick \/ ChangeRole \/ OtherNotice PROVE IInv'
<1>1. /\ UNCHANGED <<backend, mirrored, failed, user, message, turn, games, jobs, told, answered, heard, ended>>
      /\ now' \in Nat /\ role' \in [People \cup {Self} -> Roles] /\ offered' \in BOOLEAN
  <2>1. CASE Tick
    BY <2>1 DEF Tick, IInv, TypeOK
  <2>2. CASE ChangeRole
    <3>1. role \in [People \cup {Self} -> Roles] /\ {"none", "moderator"} \subseteq Roles
      BY DEF IInv, TypeOK, Roles
    <3> QED
      BY <2>2, <3>1 DEF ChangeRole, IInv, TypeOK
  <2>3. CASE OtherNotice
    BY <2>3 DEF OtherNotice, IInv, TypeOK
  <2> QED
    BY <2>1, <2>2, <2>3
<1>2. TypeOK' /\ RowInv' /\ TurnInv'
  BY <1>1 DEF IInv, TypeOK, RowInv, TurnInv, Current
<1>3. JobsInv' /\ TellingInv' /\ OrdersCounted'
  BY <1>1 DEF IInv, JobsInv, JobSound, TellingInv, TellingSound, StillToBeTold, OrdersCounted, Ordered, Settled,
              Current
<1> QED
  BY <1>2, <1>3 DEF IInv

LEMMA SendKeeps == ASSUME IInv, SendCreating PROVE IInv'
<1>1. PICK d \in Optional : Creating(d) /\ message' = {[deadline |-> d]}
  BY DEF SendCreating
<1>2. /\ UNCHANGED <<backend, mirrored, failed, now, role, user, turn, games, jobs, told, answered, heard, ended>>
      /\ message = {} /\ message' # {} /\ message' \subseteq Message /\ turn.step = "none" /\ offered' = offered
  BY <1>1 DEF SendCreating, apart, Message, IInv, RowInv
<1>3. user.state \in ConfirmationStates
  BY <1>1 DEF Creating, ConfirmationStates, IInv, RowInv
<1>4. TypeOK' /\ RowInv' /\ TurnInv'
  BY <1>2, <1>3 DEF IInv, TypeOK, RowInv, TurnInv, Current
<1>5. JobsInv' /\ TellingInv' /\ OrdersCounted'
  BY <1>2 DEF IInv, JobsInv, JobSound, TellingInv, TellingSound, StillToBeTold, OrdersCounted, Ordered, Settled,
              Current
<1> QED
  BY <1>4, <1>5 DEF IInv

LEMMA PlannedType ==
    ASSUME IInv, message # {}, NEW m \in message
    PROVE  Planned(m.deadline) \in Context /\ PlanSound(Planned(m.deadline))
<1>1. PlanSound(Current)
  BY DEF IInv, RowInv, RowSound, Current
<1>2. m.deadline \in Optional /\ 0 \in Optional /\ Current \in Context
  BY CurrentType DEF IInv, TypeOK, Message, Optional
<1>3. Planned(m.deadline) \in Context
  BY <1>2 DEF Planned, Context
<1>4. LET plan == Planned(m.deadline) IN
      /\ plan.close = Current.close /\ plan.date = Current.date /\ plan.options = Current.options
      /\ plan.amount = Current.amount /\ plan.later = Current.later /\ plan.master = Current.master
  BY <1>2 DEF Planned, Context
<1> QED
  BY <1>1, <1>3, <1>4 DEF PlanSound

LEMMA BeginKeeps == ASSUME IInv, Begin PROVE IInv'
<1>1. /\ UNCHANGED <<backend, mirrored, failed, now, role, games, jobs, told, answered, heard>>
      /\ message # {} /\ turn.step = "none" /\ user.state \in ConfirmationStates
  BY DEF Begin, apart, IInv, RowInv
<1>2. PICK m \in message :
        \/ /\ message' = {} /\ ended' = ended \cup {"outdated"}
           /\ UNCHANGED <<user, offered, turn>>
        \/ /\ Current.created # 0
           /\ turn' = [step |-> "tell", context |-> Current, id |-> Current.created, offered |-> offered]
           /\ UNCHANGED <<user, offered, message, ended>>
        \/ /\ Current.created = 0
           /\ turn' = Starting(Planned(m.deadline))
           /\ UNCHANGED <<user, offered, message, ended>>
        \/ /\ Current.created = 0
           /\ message' = {} /\ ended' = ended \cup {"refused"}
           /\ user' = [state |-> "IDLE", context |-> NoContext] /\ offered' = FALSE
           /\ UNCHANGED turn
  BY DEF Begin
<1>3. Current \in Context /\ Current.created \in Ids \cup {0} /\ 0 \notin Ids /\ offered \in BOOLEAN /\ turn.id = 0
  BY <1>1, CurrentType DEF Context, IInv, TypeOK, TurnInv
<1>7. CASE /\ message' = {} /\ ended' = ended \cup {"outdated"}
           /\ UNCHANGED <<user, offered, turn>>
  <2>1. TypeOK' /\ RowInv' /\ TurnInv'
    BY <1>1, <1>7 DEF IInv, TypeOK, RowInv, TurnInv, Current
  <2>2. JobsInv' /\ OrdersCounted'
    BY <1>1, <1>7 DEF IInv, JobsInv, JobSound, OrdersCounted, Ordered, Settled, Current
  <2>3. TellingInv'
    BY <1>1, <1>7 DEF IInv, TellingInv, TellingSound, StillToBeTold
  <2> QED
    BY <2>1, <2>2, <2>3 DEF IInv
<1>4. CASE /\ Current.created # 0
           /\ turn' = [step |-> "tell", context |-> Current, id |-> Current.created, offered |-> offered]
           /\ UNCHANGED <<user, offered, message, ended>>
  <2>1. turn' \in Turn /\ turn'.step = "tell" /\ turn'.id = Current.created
    BY <1>3, <1>4 DEF Turn
  <2>2. turn'.id \in Ids /\ games[turn'.id].made
    BY <1>3, <1>4, <2>1 DEF IInv, RowInv
  <2>3. TypeOK' /\ RowInv' /\ TurnInv'
    BY <1>1, <1>4, <2>1, <2>2 DEF IInv, TypeOK, RowInv, TurnInv, Current
  <2>4. JobsInv' /\ OrdersCounted'
    BY <1>1, <1>4, <2>1 DEF IInv, JobsInv, JobSound, OrdersCounted, Ordered, Settled, Current
  <2>5. TellingInv'
    BY <1>1, <1>3, <1>4, <2>1 DEF IInv, TellingInv, TellingSound, StillToBeTold, Current
  <2> QED
    BY <2>3, <2>4, <2>5 DEF IInv
<1>5. CASE /\ Current.created = 0
           /\ turn' = Starting(Planned(m.deadline))
           /\ UNCHANGED <<user, offered, message, ended>>
  <2>1. turn' \in Turn /\ turn'.step = "submit" /\ turn'.id = 0 /\ PlanSound(turn'.context)
    BY <1>1, <1>3, <1>5, PlannedType DEF Turn, Starting
  <2>2. TypeOK' /\ RowInv' /\ TurnInv'
    BY <1>1, <1>5, <2>1 DEF IInv, TypeOK, RowInv, TurnInv, Current
  <2>3. JobsInv' /\ OrdersCounted'
    BY <1>1, <1>5, <2>1 DEF IInv, JobsInv, JobSound, OrdersCounted, Ordered, Settled, Current
  <2>4. TellingInv'
    BY <1>1, <1>3, <1>5, <2>1 DEF IInv, TellingInv, TellingSound, StillToBeTold, Current
  <2> QED
    BY <2>2, <2>3, <2>4 DEF IInv
<1>6. CASE /\ Current.created = 0
           /\ message' = {} /\ ended' = ended \cup {"refused"}
           /\ user' = [state |-> "IDLE", context |-> NoContext] /\ offered' = FALSE
           /\ UNCHANGED turn
  <2>1. user' \in User /\ RowSound(user') /\ user'.context.created = 0
    BY <1>6, NoContextType DEF User, States, RowSound, MasterStates, ConfirmationStates
  <2>2. TypeOK' /\ RowInv' /\ TurnInv'
    BY <1>1, <1>6, <2>1 DEF IInv, TypeOK, RowInv, TurnInv, Current
  <2>3. JobsInv' /\ Ordered' = Ordered
    BY <1>1 DEF IInv, JobsInv, JobSound, Ordered
  <2>4. Settled'
    BY <1>6 DEF Settled
  <2>5. OrdersCounted'
    BY <1>1, <2>3, <2>4 DEF IInv, OrdersCounted
  <2>6. TellingInv'
    BY <1>1, <1>3, <1>6 DEF IInv, TellingInv, TellingSound, StillToBeTold, Current
  <2> QED
    BY <2>2, <2>3, <2>5, <2>6 DEF IInv
<1> QED
  BY <1>2, <1>4, <1>5, <1>6, <1>7

LEMMA AnnounceKeeps == ASSUME IInv, Announce PROVE IInv'
<1>1. /\ turn.step = "submit" /\ turn' = [turn EXCEPT !.step = "invoke"] /\ offered' = FALSE
      /\ UNCHANGED <<backend, mirrored, failed, now, role, user, message, games, jobs, told, answered, heard, ended>>
  BY DEF Announce, apart
<1>2. turn' \in Turn /\ turn'.step = "invoke" /\ turn'.id = turn.id /\ turn'.context = turn.context
  BY <1>1 DEF IInv, TypeOK, Turn
<1>3. TypeOK' /\ RowInv' /\ TurnInv'
  BY <1>1, <1>2 DEF IInv, TypeOK, RowInv, TurnInv, Current
<1>4. JobsInv' /\ TellingInv' /\ OrdersCounted'
  BY <1>1, <1>2 DEF IInv, JobsInv, JobSound, TellingInv, TellingSound, StillToBeTold, OrdersCounted, Ordered, Settled,
              Current
<1> QED
  BY <1>3, <1>4 DEF IInv

\* The one step that orders an upload: the turn is the first to do so since the
\* last failure.
LEMMA SubmitKeeps == ASSUME IInv, Submit PROVE IInv'
<1>1. PICK i \in Ids, step \in {"uploading", "done"} :
        /\ jobs[i] = NoJob
        /\ step = "done" => mirrored
        /\ jobs' = [jobs EXCEPT ![i] = [NoJob EXCEPT !.step = step, !.plan = turn.context]]
        /\ turn' = IF mirrored THEN [turn EXCEPT !.step = "store", !.id = i] ELSE [turn EXCEPT !.step = "answer"]
  BY DEF Submit
<1>2. /\ UNCHANGED <<backend, mirrored, failed, now, role, user, message, games, told, answered, heard, ended>>
      /\ offered' = offered /\ turn.step \in {"submit", "invoke"} /\ Valid(turn.context) /\ PlanSound(turn.context) /\ turn.id = 0
      /\ Current.created = 0 /\ message # {} /\ user.state \in ConfirmationStates
  BY DEF Submit, apart, IInv, TurnInv, RowInv
<1> DEFINE job == [NoJob EXCEPT !.step = step, !.plan = turn.context]
<1>3. turn \in Turn /\ turn.context \in Context /\ jobs \in [Ids -> Job] /\ mirrored \in BOOLEAN
  BY DEF IInv, TypeOK, Turn
<1>4. job \in Job /\ job.step = step /\ job.plan = turn.context
  BY <1>3, NoContextType DEF NoJob, Job
<1> HIDE DEF job
<1>5. jobs' \in [Ids -> Job] /\ jobs'[i] = job /\ \A h \in Ids \ {i} : jobs'[h] = jobs[h]
  BY <1>1, <1>3, <1>4 DEF job
<1>6. /\ turn' \in Turn /\ turn'.context = turn.context
      /\ turn'.step = IF mirrored THEN "store" ELSE "answer"
      /\ turn'.id = IF mirrored THEN i ELSE 0
  BY <1>1, <1>2, <1>3 DEF Turn
<1>7. jobs[i].step = "none" /\ ~games[i].made
  BY <1>1 DEF NoJob, IInv, JobsInv, JobSound
<1>8. TypeOK' /\ RowInv'
  BY <1>2, <1>5, <1>6 DEF IInv, TypeOK, RowInv, Current
<1>9. TurnInv'
  <2>1. Current' = Current /\ games' = games /\ told' = told /\ turn'.step \in {"store", "answer"}
    BY <1>2, <1>6 DEF Current
  <2>2. CASE mirrored
    <3>1. turn'.step = "store" /\ turn'.id = i /\ jobs'[i].plan = turn'.context /\ jobs'[i].step # "none"
      BY <1>1, <1>4, <1>5, <1>6, <2>2
    <3> QED
      BY <1>2, <1>6, <2>1, <2>2, <3>1 DEF TurnInv
  <2>3. CASE ~mirrored
    <3>1. turn'.step = "answer" /\ turn'.id = 0
      BY <1>6, <2>3
    <3> QED
      BY <1>2, <2>1, <2>3, <3>1 DEF TurnInv
  <2> QED
    BY <2>2, <2>3
<1>10. JobsInv'
  <2> SUFFICES ASSUME NEW h \in Ids PROVE JobSound(h)'
    BY DEF JobsInv
  <2>1. JobSound(h)
    BY DEF IInv, JobsInv
  <2>2. CASE h = i
    BY <1>2, <1>4, <1>5, <1>7, <2>1, <2>2 DEF JobSound
  <2>3. CASE h # i
    BY <1>2, <1>5, <2>1, <2>3 DEF JobSound
  <2> QED
    BY <2>2, <2>3
<1>12. TellingInv'
  <2> SUFFICES ASSUME NEW h \in Ids PROVE TellingSound(h)'
    BY DEF TellingInv
  <2>1. TellingSound(h)
    BY DEF IInv, TellingInv
  <2>2. CASE h = i
    BY <1>2, <1>6, <1>7, <2>1, <2>2 DEF TellingSound, StillToBeTold
  <2>3. CASE h # i
    BY <1>2, <1>5, CurrentType, <2>1, <2>3 DEF TellingSound, StillToBeTold, Current
  <2> QED
    BY <2>2, <2>3
<1>11. OrdersCounted'
  <2>1. ~Settled /\ Settled'
    BY <1>2, <1>3, <1>6 DEF Settled, ConfirmationStates
  <2>2. Ordered' = Ordered \cup {i} /\ i \notin Ordered
    BY <1>4, <1>5, <1>7 DEF Ordered
  <2>3. IsFiniteSet(Ordered') /\ Cardinality(Ordered') = Cardinality(Ordered) + 1
    BY <2>2, FS_AddElement DEF IInv, OrdersCounted
  <2>4. Cardinality(Ordered) \in Nat
    BY FS_CardinalityType DEF IInv, OrdersCounted
  <2> QED
    BY <1>2, <2>1, <2>3, <2>4 DEF IInv, OrdersCounted
<1> QED
  BY <1>8, <1>9, <1>10, <1>11, <1>12 DEF IInv

LEMMA StoreKeeps == ASSUME IInv, Store PROVE IInv'
<1> DEFINE g == turn.id
<1>1. /\ turn.step = "store" /\ mirrored /\ g \in Ids /\ jobs[g].step # "none" /\ jobs[g].plan = turn.context
      /\ PlanSound(turn.context) /\ message # {} /\ Current.created = 0 /\ offered' = offered
      /\ UNCHANGED <<backend, mirrored, now, role, user, message, jobs, told, answered, heard, ended>>
  BY DEF Store, IInv, TurnInv, RowInv
<1>2. turn \in Turn /\ games \in [Ids -> [plan : Context, made : BOOLEAN]] /\ turn.context \in Context
  BY DEF IInv, TypeOK, Turn
<1>3. failed \in Nat /\ Cardinality(Ordered) \in Nat
  BY FS_CardinalityType DEF IInv, OrdersCounted
<1>4. Ordered' = Ordered
  BY <1>1 DEF Ordered
<1>5. CASE games[g].made /\ backend = "ydb" /\ turn' = NoTurn /\ failed' = failed + 1 /\ UNCHANGED games
  <2>1. turn' \in Turn /\ turn'.step = "none" /\ turn'.id = 0
    BY <1>5, NoContextType DEF NoTurn, Turn
  <2>2. TypeOK' /\ RowInv' /\ TurnInv'
    BY <1>1, <1>5, <2>1 DEF IInv, TypeOK, RowInv, TurnInv, Current
  <2>3. JobsInv'
    BY <1>1, <1>5 DEF IInv, JobsInv, JobSound
  <2>4. OrdersCounted'
    BY <1>3, <1>4, <1>5 DEF IInv, OrdersCounted
  <2>5. TellingInv'
    BY <1>1, <1>3, <1>5 DEF IInv, TellingInv, TellingSound, StillToBeTold
  <2> QED
    BY <2>2, <2>3, <2>4, <2>5 DEF IInv
<1>6. ASSUME turn' = [turn EXCEPT !.step = AfterStore(turn.context)], failed' = failed,
             games' \in [Ids -> [plan : Context, made : BOOLEAN]],
             games'[g].made, games'[g].plan = turn.context, \A i \in Ids \ {g} : games'[i] = games[i],
             games[g].made => games'[g] = games[g]
      PROVE  IInv'
  <2>1. turn' \in Turn /\ turn'.id = g /\ turn'.context = turn.context /\ turn'.step = AfterStore(turn.context)
        /\ turn'.step \in {"answer", "persist"}
    BY <1>2, <1>6 DEF AfterStore, Turn
  <2>2. TypeOK' /\ RowInv'
    <3>1. Current.created # 0 => Current.created \in Ids
      BY CurrentType DEF Context
    <3> QED
      BY <1>1, <1>6, <2>1, <3>1 DEF IInv, TypeOK, RowInv, Current
  <2>3. turn'.step = "answer" => turn.context.master \notin People
    BY <1>1, <2>1, GameCreationAssumption DEF AfterStore, PlanSound
  <2>4. TurnInv'
    BY <1>1, <1>6, <2>1, <2>3 DEF TurnInv, Current
  <2>5. ASSUME NEW i \in Ids PROVE JobSound(i)'
    <3>1. JobSound(i)
      BY DEF IInv, JobsInv
    <3>2. CASE i = g
      BY <1>1, <1>6, <3>1, <3>2 DEF JobSound
    <3>3. CASE i # g
      BY <1>1, <1>6, <3>1, <3>3 DEF JobSound
    <3> QED
      BY <3>2, <3>3
  <2>6. Settled /\ Settled'
    BY <1>1, <2>1 DEF Settled
  <2>7. OrdersCounted'
    BY <1>4, <1>6, <2>6 DEF IInv, OrdersCounted
  <2>8. TellingInv'
    BY <1>1, <1>6, <2>1 DEF IInv, TellingInv, TellingSound, StillToBeTold, Current
  <2> QED
    BY <2>2, <2>4, <2>5, <2>7, <2>8 DEF IInv, JobsInv
<1>7. CASE /\ ~games[g].made
           /\ games' = [games EXCEPT ![g] = MadeBy(turn.context)]
           /\ turn' = [turn EXCEPT !.step = AfterStore(turn.context)]
           /\ UNCHANGED failed
  <2>1. /\ games' \in [Ids -> [plan : Context, made : BOOLEAN]] /\ games'[g] = MadeBy(turn.context)
        /\ \A i \in Ids \ {g} : games'[i] = games[i]
    BY <1>1, <1>2, <1>7 DEF MadeBy
  <2>2. games'[g].made /\ games'[g].plan = turn.context
    BY <2>1 DEF MadeBy
  <2> QED
    BY <1>6, <1>7, <2>1, <2>2
<1>8. CASE games[g].made /\ turn' = [turn EXCEPT !.step = AfterStore(turn.context)] /\ UNCHANGED <<games, failed>>
  <2>1. games[g].plan = turn.context
    BY <1>1, <1>8 DEF IInv, JobsInv, JobSound
  <2> QED
    BY <1>2, <1>6, <1>8, <2>1
<1> QED
  BY <1>5, <1>7, <1>8 DEF Store

LEMMA PersistKeeps == ASSUME IInv, Persist PROVE IInv'
<1>1. /\ turn.step = "persist" /\ turn.id \in Ids /\ games[turn.id].made /\ PlanSound(turn.context) /\ mirrored
      /\ message # {} /\ user.state \in ConfirmationStates
      /\ user' = [user EXCEPT !.context = [turn.context EXCEPT !.created = turn.id]]
      /\ turn' = [turn EXCEPT !.step = "tell"]
      /\ UNCHANGED <<backend, mirrored, failed, now, role, message, games, jobs, told, answered, heard, ended>>
  BY DEF Persist, apart, IInv, TurnInv, RowInv
<1>2. turn \in Turn /\ turn.context \in Context /\ user \in User /\ offered' \in BOOLEAN /\ Current.created = 0
  BY DEF IInv, TypeOK, Turn, Persist, TurnInv
<1> DEFINE next == [turn.context EXCEPT !.created = turn.id]
<1>3. next \in Context /\ next.created = turn.id /\ next.close = turn.context.close /\ next.date = turn.context.date
      /\ next.options = turn.context.options /\ next.amount = turn.context.amount
      /\ next.later = turn.context.later /\ next.master = turn.context.master
  BY <1>1, <1>2 DEF Context
<1>4. user' \in User /\ user'.state = user.state /\ user'.context = next
  BY <1>1, <1>2, <1>3 DEF User
<1> HIDE DEF next
<1>5. RowSound(user')
  BY <1>1, <1>3, <1>4 DEF RowSound, PlanSound, ConfirmationStates
<1>6. turn' \in Turn /\ turn'.step = "tell" /\ turn'.id = turn.id
  BY <1>1, <1>2 DEF Turn
<1>7. TypeOK' /\ RowInv' /\ TurnInv'
  BY <1>1, <1>2, <1>3, <1>4, <1>5, <1>6 DEF IInv, TypeOK, RowInv, TurnInv, Current
<1>8. JobsInv' /\ Ordered' = Ordered /\ Settled /\ Settled'
  BY <1>1, <1>6 DEF IInv, JobsInv, JobSound, Ordered, Settled
<1>9. TellingInv'
  BY <1>1, <1>2, <1>6, CurrentType DEF IInv, TellingInv, TellingSound, StillToBeTold
<1> QED
  BY <1>1, <1>7, <1>8, <1>9 DEF IInv, OrdersCounted

LEMMA TellKeeps == ASSUME IInv, Tell PROVE IInv'
<1>1. /\ turn.step = "tell" /\ turn.id \in Ids /\ games[turn.id].made
      /\ told' = told \cup {turn.id} /\ turn' = [turn EXCEPT !.step = "answer"]
      /\ UNCHANGED <<backend, mirrored, failed, now, role, user, offered, message, games, jobs, answered, heard, ended>>
  BY DEF Tell, apart, IInv, TurnInv
<1>2. turn' \in Turn /\ turn'.step = "answer" /\ turn'.id = turn.id
  BY <1>1 DEF IInv, TypeOK, Turn
<1>3. TypeOK' /\ RowInv' /\ TurnInv'
  BY <1>1, <1>2 DEF IInv, TypeOK, RowInv, TurnInv, Current
<1>4. JobsInv' /\ Ordered' = Ordered /\ Settled /\ Settled'
  BY <1>1, <1>2 DEF IInv, JobsInv, JobSound, Ordered, Settled
<1>5. TellingInv'
  BY <1>1, <1>2 DEF IInv, TellingInv, TellingSound, StillToBeTold, Current
<1> QED
  BY <1>1, <1>3, <1>4, <1>5 DEF IInv, OrdersCounted

LEMMA ReplyKeeps == ASSUME IInv, Answer PROVE IInv'
<1>1. /\ turn.step = "answer"
      /\ user' = [state |-> "IDLE", context |-> NoContext] /\ message' = {} /\ turn' = NoTurn
      /\ answered' = answered \cup ({turn.id} \ {0}) /\ offered' = FALSE
      /\ UNCHANGED <<backend, mirrored, failed, now, role, games, jobs, told, heard, ended>>
  BY DEF Answer, apart
<1>2. turn.id \in Ids \cup {0} /\ (turn.id # 0 =>
        games[turn.id].made /\ (games[turn.id].plan.master \in People => turn.id \in told))
  BY <1>1 DEF IInv, TypeOK, Turn, TurnInv
<1>3. user' \in User /\ RowSound(user') /\ user'.context.created = 0
  BY <1>1, NoContextType DEF User, States, RowSound, MasterStates, ConfirmationStates
<1>4. turn' \in Turn /\ turn'.step = "none" /\ turn'.id = 0
  BY <1>1, NoContextType DEF NoTurn, Turn
<1>5. TypeOK' /\ RowInv' /\ TurnInv'
  BY <1>1, <1>2, <1>3, <1>4 DEF IInv, TypeOK, RowInv, TurnInv, Current
<1>6. JobsInv'
  BY <1>1, <1>2 DEF IInv, JobsInv, JobSound
<1>7. Ordered' = Ordered /\ Settled /\ Settled'
  BY <1>1 DEF Ordered, Settled
<1>8. TellingInv'
  <2> SUFFICES ASSUME NEW i \in Ids PROVE TellingSound(i)'
    BY DEF TellingInv
  <2>1. TellingSound(i) /\ JobSound(i) /\ i # 0
    BY CurrentType DEF IInv, TellingInv, JobsInv
  <2>2. Current.created = i => turn.id = i
    BY <1>1, <2>1 DEF IInv, TurnInv
  <2>3. turn.id = i /\ jobs[i].plan.master \in People => i \in told
    BY <1>2, <2>1 DEF JobSound
  <2> QED
    BY <1>1, <2>1, <2>2, <2>3 DEF TellingSound, StillToBeTold
<1> QED
  BY <1>1, <1>5, <1>6, <1>7, <1>8 DEF IInv, OrdersCounted

LEMMA FailKeeps == ASSUME IInv, FailTurn PROVE IInv'
<1>1. /\ turn.step # "none" /\ turn' = NoTurn
      /\ failed' = IF Current.created = 0 THEN failed + 1 ELSE failed
      /\ UNCHANGED <<backend, mirrored, now, role, user, offered, message, games, jobs, told, answered, heard, ended>>
  BY DEF FailTurn
<1>2. turn' \in Turn /\ turn'.step = "none" /\ turn'.id = 0 /\ message # {}
  BY <1>1, NoContextType DEF NoTurn, Turn, IInv, RowInv
<1>3. TypeOK' /\ RowInv' /\ TurnInv'
  BY <1>1, <1>2 DEF IInv, TypeOK, RowInv, TurnInv, Current
<1>4. JobsInv' /\ Ordered' = Ordered
  BY <1>1 DEF IInv, JobsInv, JobSound, Ordered
<1>5. failed \in Nat /\ Cardinality(Ordered) \in Nat
  BY FS_CardinalityType DEF IInv, OrdersCounted
<1>6. CASE Current.created = 0
  <2>1. TellingInv'
    BY <1>1, <1>5, <1>6 DEF IInv, TellingInv, TellingSound, StillToBeTold
  <2> QED
    BY <1>1, <1>3, <1>4, <1>5, <1>6, <2>1 DEF IInv, OrdersCounted
<1>7. CASE Current.created # 0
  <2>1. Settled'
    BY <1>1, <1>7 DEF Settled, Current
  <2>2. turn.id = Current.created
    BY <1>1, <1>7 DEF IInv, TypeOK, Turn, TurnInv
  <2>3. TellingInv'
    BY <1>1, <1>7, <2>2 DEF IInv, TellingInv, TellingSound, StillToBeTold, Current
  <2> QED
    BY <1>1, <1>3, <1>4, <1>7, <2>1, <2>3 DEF IInv, OrdersCounted
<1> QED
  BY <1>6, <1>7

-----------------------------------------------------------------------------
(***************************************************************************)
(* Uploads and completions                                                 *)
(***************************************************************************)
\* A step of job i that makes no game.
LEMMA JobStepKeeps ==
    ASSUME IInv, NEW i \in Ids, NEW s \in {"due", "absent", "present", "tell", "report", "done"},
           NEW job \in Job, jobs' = [jobs EXCEPT ![i] = job],
           job.step = s, job.plan = jobs[i].plan, jobs[i].step \notin {"none", "done"},
           UNCHANGED <<backend, mirrored, failed, now, role, user, message, turn, answered, games>>,
           ended' \subseteq {"refused", "failed", "outdated"}, ended \subseteq ended', offered' \in BOOLEAN,
           heard' = heard \/ (s = "done" /\ heard' = heard \cup {i}), told \subseteq told', told' \subseteq Ids,
           ~mirrored /\ games[i].made /\ ~job.repeated =>
             ~jobs[i].repeated /\ (jobs[i].step = "tell" => s = "tell" \/ i \in told')
    PROVE  IInv'
<1>1. jobs \in [Ids -> Job]
  BY DEF IInv, TypeOK
<1>2. jobs' \in [Ids -> Job] /\ jobs'[i] = job /\ \A h \in Ids \ {i} : jobs'[h] = jobs[h]
  BY <1>1
<1>3. \A h \in Ids : jobs'[h].plan = jobs[h].plan /\ (jobs'[h].step = "none" <=> jobs[h].step = "none")
  BY <1>2
<1>4. TypeOK' /\ RowInv'
  BY <1>2 DEF IInv, TypeOK, RowInv, Current
<1>5. TurnInv'
  BY <1>3 DEF IInv, TurnInv, Current
<1>6. JobsInv'
  <2> SUFFICES ASSUME NEW h \in Ids PROVE JobSound(h)'
    BY DEF JobsInv
  <2>1. JobSound(h)
    BY DEF IInv, JobsInv
  <2>2. CASE h = i
    BY <1>2, <1>3, <2>1, <2>2 DEF JobSound
  <2>3. CASE h # i
    BY <1>2, <1>3, <2>1, <2>3 DEF JobSound
  <2> QED
    BY <2>2, <2>3
<1>7. Ordered' = Ordered /\ Settled' = Settled
  BY <1>3 DEF Ordered, Settled, Current
<1>8. TellingInv'
  <2> SUFFICES ASSUME NEW h \in Ids PROVE TellingSound(h)'
    BY DEF TellingInv
  <2>1. TellingSound(h)
    BY DEF IInv, TellingInv
  <2>2. CASE h = i
    BY <1>2, <1>3, <2>1, <2>2 DEF TellingSound, StillToBeTold, Current
  <2>3. CASE h # i
    BY <1>2, <1>3, <2>1, <2>3 DEF TellingSound, StillToBeTold, Current
  <2> QED
    BY <2>2, <2>3
<1> QED
  BY <1>4, <1>5, <1>6, <1>7, <1>8 DEF IInv, OrdersCounted

\* The completion that finds no game makes it.
LEMMA MakingKeeps ==
    ASSUME IInv, NEW i \in Ids, CreateCompleted(i), ~games[i].made
    PROVE  IInv'
<1>1. /\ jobs[i].step = "absent"
      /\ games' = [games EXCEPT ![i] = MadeBy(jobs[i].plan)]
      /\ jobs' = [jobs EXCEPT ![i].step = IF mirrored THEN "done" ELSE "tell"]
      /\ UNCHANGED <<backend, mirrored, failed, now, role, user, message, turn, answered, told, heard, offered, ended>>
  BY DEF CreateCompleted, Completing, apart
<1>2. jobs \in [Ids -> Job] /\ games \in [Ids -> [plan : Context, made : BOOLEAN]] /\ jobs[i].plan \in Context
  BY DEF IInv, TypeOK, Job
<1>3. /\ games' \in [Ids -> [plan : Context, made : BOOLEAN]] /\ games'[i] = MadeBy(jobs[i].plan)
      /\ \A h \in Ids \ {i} : games'[h] = games[h]
  BY <1>1, <1>2 DEF MadeBy
<1>4. games'[i].made /\ games'[i].plan = jobs[i].plan
  BY <1>3 DEF MadeBy
<1>5. /\ jobs' \in [Ids -> Job] /\ jobs'[i].plan = jobs[i].plan /\ jobs'[i].step # "none"
      /\ ~mirrored => jobs'[i].step = "tell"
      /\ \A h \in Ids \ {i} : jobs'[h] = jobs[h]
  BY <1>1, <1>2 DEF Job
<1>6. \A h \in Ids : games[h].made => games'[h] = games[h]
  BY <1>3
<1>7. TypeOK' /\ RowInv'
  BY <1>1, <1>3, <1>5, <1>6, CurrentType DEF IInv, TypeOK, RowInv, Current, Context
<1>8. TurnInv'
  <2>1. turn.id \in Ids \cup {0}
    BY DEF IInv, TypeOK, Turn
  <2> QED
    BY <1>1, <1>5, <1>6, <2>1 DEF IInv, TurnInv, Current
<1>9. JobsInv'
  <2> SUFFICES ASSUME NEW h \in Ids PROVE JobSound(h)'
    BY DEF JobsInv
  <2>1. JobSound(h)
    BY DEF IInv, JobsInv
  <2>2. CASE h = i
    BY <1>1, <1>4, <1>5, <2>1, <2>2 DEF JobSound
  <2>3. CASE h # i
    BY <1>1, <1>3, <1>5, <2>1, <2>3 DEF JobSound
  <2> QED
    BY <2>2, <2>3
<1>10. Ordered' = Ordered /\ Settled' = Settled
  BY <1>1, <1>5 DEF Ordered, Settled, Current
<1>11. TellingInv'
  <2> SUFFICES ASSUME NEW h \in Ids PROVE TellingSound(h)'
    BY DEF TellingInv
  <2>1. TellingSound(h)
    BY DEF IInv, TellingInv
  <2>2. CASE h = i
    BY <1>1, <1>5, <2>1, <2>2 DEF TellingSound, StillToBeTold, Current
  <2>3. CASE h # i
    BY <1>1, <1>5, <2>1, <2>3 DEF TellingSound, StillToBeTold, Current
  <2> QED
    BY <2>2, <2>3
<1> QED
  BY <1>1, <1>7, <1>8, <1>9, <1>10, <1>11 DEF IInv, OrdersCounted

LEMMA HandlingKeeps ==
    ASSUME IInv, NEW i \in Ids, HandleJob(i) \/ FailCompletion(i)
    PROVE  IInv'
<1>1. jobs \in [Ids -> Job] /\ jobs[i] \in Job /\ told \subseteq Ids /\ ended \subseteq {"refused", "failed", "outdated"}
      /\ JobSound(i) /\ offered \in BOOLEAN
  BY DEF IInv, TypeOK, JobsInv
<1>2. CASE UploadEnds(i)
  <2>1. PICK success \in BOOLEAN : jobs' = [jobs EXCEPT ![i].step = "due", ![i].success = success]
    BY <1>2 DEF UploadEnds
  <2> DEFINE job == [jobs[i] EXCEPT !.step = "due", !.success = success]
  <2>2. jobs' = [jobs EXCEPT ![i] = job] /\ job \in Job /\ job.step = "due" /\ job.plan = jobs[i].plan
        /\ job.repeated = jobs[i].repeated
    BY <1>1, <2>1 DEF Job
  <2> HIDE DEF job
  <2> QED
    BY <1>1, <1>2, <2>2, JobStepKeeps DEF UploadEnds, Completing, apart
<1>3. ASSUME NEW s \in {"absent", "present", "done"}, jobs[i].step = "due",
             jobs' = [jobs EXCEPT ![i].step = s],
             UNCHANGED <<backend, mirrored, failed, now, role, user, message, turn, answered, games, told, heard>>,
             ended' \subseteq {"refused", "failed", "outdated"}, ended \subseteq ended', offered' \in BOOLEAN
      PROVE  IInv'
  <2> DEFINE job == [jobs[i] EXCEPT !.step = s]
  <2>1. jobs' = [jobs EXCEPT ![i] = job] /\ job \in Job /\ job.step = s /\ job.plan = jobs[i].plan
        /\ job.repeated = jobs[i].repeated
    BY <1>1, <1>3 DEF Job
  <2> HIDE DEF job
  <2>2. /\ s \in {"due", "absent", "present", "tell", "report", "done"} /\ jobs[i].step \notin {"none", "done"}
        /\ ended' \subseteq {"refused", "failed", "outdated"} /\ told \subseteq told' /\ told' \subseteq Ids
        /\ ~mirrored /\ games[i].made /\ ~job.repeated =>
             ~jobs[i].repeated /\ (jobs[i].step = "tell" => s = "tell" \/ i \in told')
    BY <1>1, <1>3, <2>1
  <2> QED
    BY <1>1, <1>3, <2>1, <2>2, JobStepKeeps
<1>4. CASE Complete(i)
  <2>1. /\ jobs[i].step = "due"
        /\ UNCHANGED <<backend, mirrored, failed, now, role, user, message, turn, answered, games, told, heard>>
        /\ ended' \subseteq {"refused", "failed", "outdated"} /\ ended \subseteq ended' /\ offered' \in BOOLEAN
    BY <1>1, <1>4 DEF Complete, Completing, apart
  <2>2. \E s \in {"absent", "present", "done"} : jobs' = [jobs EXCEPT ![i].step = s]
    BY <1>4 DEF Complete
  <2> QED
    BY <1>3, <2>1, <2>2
<1>5. ASSUME NEW s \in {"due", "report", "done"}, jobs[i].step \notin {"none", "tell", "done"},
             jobs' = [jobs EXCEPT ![i].step = s], offered' \in BOOLEAN,
             heard' = heard \/ (s = "done" /\ heard' = heard \cup {i}),
             UNCHANGED <<backend, mirrored, failed, now, role, user, message, turn, answered, games, told, ended>>
      PROVE  IInv'
  <2> DEFINE job == [jobs[i] EXCEPT !.step = s]
  <2>1. jobs' = [jobs EXCEPT ![i] = job] /\ job \in Job /\ job.step = s /\ job.plan = jobs[i].plan
        /\ job.repeated = jobs[i].repeated
    BY <1>1, <1>5 DEF Job
  <2> HIDE DEF job
  <2>2. /\ s \in {"due", "absent", "present", "tell", "report", "done"} /\ jobs[i].step \notin {"none", "done"}
        /\ ended' \subseteq {"refused", "failed", "outdated"} /\ told \subseteq told' /\ told' \subseteq Ids
        /\ ~mirrored /\ games[i].made /\ ~job.repeated =>
             ~jobs[i].repeated /\ (jobs[i].step = "tell" => s = "tell" \/ i \in told')
    BY <1>1, <1>5, <2>1
  <2> QED
    BY <1>1, <1>5, <2>1, <2>2, JobStepKeeps
<1>6. CASE CreateCompleted(i)
  <2>1. CASE games[i].made
    BY <1>1, <1>5, <1>6, <2>1 DEF CreateCompleted, Completing, apart
  <2> QED
    BY <1>6, <2>1, MakingKeeps
<1>7. CASE LinkCompleted(i)
  <2>1. \E s \in {"report", "done"} : jobs' = [jobs EXCEPT ![i].step = s]
    BY <1>7 DEF LinkCompleted
  <2> QED
    BY <1>1, <1>5, <1>7, <2>1 DEF LinkCompleted, Completing, apart
<1>8. CASE TellCompleted(i)
  <2> DEFINE job == [jobs[i] EXCEPT !.step = "report"]
  <2>1. jobs' = [jobs EXCEPT ![i] = job] /\ job \in Job /\ job.step = "report" /\ job.plan = jobs[i].plan
        /\ job.repeated = jobs[i].repeated
    BY <1>1, <1>8 DEF TellCompleted, Job
  <2> HIDE DEF job
  <2>2. /\ UNCHANGED <<backend, mirrored, failed, now, role, user, message, turn, answered, games, heard, offered, ended>>
        /\ told \subseteq told' /\ told' \subseteq Ids /\ i \in told' /\ jobs[i].step = "tell"
    BY <1>1, <1>8 DEF TellCompleted, Completing, apart
  <2> QED
    BY <1>1, <2>1, <2>2, JobStepKeeps
<1>9. CASE ReportCompleted(i)
  BY <1>5, <1>9 DEF ReportCompleted, Completing, apart
<1>10. CASE FailCompletion(i)
  <2> DEFINE job == [jobs[i] EXCEPT !.step = "due", !.repeated = TRUE]
  <2>1. jobs' = [jobs EXCEPT ![i] = job] /\ job \in Job /\ job.step = "due" /\ job.plan = jobs[i].plan
        /\ job.repeated
    BY <1>1, <1>10 DEF FailCompletion, Job
  <2> HIDE DEF job
  <2> QED
    BY <1>1, <1>10, <2>1, JobStepKeeps DEF FailCompletion, Completing, apart
<1> QED
  BY <1>2, <1>4, <1>6, <1>7, <1>8, <1>9, <1>10 DEF HandleJob

-----------------------------------------------------------------------------
(***************************************************************************)
(* The theorems                                                            *)
(***************************************************************************)
LEMMA InitIInv == Init => IInv
<1> SUFFICES ASSUME Init PROVE IInv
  OBVIOUS
<1>1. PICK start \in Starts : user = start.user /\ role = start.role
  BY DEF Init
<1>2. /\ backend \in Backends /\ mirrored \in BOOLEAN /\ now = 0 /\ message = {} /\ turn = NoTurn
      /\ games = [i \in Ids |-> NoGame] /\ jobs = [i \in Ids |-> NoJob]
      /\ told = {} /\ answered = {} /\ heard = {} /\ ended = {} /\ failed = 0 /\ offered \in BOOLEAN
  BY GameCreationAssumption DEF Init
<1>3. user \in User /\ RowSound(user) /\ user.context.created = 0 /\ role \in [People \cup {Self} -> Roles]
  BY <1>1, StartsAssumption
<1>4. turn \in Turn /\ turn.step = "none" /\ turn.id = 0
  BY <1>2, NoContextType DEF NoTurn, Turn
<1>5. NoGame \in [plan : Context, made : BOOLEAN] /\ NoJob \in Job /\ ~NoGame.made /\ NoJob.step = "none"
  BY NoContextType DEF NoGame, NoJob, Job
<1>6. TypeOK
  BY <1>2, <1>3, <1>4, <1>5 DEF TypeOK
<1>7. RowInv /\ TurnInv
  BY <1>2, <1>3, <1>4 DEF RowInv, TurnInv, Current
<1>8. JobsInv /\ TellingInv
  BY <1>2, <1>5 DEF JobsInv, JobSound, TellingInv, TellingSound
<1>9. OrdersCounted
  <2>1. Ordered = {}
    BY <1>2, <1>5 DEF Ordered
  <2> QED
    BY <1>2, <2>1, FS_EmptySet DEF OrdersCounted
<1> QED
  BY <1>6, <1>7, <1>8, <1>9 DEF IInv

LEMMA NextIInv == IInv /\ [Next]_vars => IInv'
<1> SUFFICES ASSUME IInv, [Next]_vars PROVE IInv'
  OBVIOUS
<1>1. CASE Next
  <2>1. CASE Tick \/ ChangeRole \/ OtherNotice \/ Dialogue \/ SendCreating \/ FailTurn
    BY <2>1, OthersKeep, DialogueKeeps, SendKeeps, FailKeeps
  <2>2. CASE HandleMessage
    BY <2>2, BeginKeeps, AnnounceKeeps, SubmitKeeps, StoreKeeps, PersistKeeps, TellKeeps, ReplyKeeps DEF HandleMessage
  <2>3. CASE \E i \in Ids : HandleJob(i) \/ FailCompletion(i)
    BY <2>3, HandlingKeeps
  <2> QED
    BY <1>1, <2>1, <2>2, <2>3 DEF Next
<1>2. CASE UNCHANGED vars
  <2>1. UNCHANGED <<backend, mirrored, now, role, user, offered, message, turn, games, jobs, told, answered, heard, ended, failed>>
    BY <1>2 DEF vars
  <2>2. TypeOK' /\ RowInv' /\ TurnInv'
    BY <2>1 DEF IInv, TypeOK, RowInv, TurnInv, Current
  <2>3. JobsInv' /\ TellingInv' /\ OrdersCounted'
    BY <2>1 DEF IInv, JobsInv, JobSound, TellingInv, TellingSound, StillToBeTold, OrdersCounted, Ordered, Settled,
                Current
  <2> QED
    BY <2>2, <2>3 DEF IInv
<1> QED
  BY <1>1, <1>2

\* The plan of a game passes unchanged from the dialogue to the turn, its
\* upload and the game, however the game comes into being; and each upload that
\* was ordered is accounted for by a turn that failed or by the one that did not.
THEOREM Invariant == Spec => []IInv
<1>1. Init => IInv
  BY InitIInv
<1>2. IInv /\ [Next]_vars => IInv'
  BY NextIInv
<1> QED
  BY <1>1, <1>2, PTL DEF Spec

\* A game's stages follow each other and its places are those of its answers,
\* whatever the route through the dialogue and whoever makes the game (the
\* checks of the dialogue, create_event).
THEOREM PlansAreInOrder == Spec => []PlanInOrder
<1>1. IInv => PlanInOrder
  BY DEF IInv, JobsInv, JobSound, PlanInOrder, PlanSound, Made
<1> QED
  BY <1>1, Invariant, PTL

\* A dialogue makes one game, and one more for each turn that failed before the
\* game was in the requester's row; completions make none of their own.
THEOREM OneGameIsMade == Spec => []OneGamePerDialogue
<1>1. IInv => OneGamePerDialogue
  <2> SUFFICES ASSUME IInv PROVE OneGamePerDialogue
    OBVIOUS
  <2>1. Made \subseteq Ordered
    BY DEF IInv, JobsInv, JobSound, Made, Ordered
  <2>2. IsFiniteSet(Ordered) /\ Cardinality(Ordered) <= failed + 1 /\ failed \in Nat
    BY DEF IInv, OrdersCounted
  <2>3. IsFiniteSet(Made) /\ Cardinality(Made) <= Cardinality(Ordered)
    BY <2>1, <2>2, FS_Subset
  <2>4. Cardinality(Made) \in Nat /\ Cardinality(Ordered) \in Nat
    BY <2>2, <2>3, FS_CardinalityType
  <2> QED
    BY <2>2, <2>3, <2>4 DEF OneGamePerDialogue
<1> QED
  BY <1>1, Invariant, PTL

\* The dialogue reports a game to the requester after its master has been told,
\* also if the turn failed in between.  If the requester hears of it from a
\* completion first, that completion was interrupted, or the turn that made the
\* game still has the telling before it, unless it failed before the game was in
\* the row or the press was refused (_finish_game_creation, _event_created).
THEOREM MastersAreTold == Spec => []MasterIsTold
<1>1. IInv => MasterIsTold
  <2> SUFFICES ASSUME IInv, NEW i \in Made, games[i].plan.master \in People
               PROVE  /\ i \in answered => i \in told
                      /\ i \in heard /\ i \notin told => IF mirrored THEN StillToBeTold(i) ELSE jobs[i].repeated
    BY DEF MasterIsTold
  <2>1. JobSound(i) /\ TellingSound(i) /\ games[i].made
    BY DEF IInv, JobsInv, TellingInv, Made
  <2> QED
    BY <2>1 DEF JobSound, TellingSound
<1> QED
  BY <1>1, Invariant, PTL
================================================================================
