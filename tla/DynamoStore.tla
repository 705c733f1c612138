------------------------------ MODULE DynamoStore ------------------------------
(***************************************************************************)
(* The repositories on DynamoDB (adapters/aws/dynamodb.py).  A call loads  *)
(* the items it may need, one request after the other; runs the method of  *)
(* the in-memory repository on them; and commits the difference in one     *)
(* transaction.  Every item carries `_revision`: the transaction asks that *)
(* each item it replaces or deletes still has the revision it was loaded   *)
(* with, and that each new item does not exist.  A cancelled transaction   *)
(* is tried again from the beginning.                                      *)
(*                                                                         *)
(* Signup tokens and Telegram chats are unique by items of their own       *)
(* ("lock:..."), put and deleted by the transaction that changes the game. *)
(* The chat index that bind_telegram_chat asks is a copy that lags behind. *)
(*                                                                         *)
(* Every call is a process; calls of all instances of the functions run    *)
(* beside each other.  An absent item has revision 0.  `held` is the row   *)
(* a dialogue has read before it saves it (conversation_core.py).          *)
(***************************************************************************)
EXTENDS MemoryRepositories, FiniteSets

CONSTANTS
    Process,    \* the calls
    EventCalls, \* what may be called of the event repository
    Workloads,  \* what the processes may call: functions from Process
    Stores,     \* contents of the tables an instance begins with
    Attempts,   \* attempts of one call: 4
    MaxActions  \* actions of one transaction: 100

EventKeys == {"event"} \X Games
LeaderKeys == {"leader"} \X Games \X People
RegistrationKeys == {"registration"} \X Games \X People
UserKeys == {"user"} \X People

Key == EventKeys \cup LeaderKeys \cup RegistrationKeys \cup UserKeys

Values == Tokens \cup Chats

Document == Event \cup {Leader} \cup Registration \cup User \cup {NoDoc}

Item == [rev : Nat, doc : Document]

Absent == [rev |-> 0, doc |-> NoDoc]

\* Variant: the revision says only that the item is there.
PutItemUncounted(item, doc) == IF doc = NoDoc THEN Absent ELSE [rev |-> 1, doc |-> doc]

\* What a transaction leaves of an item it writes.  An item put after a deletion
\* starts again with revision 1.
PutItem(item, doc) == IF doc = NoDoc THEN Absent ELSE [rev |-> item.rev + 1, doc |-> doc]

\* The unique values of an item.
UniqueValues(doc) == IF doc.kind = "event" THEN {doc.token, doc.chat} \ {None} ELSE {}

\* The owner of each value's lock, as the rows have it.
Owners(docs) ==
    [v \in Values |->
        IF \E g \in Games : v \in UniqueValues(docs[<<"event", g>>])
        THEN CHOOSE g \in Games : v \in UniqueValues(docs[<<"event", g>>])
        ELSE None]

\* What the unique values of the games' rows are worth: no two games share one.
Unshared(docs) ==
    \A g, h \in Games :
        g # h => UniqueValues(docs[<<"event", g>>]) \cap UniqueValues(docs[<<"event", h>>]) = {}

ASSUME StoreAssumption ==
    /\ Attempts \in Nat \ {0} /\ MaxActions \in Nat
    /\ \A docs \in Stores :
        /\ docs \in [Key -> Document] /\ Unshared(docs)
        /\ \A g \in Games : docs[<<"event", g>>] \in Event \cup {NoDoc}

ASSUME CallAssumption ==
    /\ \A call \in EventCalls : EventCall(call)
    /\ \A calling \in Workloads :
        /\ DOMAIN calling = Process
        /\ \A c \in Process :
            calling[c].method \in EventMethods => calling[c] \in EventCalls

VARIABLES
    store,    \* the items of all tables
    lock,     \* owner_event_id of the unique-value items
    index,    \* the chat of each game as the index shows it
    ids,      \* history: games not yet created, created, and with a deletion begun
    calls,    \* what each process calls
    pc, attempt,
    todo,     \* requests still to be made
    seen,     \* items loaded
    holders,  \* games of which the index says they have the chat
    held,     \* the user the caller of save works on
    outdated  \* history: items loaded and deleted by somebody since

storeVars == <<store, lock, index, ids, calls, pc, attempt, todo, seen, holders, held, outdated>>

\* Items loaded or stored: absent exactly if they have no revision.
Items(items) ==
    /\ DOMAIN items = Key
    /\ \A k \in Key : items[k].rev \in Nat /\ (items[k].rev = 0 <=> items[k] = Absent)

-----------------------------------------------------------------------------
(***************************************************************************)
(* What a call loads: a set of requests, each a set of items.  A query is  *)
(* one request.  The chat index is asked by the request IndexQuery.        *)
(***************************************************************************)
IndexQuery == {<<"index">>}

\* _event_rows_for_call: the game, and its leaders if the method is about them.
EventRequests(call) ==
    (IF call.method \in EventMethods \cup LeaderMethods THEN {{<<"event", call.game>>}} ELSE {})
    \cup (IF call.method \in LeaderMethods \ {"create"}
          THEN {{k \in LeaderKeys : k[2] = call.game}} ELSE {})
    \cup (IF call.method \in {"bind_telegram_chat", "migrate_telegram_chat"}
          THEN {IndexQuery} ELSE {})

\* _registration_rows_for_call: one query of the game, or the rows named, one by one.
RegistrationRequests(call) ==
    IF call.method \in {"enlist", "sift_waiting_to_end", "delete_for_event"}
    THEN {{k \in RegistrationKeys : k[2] = call.game}}
    ELSE {{k} : k \in {l \in RegistrationKeys :
            /\ l[3] \in call.people
            /\ l[2] = call.game \/ (call.method = "confirm_linked" /\ l[2] = call.value)}}

\* _rows_for_call of the users: the row of the user.
Requests(call) ==
    IF call.method \in RegistrationMethods THEN RegistrationRequests(call)
    ELSE IF call.method \in UserMethods THEN {{k} : k \in {l \in UserKeys : l[2] \in call.people}}
    ELSE EventRequests(call)

\* The shape of the tables and of what the calls hold.
TypeOK ==
    /\ Items(store)
    /\ \A g \in Games : store[<<"event", g>>].doc \in Event \cup {NoDoc}
    /\ lock \in [Values -> Games \cup {None}]
    /\ ids \in [Games -> {"new", "known", "gone"}]
    /\ calls \in Workloads
    /\ pc \in [Process -> {"handling", "loading", "done"}]
    /\ attempt \in [Process -> Nat]
    /\ DOMAIN seen = Process
    /\ \A c \in Process :
        Items(seen[c]) /\ \A g \in Games : seen[c][<<"event", g>>].doc \in Event \cup {NoDoc}
    /\ \A c \in Process :
        todo[c] \subseteq Requests(calls[c]) /\ (pc[c] = "handling" => calls[c].method = "save")
    /\ DOMAIN todo = Process /\ DOMAIN outdated = Process

Nothing == [k \in Key |-> Absent]

Init ==
    \E docs \in Stores :
        /\ store = [k \in Key |-> IF docs[k] = NoDoc THEN Absent ELSE [rev |-> 1, doc |-> docs[k]]]
        /\ lock = Owners(docs)
        /\ index = [g \in Games |->
                        IF docs[<<"event", g>>] = NoDoc THEN None ELSE docs[<<"event", g>>].chat]
        /\ ids = [g \in Games |-> IF docs[<<"event", g>>] = NoDoc THEN "new" ELSE "known"]
        /\ calls \in Workloads
        /\ pc = [c \in Process |-> IF calls[c].method = "save" THEN "handling" ELSE "loading"]
        /\ attempt = [c \in Process |-> 1]
        /\ todo = [c \in Process |-> Requests(calls[c])]
        /\ seen = [c \in Process |-> Nothing]
        /\ holders = [c \in Process |-> {}]
        /\ held = [c \in Process |-> NoDoc]
        /\ outdated = [c \in Process |-> {}]

-----------------------------------------------------------------------------
(***************************************************************************)
(* Loading                                                                 *)
(***************************************************************************)

\* The call has asked for something, perhaps in an earlier attempt.
Begun(c) == pc[c] = "loading" /\ (attempt[c] > 1 \/ todo[c] # Requests(calls[c]))

\* Nobody but its creators names a game before it is there: the turn and the
\* completion, which both create it.  Assumed: a game is deleted when no call that
\* creates it is under way, and is not created once its deletion has begun.
InItsLife(c) ==
    LET call == calls[c] IN
    CASE call.method = "create" -> ids[call.game] # "gone"
      [] call.method = "delete" ->
            /\ ids[call.game] # "new"
            /\ \A d \in Process :
                 calls[d].method = "create" /\ calls[d].game = call.game => ~Begun(d)
      [] call.method \in (EventMethods \cup LeaderMethods) \ {"create", "delete"} ->
            ids[call.game] # "new"
      [] OTHER -> TRUE

\* A dialogue reads its user, long before it saves it.
Get(c) ==
    /\ pc[c] = "handling"
    /\ \E p \in calls[c].people :
        held' = [held EXCEPT ![c] =
                    IF store[<<"user", p>>] = Absent THEN NewUser ELSE store[<<"user", p>>].doc]
    /\ pc' = [pc EXCEPT ![c] = "loading"]
    /\ UNCHANGED <<store, lock, index, ids, calls, attempt, todo, seen, holders, outdated>>

\* One strongly consistent request.  Several requests are not answered at one moment.
Read(c) ==
    /\ pc[c] = "loading"
    /\ InItsLife(c)
    /\ \E request \in todo[c] \ {IndexQuery} :
        /\ seen' = [seen EXCEPT ![c] = [k \in Key |-> IF k \in request THEN store[k] ELSE @[k]]]
        /\ todo' = [todo EXCEPT ![c] = @ \ {request}]
    /\ ids' = IF calls[c].method = "delete" THEN [ids EXCEPT ![calls[c].game] = "gone"] ELSE ids
    /\ UNCHANGED <<store, lock, index, calls, pc, attempt, holders, held, outdated>>

ReadIndex(c) ==
    /\ pc[c] = "loading"
    /\ InItsLife(c)
    /\ IndexQuery \in todo[c]
    /\ holders' = [holders EXCEPT ![c] =
                    {g \in Games \ {calls[c].game} : index[g] = calls[c].chat}]
    /\ todo' = [todo EXCEPT ![c] = @ \ {IndexQuery}]
    /\ UNCHANGED <<store, lock, index, ids, calls, pc, attempt, seen, held, outdated>>

\* The index catches up with one game.
Propagate(g) ==
    /\ LET doc == store[<<"event", g>>].doc
       IN  index' = [index EXCEPT ![g] = IF doc = NoDoc THEN None ELSE doc.chat]
    /\ index' # index
    /\ UNCHANGED <<store, lock, ids, calls, pc, attempt, todo, seen, holders, held, outdated>>

-----------------------------------------------------------------------------
(***************************************************************************)
(* Committing                                                              *)
(***************************************************************************)
Registrations(c) ==
    [row \in Games \X People |-> seen[c][<<"registration", row[1], row[2]>>].doc]

\* _desired: what the in-memory method leaves of an item.
Wanted(c, k) ==
    LET call == calls[c]
        doc == seen[c][k].doc
    IN  IF k \in EventKeys /\ call.method \in EventMethods /\ k[2] = call.game
        THEN EventMethod(call, doc, holders[c])
        ELSE IF k \in LeaderKeys /\ call.method \in LeaderMethods /\ k[2] = call.game
        THEN LeaderMethod(call, seen[c][<<"event", k[2]>>].doc, doc, k[3])
        ELSE IF k \in RegistrationKeys /\ call.method \in RegistrationMethods
        THEN RegistrationMethod(call, Registrations(c), k[2], k[3])
        ELSE IF k \in UserKeys /\ call.method \in UserMethods /\ k[2] \in call.people
        THEN UserMethod(call, doc, held[c])
        ELSE doc

Stamped(c, k) ==
    \/ k \in EventKeys /\ k[2] = calls[c].game /\ StampsEvent(calls[c], seen[c][k].doc)
    \/ k \in UserKeys /\ k[2] \in calls[c].people /\ StampsUser(calls[c], seen[c][k].doc)

\* The items a call is about: those it asks for, and the leaders of a new game.
Concerned(call) ==
    UNION (Requests(call) \ {IndexQuery})
    \cup {k \in LeaderKeys : call.method = "create" /\ k[2] = call.game /\ k[3] \in call.people}

Written(c) ==
    {k \in Concerned(calls[c]) : Wanted(c, k) # seen[c][k].doc \/ Stamped(c, k)}

\* Variant: a game that gets a chat takes no lock for it.
TakenByNew(c, g) ==
    {v \in UniqueValues(Wanted(c, <<"event", g>>)) : seen[c][<<"event", g>>] = Absent}

\* _extra_actions: unique values a game takes, and those it gives back.
Taken(c, g) ==
    UniqueValues(Wanted(c, <<"event", g>>)) \ UniqueValues(seen[c][<<"event", g>>].doc)

Freed(c, g) ==
    UniqueValues(seen[c][<<"event", g>>].doc) \ UniqueValues(Wanted(c, <<"event", g>>))

LocksWritten(c) == UNION {Taken(c, g) \cup Freed(c, g) : g \in Games}

TooMany(c) == Cardinality(Written(c)) + Cardinality(LocksWritten(c)) > MaxActions

\* The locks a transaction puts must not exist, those it deletes belong to the game.
LocksAccepted(c) ==
    \A g \in Games :
        /\ \A v \in Taken(c, g) : lock[v] = None
        /\ \A v \in Freed(c, g) : lock[v] = g

\* Variant: only items that were there are asked for their revision.
AcceptedOver(c) ==
    /\ \A k \in Written(c) : seen[c][k] # Absent => store[k].rev = seen[c][k].rev
    /\ LocksAccepted(c)

\* The conditions of the transaction.
Accepted(c) ==
    /\ \A k \in Written(c) : store[k].rev = seen[c][k].rev
    /\ LocksAccepted(c)

\* DynamoDB also cancels a transaction that meets another one on the same item.
Meets(c) ==
    \E d \in Process \ {c} :
        pc[d] = "loading" /\ todo[d] = {} /\ Written(c) \cap Written(d) # {}

CallRaises(c) ==
    \E g \in Games, p \in People :
        /\ calls[c].method \in EventMethods => g = calls[c].game
        /\ calls[c].method \in UserMethods => p \in calls[c].people
        /\ Raises(calls[c], seen[c][<<"event", g>>].doc, seen[c][<<"user", p>>].doc)

Loaded(c) == pc[c] = "loading" /\ todo[c] = {}

\* The locals of a call end with it.
End(c) ==
    /\ pc' = [pc EXCEPT ![c] = "done"]
    /\ seen' = [seen EXCEPT ![c] = Nothing]
    /\ holders' = [holders EXCEPT ![c] = {}]
    /\ held' = [held EXCEPT ![c] = NoDoc]
    /\ UNCHANGED <<index, calls, attempt, todo>>

\* One transaction, or none if nothing has changed.
Commit(c) ==
    /\ Loaded(c) /\ ~CallRaises(c) /\ ~TooMany(c) /\ Accepted(c)
    /\ store' = [k \in Key |->
                    IF k \in Written(c) THEN PutItem(seen[c][k], Wanted(c, k)) ELSE store[k]]
    /\ lock' = [v \in Values |->
                    IF \E g \in Games : v \in Taken(c, g)
                    THEN CHOOSE g \in Games : v \in Taken(c, g)
                    ELSE IF \E g \in Games : v \in Freed(c, g) THEN None ELSE lock[v]]
    /\ outdated' = [d \in Process |->
                    IF d = c THEN {}
                    ELSE outdated[d] \cup {k \in Written(c) : Wanted(c, k) = NoDoc /\ seen[d][k] # Absent}]
    /\ ids' = IF calls[c].method = "create" THEN [ids EXCEPT ![calls[c].game] = "known"] ELSE ids
    /\ End(c)

\* The transaction is cancelled and the call loads everything again.
Retry(c) ==
    /\ Loaded(c) /\ ~CallRaises(c) /\ ~TooMany(c)
    /\ ~Accepted(c) \/ Meets(c)
    /\ attempt[c] < Attempts
    /\ todo' = [todo EXCEPT ![c] = Requests(calls[c])]
    /\ seen' = [seen EXCEPT ![c] = Nothing]
    /\ holders' = [holders EXCEPT ![c] = {}]
    /\ outdated' = [outdated EXCEPT ![c] = {}]
    /\ attempt' = [attempt EXCEPT ![c] = @ + 1]
    /\ UNCHANGED <<store, lock, index, ids, calls, pc, held>>

\* The call raises, and has written nothing.
Fail(c) ==
    /\ Loaded(c)
    /\ \/ CallRaises(c)
       \/ TooMany(c)
       \/ (~Accepted(c) \/ Meets(c)) /\ attempt[c] = Attempts
    /\ outdated' = [outdated EXCEPT ![c] = {}]
    /\ End(c)
    /\ UNCHANGED <<store, lock, ids>>

Next ==
    \/ \E c \in Process :
        Get(c) \/ Read(c) \/ ReadIndex(c) \/ Commit(c) \/ Retry(c) \/ Fail(c)
    \/ \E g \in Games : Propagate(g)

Spec == Init /\ [][Next]_storeVars

-----------------------------------------------------------------------------
(***************************************************************************)
(* Properties                                                              *)
(***************************************************************************)

\* Calls of several instances overlap, and each writes what it worked out from
\* items it has loaded: it replaces an item only with a successor of that very
\* item, unless the item was deleted in between (_put_action, _delete_action).
NoLostUpdate ==
    [][\A c \in Process :
        (Loaded(c) /\ pc'[c] = "done") =>
            \A k \in Key :
                (k \in Written(c) \ outdated[c] /\ store'[k] # store[k]) =>
                    store[k] = seen[c][k]]_storeVars

\* The lock items are those of the games' unique values.
LocksMatch ==
    \A v \in Values, g \in Games :
        lock[v] = g <=> v \in UniqueValues(store[<<"event", g>>].doc)

\* Two games never share a signup token or a Telegram chat, although each call
\* looks for the other game in an index that lags behind (_extra_actions).
ValuesAreUnique ==
    \A g, h \in Games :
        g # h =>
            UniqueValues(store[<<"event", g>>].doc) \cap UniqueValues(store[<<"event", h>>].doc) = {}

\* The rows of the games, as the atomic specification sees them.
Memory ==
    INSTANCE AtomicEvents WITH events <- [g \in Games |-> store[<<"event", g>>].doc]

\* Every call changes the row of its game as the in-memory method would in one
\* step on the rows of that moment, whatever other calls do meanwhile (the
\* docstring of _DynamoMemoryRepository).
ImplementsMemory == Memory!Spec

\* A dialogue that saves its user leaves the role alone which an administrator
\* has given or taken since the dialogue read the row (save in adapters/memory.py).
RoleOutlivesSave ==
    [][\A c \in Process, p \in People :
        LET user == <<"user", p>> IN
        (/\ calls[c].method = "save" /\ Loaded(c) /\ pc'[c] = "done"
         /\ store[user] # Absent) =>
            store'[user].doc.role = store[user].doc.role]_storeVars
=============================================================================
