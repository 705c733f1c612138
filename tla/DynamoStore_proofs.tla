-------------------------- MODULE DynamoStore_proofs --------------------------
(***************************************************************************)
(* Proofs about DynamoStore, for every set of calls, whatever they call    *)
(* and however they overlap.                                               *)
(*                                                                         *)
(* The argument: while an item keeps its revision it keeps its contents,   *)
(* so that a transaction that is accepted replaces what its call has read  *)
(* (Current).  A game may be created by several calls, but not again once  *)
(* it is being deleted (IdsSound), so that its item is never deleted and   *)
(* put again behind the back of a call.                                    *)
(* Hence the locks are those of the rows (LocksMatch), and the lock of a   *)
(* chat tells what the index may not show yet.                             *)
(***************************************************************************)
EXTENDS DynamoStore, TLAPS

\* An item that was loaded is the stored one, or that has a later revision.
UpToDate(c, k) ==
    /\ store[k].rev >= seen[c][k].rev
    /\ store[k].rev = seen[c][k].rev => store[k] = seen[c][k]

\* What is known of items that were loaded.
Current ==
    \A c \in Process :
        /\ \A k \in Key : seen[c][k] # Absent /\ k \notin outdated[c] => UpToDate(c, k)
        /\ \A g \in Games :
            LET k == <<"event", g>>
            IN  seen[c][k] # Absent => store[k] = Absent \/ UpToDate(c, k)

\* What is known of a game that is not yet created, or not being deleted, and of
\* the calls that create or delete it.
IdsSound ==
    /\ \A g \in Games :
        ids[g] = "new" =>
            /\ store[<<"event", g>>] = Absent
            /\ \A c \in Process : seen[c][<<"event", g>>] = Absent
    /\ \A g \in Games : ids[g] = "known" => store[<<"event", g>>].doc \in Event
    /\ \A c \in Process : Begun(c) /\ calls[c].method = "create" => ids[calls[c].game] # "gone"
    /\ \A c \in Process : Begun(c) /\ calls[c].method = "delete" => ids[calls[c].game] = "gone"

\* The inductive invariant.
IInv == TypeOK /\ Current /\ IdsSound /\ LocksMatch

-----------------------------------------------------------------------------
(***************************************************************************)
(* Rows of games                                                           *)
(***************************************************************************)

\* An absent row is none of a game's.
LEMMA AbsentDoc == Absent.rev = 0 /\ Absent.doc = NoDoc /\ NoDoc.kind = "none" /\ NoDoc \notin Event
BY DEF Absent, NoDoc, Event

\* A game's row keeps its shape under every method.
LEMMA EventMethodType ==
    ASSUME NEW call, EventCall(call), call.method \in EventMethods,
           NEW event \in Event \cup {NoDoc}, NEW others
    PROVE  /\ EventMethod(call, event, others) \in Event \cup {NoDoc}
           /\ event \in Event /\ call.method # "delete" => EventMethod(call, event, others) \in Event
<1>1. CASE ~Exists(event)
  <2>1. event \notin Event
    BY <1>1 DEF Event, Exists
  <2> QED
    BY <1>1, <2>1 DEF EventMethod, NewEvent, Event, EventCall, Exists
<1>2. CASE Exists(event)
  <2>1. event \in Event
    BY <1>2, AbsentDoc DEF Exists
  <2>2. /\ Archive(event) \in Event /\ Unarchive(event) \in Event
        /\ OpenConfirmation(event) \in Event
    BY <2>1 DEF Archive, Unarchive, OpenConfirmation, Event
  <2>3. /\ StartClose(event, call.op) \in Event /\ CompleteClose(event, call.op) \in Event
        /\ SetLink(event, call.op) \in Event
    <3>1. call.op \in Operations
      BY DEF EventCall
    <3>2. StartClose(event, call.op) \in Event
      BY <2>1, <3>1 DEF StartClose, Event
    <3>3. CompleteClose(event, call.op) \in Event
      BY <2>1, <2>2 DEF CompleteClose
    <3>4. SetLink(event, call.op) \in Event
      BY <2>1, <3>1 DEF SetLink, Event
    <3> QED
      BY <3>2, <3>3, <3>4
  <2>4. /\ call.method = "bind_telegram_chat" => BindChat(event, call.chat, others) \in Event
        /\ call.method = "migrate_telegram_chat" =>
            MigrateChat(event, call.value, call.chat, others) \in Event
    BY <2>1 DEF BindChat, MigrateChat, EventCall, Event
  <2>5. /\ call.method = "set_status" => SetStatus(event, call.value) \in Event
        /\ call.method = "set_registration_open_at" => [event EXCEPT !.planned = call.value] \in Event
    BY <2>1 DEF SetStatus, EventCall, Event
  <2> QED
    BY <1>2, <2>1, <2>2, <2>3, <2>4, <2>5 DEF EventMethod
<1> QED
  BY <1>1, <1>2

\* The unique values of a row, or of none.
LEMMA UniqueValuesType ==
    ASSUME NEW doc \in Event \cup {NoDoc} PROVE UniqueValues(doc) \subseteq Values
BY AbsentDoc DEF UniqueValues, Values, Event

LEMMA NoUniqueValues == UniqueValues(NoDoc) = {}
BY AbsentDoc DEF UniqueValues

\* Only a creation makes a row where there is none.
LEMMA OnlyCreated ==
    ASSUME NEW call, NEW others, call.method # "create"
    PROVE  EventMethod(call, NoDoc, others) = NoDoc /\ ~StampsEvent(call, NoDoc)
BY AbsentDoc DEF EventMethod, StampsEvent, Exists

\* Games' items are not those of other tables.
LEMMA EventKeyIsKey ==
    ASSUME NEW g \in Games
    PROVE  /\ <<"event", g>> \in Key /\ <<"event", g>> \in EventKeys
           /\ <<"event", g>> \notin LeaderKeys /\ <<"event", g>> \notin RegistrationKeys
           /\ <<"event", g>> \notin UserKeys
BY DEF Key, EventKeys, LeaderKeys, RegistrationKeys, UserKeys

\* A call is about the game it names.
LEMMA ConcernsItsGame ==
    ASSUME NEW call, call.method \in EventMethods
    PROVE  <<"event", call.game>> \in Concerned(call)
<1>1. call.method \notin RegistrationMethods \cup UserMethods
  BY DEF EventMethods, RegistrationMethods, UserMethods
<1>2. {<<"event", call.game>>} \in Requests(call)
  BY <1>1 DEF Requests, EventRequests
<1>3. {<<"event", call.game>>} # IndexQuery
  <2>1. <<"event", call.game>> # <<"index">>
    OBVIOUS
  <2> QED
    BY <2>1, Zenon DEF IndexQuery
<1> QED
  BY <1>2, <1>3 DEF Concerned

-----------------------------------------------------------------------------
(***************************************************************************)
(* Transactions                                                            *)
(***************************************************************************)

\* What a call would leave of a game's row: another row only if it is about the
\* game, and then the one that the in-memory method leaves.
LEMMA WantedEvent ==
    ASSUME NEW c, NEW g \in Games
    PROVE  LET k == <<"event", g>>
               call == calls[c]
           IN  \/ call.method \in EventMethods /\ g = call.game
                  /\ Wanted(c, k) = EventMethod(call, seen[c][k].doc, holders[c])
               \/ Wanted(c, k) = seen[c][k].doc /\ ~Stamped(c, k)
<1> DEFINE k == <<"event", g>>
           call == calls[c]
<1>1. /\ k \in EventKeys /\ k \notin LeaderKeys /\ k \notin RegistrationKeys /\ k \notin UserKeys
      /\ k[2] = g
  BY EventKeyIsKey
<1>2. CASE call.method \in EventMethods /\ g = call.game
  BY <1>1, <1>2 DEF Wanted
<1>3. CASE ~(call.method \in EventMethods /\ g = call.game)
  <2>1. Wanted(c, k) = seen[c][k].doc
    BY <1>1, <1>3 DEF Wanted
  <2>2. ~Stamped(c, k)
    BY <1>1, <1>3 DEF Stamped, StampsEvent, EventMethods
  <2> QED
    BY <2>1, <2>2
<1> QED
  BY <1>2, <1>3

\* An accepted transaction replaces the item that its call has read, unless it was
\* deleted since.
LEMMA AcceptedIsCurrent ==
    ASSUME TypeOK, Current, NEW c \in Process, Accepted(c),
           NEW k \in Key, k \in Written(c), k \notin outdated[c]
    PROVE  store[k] = seen[c][k]
<1>1. store[k].rev = seen[c][k].rev
  BY DEF Accepted
<1>2. CASE seen[c][k] = Absent
  BY <1>1, <1>2, AbsentDoc DEF TypeOK, Items
<1>3. CASE seen[c][k] # Absent
  BY <1>1, <1>3 DEF Current, UpToDate
<1> QED
  BY <1>2, <1>3

\* A game's item it replaces even then, for no deleted game comes back.
LEMMA AcceptedEventIsCurrent ==
    ASSUME TypeOK, Current, NEW c \in Process, Accepted(c),
           NEW g \in Games, <<"event", g>> \in Written(c)
    PROVE  store[<<"event", g>>] = seen[c][<<"event", g>>]
<1> DEFINE k == <<"event", g>>
<1>0. k \in Key
  BY EventKeyIsKey
<1>1. store[k].rev = seen[c][k].rev
  BY DEF Accepted
<1>2. CASE seen[c][k] = Absent
  BY <1>0, <1>1, <1>2, AbsentDoc DEF TypeOK, Items
<1>3. CASE seen[c][k] # Absent /\ UpToDate(c, k)
  BY <1>1, <1>3 DEF UpToDate
<1>4. CASE seen[c][k] # Absent /\ store[k] = Absent
  BY <1>0, <1>1, <1>4, AbsentDoc DEF TypeOK, Items
<1> QED
  BY <1>2, <1>3, <1>4 DEF Current

\* A transaction leaves a game's row alone, or it makes of the stored row what the
\* in-memory method makes of it; a row that was absent is created.
LEMMA CommittedEvent ==
    ASSUME TypeOK, Current, NEW c \in Process, Commit(c), NEW g \in Games
    PROVE  LET k == <<"event", g>>
               call == calls[c]
           IN  \/ store'[k] = store[k] /\ Wanted(c, k) = seen[c][k].doc
               \/ /\ call.method \in EventMethods /\ g = call.game /\ call \in EventCalls
                  /\ store[k] = seen[c][k] /\ k \in Written(c)
                  /\ Wanted(c, k) = EventMethod(call, store[k].doc, holders[c])
                  /\ store'[k] = PutItem(store[k], Wanted(c, k))
                  /\ store'[k].doc = Wanted(c, k)
                  /\ store[k] = Absent => call.method = "create"
<1> DEFINE k == <<"event", g>>
           call == calls[c]
<1>1. k \in Key /\ Accepted(c)
      /\ store'[k] = IF k \in Written(c) THEN PutItem(seen[c][k], Wanted(c, k)) ELSE store[k]
  BY EventKeyIsKey DEF Commit
<1>2. CASE k \notin Written(c)
  <2>1. Wanted(c, k) = seen[c][k].doc
    BY <1>2, WantedEvent, ConcernsItsGame DEF Written
  <2> QED
    BY <1>1, <1>2, <2>1
<1>3. CASE k \in Written(c)
  <2>1. /\ call.method \in EventMethods /\ g = call.game
        /\ Wanted(c, k) = EventMethod(call, seen[c][k].doc, holders[c])
    BY <1>3, WantedEvent DEF Written
  <2>2. call \in EventCalls
    BY <2>1, CallAssumption DEF TypeOK
  <2>3. store[k] = seen[c][k]
    BY <1>1, <1>3, AcceptedEventIsCurrent
  <2>4. store'[k].doc = Wanted(c, k)
    BY <1>1, <1>3, AbsentDoc DEF PutItem
  <2>5. store[k] = Absent => call.method = "create"
    <3> SUFFICES ASSUME store[k] = Absent, call.method # "create" PROVE FALSE
      OBVIOUS
    <3>1. seen[c][k].doc = NoDoc
      BY <2>3, AbsentDoc
    <3>2. Wanted(c, k) = seen[c][k].doc /\ ~StampsEvent(call, seen[c][k].doc)
      BY <2>1, <3>1, OnlyCreated
    <3>3. ~Stamped(c, k)
      BY <3>2, EventKeyIsKey DEF Stamped
    <3> QED
      BY <1>3, <3>2, <3>3 DEF Written
  <2> QED
    BY <1>1, <1>3, <2>1, <2>2, <2>3, <2>4, <2>5
<1> QED
  BY <1>2, <1>3

-----------------------------------------------------------------------------
(***************************************************************************)
(* The shape of the tables                                                 *)
(***************************************************************************)

\* Items of the right shape, as the tables hold them and the calls load them.
Shaped(items) == Items(items) /\ \A g \in Games : items[<<"event", g>>].doc \in Event \cup {NoDoc}

LEMMA NothingShaped == Shaped(Nothing) /\ \A k \in Key : Nothing[k] = Absent
BY EventKeyIsKey, AbsentDoc DEF Shaped, Items, Nothing

\* A request keeps the shape of what a call has loaded.
LEMMA LoadedShaped ==
    ASSUME NEW items, Shaped(items), NEW loaded, Shaped(loaded), NEW request
    PROVE  Shaped([k \in Key |-> IF k \in request THEN items[k] ELSE loaded[k]])
BY EventKeyIsKey DEF Shaped, Items

LEMMA PutItemShaped ==
    ASSUME NEW item, item.rev \in Nat, NEW doc
    PROVE  LET put == PutItem(item, doc)
           IN  put.rev \in Nat /\ (put.rev = 0 <=> put = Absent) /\ (doc # NoDoc => put.rev = item.rev + 1)
BY AbsentDoc DEF PutItem

LEMMA TypeInit == Init => TypeOK
<1> SUFFICES ASSUME Init PROVE TypeOK
  OBVIOUS
<1>1. PICK docs \in Stores :
        /\ store = [k \in Key |-> IF docs[k] = NoDoc THEN Absent ELSE [rev |-> 1, doc |-> docs[k]]]
        /\ lock = Owners(docs)
        /\ ids = [g \in Games |-> IF docs[<<"event", g>>] = NoDoc THEN "new" ELSE "known"]
  BY DEF Init
<1>2. Items(store)
  BY <1>1, AbsentDoc DEF Items
<1>3. \A g \in Games : store[<<"event", g>>].doc \in Event \cup {NoDoc}
  BY <1>1, EventKeyIsKey, AbsentDoc, StoreAssumption
<1>4. lock \in [Values -> Games \cup {None}]
  BY <1>1 DEF Owners
<1>5. ids \in [Games -> {"new", "known", "gone"}]
  BY <1>1
<1>6. \A c \in Process : seen[c] = Nothing
  BY DEF Init
<1>7. /\ calls \in Workloads /\ attempt \in [Process -> Nat]
      /\ pc \in [Process -> {"handling", "loading", "done"}]
      /\ DOMAIN seen = Process /\ DOMAIN todo = Process /\ DOMAIN outdated = Process
      /\ \A c \in Process :
            todo[c] \subseteq Requests(calls[c]) /\ (pc[c] = "handling" => calls[c].method = "save")
  BY DEF Init
<1> QED
  BY <1>2, <1>3, <1>4, <1>5, <1>6, <1>7, NothingShaped DEF TypeOK, Shaped

\* Whatever a step does to what one call has loaded, the shape stays.
LEMMA TypeStep == TypeOK /\ Current /\ [Next]_storeVars => TypeOK'
<1> SUFFICES ASSUME TypeOK, Current, [Next]_storeVars PROVE TypeOK'
  OBVIOUS
<1>0. Shaped(store) /\ \A d \in Process : Shaped(seen[d])
  BY DEF TypeOK, Shaped
<1>1. ASSUME NEW c \in Process, Get(c) PROVE TypeOK'
  BY <1>1 DEF Get, TypeOK, Items
<1>2. ASSUME NEW c \in Process, Read(c) PROVE TypeOK'
  <2>1. PICK request \in todo[c] :
          seen' = [seen EXCEPT ![c] = [k \in Key |-> IF k \in request THEN store[k] ELSE seen[c][k]]]
    BY <1>2 DEF Read
  <2>2. DOMAIN seen' = Process /\ \A d \in Process : Shaped(seen'[d])
    <3> DEFINE loaded == [k \in Key |-> IF k \in request THEN store[k] ELSE seen[c][k]]
    <3>1. Shaped(loaded)
      BY <1>0, LoadedShaped
    <3> HIDE DEF loaded
    <3>2. seen' = [seen EXCEPT ![c] = loaded]
      BY <2>1 DEF loaded
    <3> QED
      BY <1>0, <3>1, <3>2 DEF TypeOK
  <2>3. ids' \in [Games -> {"new", "known", "gone"}]
    BY <1>2 DEF Read, TypeOK
  <2> QED
    BY <1>2, <2>2, <2>3 DEF Read, TypeOK, Shaped, Items
<1>3. ASSUME NEW c \in Process, ReadIndex(c) PROVE TypeOK'
  BY <1>3 DEF ReadIndex, TypeOK, Items
<1>4. ASSUME NEW c \in Process, Commit(c) PROVE TypeOK'
  <2>1. DOMAIN seen' = Process /\ \A d \in Process : Shaped(seen'[d])
    BY <1>0, <1>4, NothingShaped DEF Commit, End, TypeOK
  <2>2. Items(store')
    <3> SUFFICES ASSUME NEW k \in Key
                 PROVE  store'[k].rev \in Nat /\ (store'[k].rev = 0 <=> store'[k] = Absent)
      BY <1>4 DEF Commit, Items
    <3> QED
      BY <1>0, <1>4, PutItemShaped DEF Commit, Shaped, Items
  <2>3. \A g \in Games : store'[<<"event", g>>].doc \in Event \cup {NoDoc}
    <3> SUFFICES ASSUME NEW g \in Games
                 PROVE  store'[<<"event", g>>].doc \in Event \cup {NoDoc}
      OBVIOUS
    <3> DEFINE k == <<"event", g>>
    <3>1. store[k].doc \in Event \cup {NoDoc}
      BY DEF TypeOK
    <3>2. CASE store'[k] = store[k]
      BY <3>1, <3>2
    <3>3. CASE /\ calls[c].method \in EventMethods /\ calls[c] \in EventCalls
               /\ store'[k].doc = EventMethod(calls[c], store[k].doc, holders[c])
      BY <3>1, <3>3, EventMethodType, CallAssumption
    <3> QED
      BY <1>4, <3>2, <3>3, CommittedEvent
  <2>4. lock' \in [Values -> Games \cup {None}]
    BY <1>4 DEF Commit, TypeOK
  <2>5. ids' \in [Games -> {"new", "known", "gone"}]
    BY <1>4 DEF Commit, TypeOK
  <2>6. /\ calls' \in Workloads /\ attempt' \in [Process -> Nat] /\ DOMAIN outdated' = Process
        /\ pc' \in [Process -> {"handling", "loading", "done"}] /\ DOMAIN todo' = Process
        /\ \A d \in Process :
            todo'[d] \subseteq Requests(calls'[d]) /\ (pc'[d] = "handling" => calls'[d].method = "save")
    BY <1>4 DEF Commit, End, TypeOK
  <2> QED
    BY <2>1, <2>2, <2>3, <2>4, <2>5, <2>6 DEF TypeOK, Shaped
<1>5. ASSUME NEW c \in Process, Retry(c) PROVE TypeOK'
  <2>1. DOMAIN seen' = Process /\ \A d \in Process : Shaped(seen'[d])
    BY <1>0, <1>5, NothingShaped DEF Retry, TypeOK
  <2> QED
    BY <1>5, <2>1 DEF Retry, TypeOK, Shaped, Items
<1>6. ASSUME NEW c \in Process, Fail(c) PROVE TypeOK'
  <2>1. DOMAIN seen' = Process /\ \A d \in Process : Shaped(seen'[d])
    BY <1>0, <1>6, NothingShaped DEF Fail, End, TypeOK
  <2> QED
    BY <1>6, <2>1 DEF Fail, End, TypeOK, Shaped, Items
<1>7. ASSUME NEW g \in Games, Propagate(g) PROVE TypeOK'
  BY <1>7 DEF Propagate, TypeOK, Items
<1>8. CASE UNCHANGED storeVars
  BY <1>8 DEF storeVars, TypeOK, Items
<1> QED
  BY <1>1, <1>2, <1>3, <1>4, <1>5, <1>6, <1>7, <1>8 DEF Next

-----------------------------------------------------------------------------
(***************************************************************************)
(* Items that were loaded                                                  *)
(***************************************************************************)

\* What Current says of one call.
CurrentOf(c) ==
    /\ \A k \in Key : seen[c][k] # Absent /\ k \notin outdated[c] => UpToDate(c, k)
    /\ \A g \in Games :
        LET k == <<"event", g>>
        IN  seen[c][k] # Absent => store[k] = Absent \/ UpToDate(c, k)

\* Nothing loaded, nothing claimed.
LEMMA NothingIsCurrent ==
    ASSUME NEW c \in Process, seen'[c] = Nothing PROVE CurrentOf(c)'
BY NothingShaped, EventKeyIsKey DEF CurrentOf

\* The transaction of another call leaves an item as it was, deletes it, or raises its
\* revision.
LEMMA CommitRaises ==
    ASSUME TypeOK, NEW c \in Process, Commit(c), NEW k \in Key
    PROVE  \/ store'[k] = store[k]
           \/ k \in Written(c) /\ Wanted(c, k) = NoDoc /\ store'[k] = Absent
           \/ k \in Written(c) /\ Wanted(c, k) # NoDoc /\ store'[k].rev = store[k].rev + 1
<1>1. CASE k \notin Written(c)
  BY <1>1 DEF Commit
<1>2. CASE k \in Written(c)
  <2>1. store[k].rev = seen[c][k].rev /\ seen[c][k].rev \in Nat
    BY <1>2 DEF Commit, Accepted, TypeOK, Items
  <2>2. store'[k] = PutItem(seen[c][k], Wanted(c, k))
    BY <1>2 DEF Commit
  <2> QED
    BY <1>2, <2>1, <2>2, PutItemShaped DEF PutItem
<1> QED
  BY <1>1, <1>2

\* A call of the event repository that has loaded everything has begun.
LEMMA LoadedHasBegun ==
    ASSUME NEW c \in Process, Loaded(c), calls[c].method \in {"create", "delete"}
    PROVE  Begun(c)
<1>1. {<<"event", calls[c].game>>} \in Requests(calls[c])
  BY DEF Requests, EventRequests, RegistrationMethods, UserMethods, EventMethods
<1> QED
  BY <1>1 DEF Loaded, Begun

LEMMA CurrentStep == IInv /\ [Next]_storeVars => Current'
<1> SUFFICES ASSUME IInv, [Next]_storeVars, NEW d \in Process PROVE CurrentOf(d)'
  BY DEF Current, CurrentOf
<1>0. TypeOK /\ Current /\ CurrentOf(d) /\ IdsSound
  BY DEF IInv, Current, CurrentOf
<1>a. ASSUME store' = store, seen'[d] = seen[d], outdated'[d] = outdated[d] PROVE CurrentOf(d)'
  BY <1>0, <1>a DEF CurrentOf, UpToDate
<1>1. ASSUME NEW c \in Process, Get(c) PROVE CurrentOf(d)'
  BY <1>1, <1>a DEF Get
<1>2. ASSUME NEW c \in Process, Read(c) PROVE CurrentOf(d)'
  <2>1. CASE c # d
    BY <1>2, <2>1, <1>0, <1>a DEF Read, TypeOK
  <2>2. CASE c = d
    <3>1. store' = store /\ outdated' = outdated
      BY <1>2 DEF Read
    <3>2. PICK request \in todo[d] :
            seen'[d] = [k \in Key |-> IF k \in request THEN store[k] ELSE seen[d][k]]
      BY <1>2, <2>2, <1>0 DEF Read, TypeOK
    <3>3. ASSUME NEW k \in Key
          PROVE  /\ store[k].rev \in Nat
                 /\ seen'[d][k] = store[k] \/ seen'[d][k] = seen[d][k]
      BY <1>0, <3>2 DEF TypeOK, Items
    <3> QED
      BY <1>0, <3>1, <3>3, EventKeyIsKey DEF CurrentOf, UpToDate
  <2> QED
    BY <2>1, <2>2
<1>3. ASSUME NEW c \in Process, ReadIndex(c) PROVE CurrentOf(d)'
  BY <1>3, <1>a DEF ReadIndex
<1>4. ASSUME NEW c \in Process, Commit(c) PROVE CurrentOf(d)'
  <2>1. CASE c = d
    BY <1>0, <1>4, <2>1, NothingIsCurrent DEF Commit, End, TypeOK
  <2>2. CASE c # d
    <3>1. /\ seen'[d] = seen[d]
          /\ outdated'[d] =
                outdated[d] \cup {k \in Written(c) : Wanted(c, k) = NoDoc /\ seen[d][k] # Absent}
      BY <1>0, <1>4, <2>2 DEF Commit, End, TypeOK
    <3>2. ASSUME NEW k \in Key, UpToDate(d, k), seen[d][k] # Absent, store'[k] # Absent
          PROVE  UpToDate(d, k)'
      <4>1. store[k].rev \in Nat /\ seen[d][k].rev \in Nat
        BY <1>0 DEF TypeOK, Items
      <4>2. store'[k] = store[k] \/ store'[k].rev = store[k].rev + 1
        BY <1>0, <1>4, <3>2, CommitRaises
      <4> QED
        BY <3>1, <3>2, <4>1, <4>2 DEF UpToDate
    <3>3. ASSUME NEW k \in Key, seen'[d][k] # Absent, k \notin outdated'[d]
          PROVE  UpToDate(d, k)'
      <4>1. seen[d][k] # Absent /\ UpToDate(d, k)
        BY <1>0, <3>1, <3>3 DEF CurrentOf
      <4>2. CASE store'[k] # Absent
        BY <3>2, <4>1, <4>2
      <4>3. CASE store'[k] = store[k]
        BY <3>1, <4>1, <4>3 DEF UpToDate
      <4>4. ~(k \in Written(c) /\ Wanted(c, k) = NoDoc)
        BY <3>1, <3>3, <4>1
      <4>5. store'[k].rev = store[k].rev + 1 => store'[k] # Absent
        BY <1>0, AbsentDoc DEF TypeOK, Items
      <4> QED
        BY <1>0, <1>4, <4>2, <4>3, <4>4, <4>5, CommitRaises
    <3>4. ASSUME NEW g \in Games, seen'[d][<<"event", g>>] # Absent
          PROVE  store'[<<"event", g>>] = Absent \/ UpToDate(d, <<"event", g>>)'
      <4> DEFINE k == <<"event", g>>
      <4>1. k \in Key /\ seen[d][k] # Absent
        BY <3>1, <3>4, EventKeyIsKey
      <4>2. CASE UpToDate(d, k)
        BY <3>2, <4>1, <4>2
      <4>3. CASE store[k] = Absent
        <5>1. ids[g] = "gone"
          BY <1>0, <4>1, <4>3, AbsentDoc DEF IdsSound, TypeOK
        <5>2. calls[c].method = "create" => ids[calls[c].game] # "gone"
          BY <1>0, <1>4, LoadedHasBegun DEF Commit, IdsSound
        <5> QED
          BY <1>0, <1>4, <4>3, <5>1, <5>2, CommittedEvent
      <4> QED
        BY <1>0, <4>1, <4>2, <4>3 DEF CurrentOf
    <3> QED
      BY <3>3, <3>4 DEF CurrentOf
  <2> QED
    BY <2>1, <2>2
<1>5. ASSUME NEW c \in Process, Retry(c) PROVE CurrentOf(d)'
  <2>1. CASE c = d
    BY <1>0, <1>5, <2>1, NothingIsCurrent DEF Retry, TypeOK
  <2> QED
    BY <1>0, <1>5, <1>a, <2>1 DEF Retry, TypeOK
<1>6. ASSUME NEW c \in Process, Fail(c) PROVE CurrentOf(d)'
  <2>1. CASE c = d
    BY <1>0, <1>6, <2>1, NothingIsCurrent DEF Fail, End, TypeOK
  <2> QED
    BY <1>0, <1>6, <1>a, <2>1 DEF Fail, End, TypeOK
<1>7. ASSUME NEW g \in Games, Propagate(g) PROVE CurrentOf(d)'
  BY <1>7, <1>a DEF Propagate
<1>8. CASE UNCHANGED storeVars
  BY <1>8, <1>a DEF storeVars
<1> QED
  BY <1>1, <1>2, <1>3, <1>4, <1>5, <1>6, <1>7, <1>8 DEF Next

-----------------------------------------------------------------------------
(***************************************************************************)
(* Ids of games                                                            *)
(***************************************************************************)

LEMMA IdsInit == Init => IdsSound
<1> SUFFICES ASSUME Init PROVE IdsSound
  OBVIOUS
<1>1. PICK docs \in Stores :
        /\ store = [k \in Key |-> IF docs[k] = NoDoc THEN Absent ELSE [rev |-> 1, doc |-> docs[k]]]
        /\ ids = [g \in Games |-> IF docs[<<"event", g>>] = NoDoc THEN "new" ELSE "known"]
  BY DEF Init
<1>2. \A g \in Games : ids[g] = "new" => store[<<"event", g>>] = Absent
  BY <1>1, EventKeyIsKey
<1>3. \A c \in Process, g \in Games : seen[c][<<"event", g>>] = Absent
  BY NothingShaped, EventKeyIsKey DEF Init
<1>4. \A c \in Process : ~Begun(c)
  BY DEF Init, Begun
<1>5. \A g \in Games : ids[g] = "known" => store[<<"event", g>>].doc \in Event
  BY <1>1, EventKeyIsKey, StoreAssumption
<1> QED
  BY <1>2, <1>3, <1>4, <1>5 DEF IdsSound

LEMMA AsksNoIndex ==
    ASSUME NEW call, call.method \in {"create", "delete"} PROVE IndexQuery \notin Requests(call)
<1>1. \A request \in Requests(call) :
          request = {<<"event", call.game>>} \/ request = {k \in LeaderKeys : k[2] = call.game}
  BY DEF Requests, EventRequests, RegistrationMethods, UserMethods, EventMethods, LeaderMethods
<1>2. <<"event", call.game>> # <<"index">> /\ <<"index">> \notin LeaderKeys
  <2>1. <<"event", call.game>> # <<"index">>
    OBVIOUS
  <2>2. ASSUME NEW g, NEW p PROVE <<"leader", g, p>> # <<"index">>
    OBVIOUS
  <2> QED
    BY <2>1, <2>2, Zenon DEF LeaderKeys
<1>3. {<<"event", call.game>>} # IndexQuery
  BY <1>2, Zenon DEF IndexQuery
<1>4. ASSUME NEW K, NEW e, e \notin K PROVE K # {e}
  BY <1>4
<1>5. {k \in LeaderKeys : k[2] = call.game} # IndexQuery
  <2> DEFINE K == {k \in LeaderKeys : k[2] = call.game}
  <2>1. <<"index">> \notin K
    BY <1>2, Zenon
  <2> HIDE DEF K
  <2>2. K # IndexQuery
    BY <1>4, <2>1, Zenon DEF IndexQuery
  <2> QED
    BY <2>2, Zenon DEF K
<1> QED
  BY <1>1, <1>3, <1>5, Zenon

LEMMA IdsStep == IInv /\ [Next]_storeVars => IdsSound'
<1> SUFFICES ASSUME IInv, [Next]_storeVars PROVE IdsSound'
  OBVIOUS
<1>0. TypeOK /\ Current /\ IdsSound
  BY DEF IInv
<1>a. ASSUME store' = store, ids' = ids,
             \A d \in Process, g \in Games :
                seen'[d][<<"event", g>>] \in {seen[d][<<"event", g>>], Absent},
             calls' = calls,
             \A d \in Process : Begun(d)' => Begun(d) \/ calls[d].method \notin {"create", "delete"}
      PROVE  IdsSound'
  BY <1>0, <1>a DEF IdsSound
<1>b. \A d \in Process : calls[d].method \in {"create", "delete"} => calls[d].game \in Games
  BY <1>0, CallAssumption DEF TypeOK, EventMethods, EventCall
<1>1. ASSUME NEW c \in Process, Get(c) PROVE IdsSound'
  <2>1. \A d \in Process : Begun(d)' => Begun(d) \/ calls[d].method \notin {"create", "delete"}
    BY <1>0, <1>1 DEF Get, Begun, TypeOK
  <2> QED
    BY <1>0, <1>1, <1>a, <2>1 DEF Get
<1>2. ASSUME NEW c \in Process, Read(c) PROVE IdsSound'
  <2>1. PICK request \in todo[c] :
          seen' = [seen EXCEPT ![c] = [k \in Key |-> IF k \in request THEN store[k] ELSE seen[c][k]]]
    BY <1>2 DEF Read
  <2>2. \A d \in Process, g \in Games :
            seen'[d][<<"event", g>>] \in {seen[d][<<"event", g>>], store[<<"event", g>>]}
    BY <1>0, <2>1, EventKeyIsKey DEF TypeOK
  <2>3. \A d \in Process : Begun(d)' => Begun(d) \/ d = c
    BY <1>2 DEF Read, Begun
  <2>4. calls' = calls /\ store' = store
    BY <1>2 DEF Read
  <2>5. \A g \in Games :
            ids'[g] = IF calls[c].method = "delete" /\ g = calls[c].game THEN "gone" ELSE ids[g]
    BY <1>0, <1>2 DEF Read, TypeOK
  <2>6. calls[c].method = "create" => ids[calls[c].game] # "gone"
    BY <1>2 DEF Read, InItsLife
  <2>7. calls[c].method = "delete" =>
            \A d \in Process : calls[d].method = "create" /\ calls[d].game = calls[c].game => ~Begun(d)
    BY <1>2 DEF Read, InItsLife
  <2>8. ASSUME NEW g \in Games, ids'[g] = "new"
        PROVE  store'[<<"event", g>>] = Absent /\ \A d \in Process : seen'[d][<<"event", g>>] = Absent
    BY <1>0, <2>2, <2>4, <2>5, <2>8 DEF IdsSound
  <2>9. ASSUME NEW g \in Games, ids'[g] = "known"
        PROVE  store'[<<"event", g>>].doc \in Event
    BY <1>0, <2>4, <2>5, <2>9 DEF IdsSound
  <2>10. ASSUME NEW d \in Process, Begun(d)', calls'[d].method = "create"
         PROVE  ids'[calls'[d].game] # "gone"
    <3>1. calls[d].game \in Games /\ ids[calls[d].game] # "gone"
      BY <1>0, <1>b, <2>3, <2>4, <2>6, <2>10 DEF IdsSound
    <3>2. ~(calls[c].method = "delete" /\ calls[d].game = calls[c].game)
      BY <2>3, <2>4, <2>7, <2>10
    <3> QED
      BY <2>4, <2>5, <3>1, <3>2
  <2>11. ASSUME NEW d \in Process, Begun(d)', calls'[d].method = "delete"
         PROVE  ids'[calls'[d].game] = "gone"
    BY <1>0, <1>b, <2>3, <2>4, <2>5, <2>11 DEF IdsSound
  <2> QED
    BY <2>8, <2>9, <2>10, <2>11 DEF IdsSound
<1>3. ASSUME NEW c \in Process, ReadIndex(c) PROVE IdsSound'
  <2>1. calls[c].method \notin {"create", "delete"}
    BY <1>0, <1>3, AsksNoIndex DEF ReadIndex, TypeOK
  <2>2. \A d \in Process : Begun(d)' => Begun(d) \/ calls[d].method \notin {"create", "delete"}
    BY <1>3, <2>1 DEF ReadIndex, Begun
  <2> QED
    BY <1>3, <1>a, <2>2 DEF ReadIndex
<1>4. ASSUME NEW c \in Process, Commit(c) PROVE IdsSound'
  <2>1. \A d \in Process : Begun(d)' => Begun(d)
    BY <1>0, <1>4 DEF Commit, End, Begun, TypeOK
  <2>2. calls' = calls /\ \A d \in Process : seen'[d] \in {seen[d], Nothing}
    BY <1>0, <1>4 DEF Commit, End, TypeOK
  <2>3. calls[c].method \in {"create", "delete"} => Begun(c)
    BY <1>4, LoadedHasBegun DEF Commit
  <2>4. \A g \in Games :
            ids'[g] = IF calls[c].method = "create" /\ g = calls[c].game THEN "known" ELSE ids[g]
    BY <1>0, <1>4 DEF Commit, TypeOK
  <2>5. ASSUME NEW g \in Games, ids'[g] = "new"
        PROVE  /\ store'[<<"event", g>>] = Absent
               /\ \A d \in Process : seen'[d][<<"event", g>>] = Absent
    <3>1. /\ ~(calls[c].method = "create" /\ g = calls[c].game)
          /\ store[<<"event", g>>] = Absent
          /\ \A d \in Process : seen[d][<<"event", g>>] = Absent
      BY <1>0, <2>4, <2>5 DEF IdsSound
    <3>2. store'[<<"event", g>>] = store[<<"event", g>>]
      BY <1>0, <1>4, <3>1, CommittedEvent
    <3> QED
      BY <2>2, <3>1, <3>2, NothingShaped, EventKeyIsKey
  <2>6. ASSUME NEW g \in Games, ids[g] = "known"
        PROVE  store'[<<"event", g>>].doc \in Event
    <3> DEFINE k == <<"event", g>>
    <3>1. store[k].doc \in Event
      BY <1>0, <2>6 DEF IdsSound
    <3>2. ~(calls[c].method = "delete" /\ calls[c].game = g)
      BY <1>0, <2>3, <2>6 DEF IdsSound
    <3>3. CASE store'[k] = store[k]
      BY <3>1, <3>3
    <3>4. CASE /\ calls[c].method \in EventMethods /\ g = calls[c].game /\ calls[c] \in EventCalls
               /\ store'[k].doc = EventMethod(calls[c], store[k].doc, holders[c])
      <4>1. EventCall(calls[c]) /\ calls[c].method # "delete"
        BY <3>2, <3>4, CallAssumption
      <4> QED
        BY <3>1, <3>4, <4>1, EventMethodType
    <3> QED
      BY <1>0, <1>4, <3>3, <3>4, CommittedEvent
  <2>7. ASSUME NEW g \in Games, ids'[g] = "known"
        PROVE  store'[<<"event", g>>].doc \in Event
    <3> DEFINE k == <<"event", g>>
    <3>1. CASE ids[g] = "known"
      BY <2>6, <3>1
    <3>2. CASE ids[g] # "known"
      <4>1. calls[c].method = "create" /\ g = calls[c].game /\ ids[g] = "new"
        BY <1>0, <2>3, <2>4, <2>7, <3>2 DEF IdsSound, TypeOK
      <4>2. seen[c][k].doc = NoDoc /\ Wanted(c, k) # NoDoc /\ Wanted(c, k) \in Event \cup {NoDoc}
        <5>1. seen[c][k].doc = NoDoc
          BY <1>0, <4>1, AbsentDoc DEF IdsSound
        <5>2. calls[c].method \in EventMethods /\ EventCall(calls[c])
          BY <1>0, <4>1, CallAssumption DEF TypeOK, EventMethods
        <5>3. Wanted(c, k) = EventMethod(calls[c], NoDoc, holders[c])
          BY <4>1, <5>1, <5>2, EventKeyIsKey DEF Wanted
        <5>4. Wanted(c, k) = NewEvent(calls[c].value)
          BY <4>1, <5>3, AbsentDoc DEF EventMethod, Exists
        <5> QED
          BY <5>1, <5>2, <5>3, <5>4, EventMethodType, AbsentDoc DEF NewEvent
      <4> QED
        BY <1>0, <1>4, <4>2, CommittedEvent
    <3> QED
      BY <3>1, <3>2
  <2>8. ASSUME NEW d \in Process, Begun(d)', calls'[d].method = "create"
        PROVE  ids'[calls'[d].game] # "gone"
    BY <1>0, <1>b, <2>1, <2>2, <2>4, <2>8 DEF IdsSound
  <2>9. ASSUME NEW d \in Process, Begun(d)', calls'[d].method = "delete"
        PROVE  ids'[calls'[d].game] = "gone"
    <3>1. calls[d].game \in Games /\ ids[calls[d].game] = "gone"
      BY <1>0, <1>b, <2>1, <2>2, <2>9 DEF IdsSound
    <3>2. ~(calls[c].method = "create" /\ calls[d].game = calls[c].game)
      BY <1>0, <2>3, <3>1 DEF IdsSound
    <3> QED
      BY <2>2, <2>4, <3>1, <3>2
  <2> QED
    BY <2>5, <2>7, <2>8, <2>9 DEF IdsSound
<1>5. ASSUME NEW c \in Process, Retry(c) PROVE IdsSound'
  <2>1. \A d \in Process : Begun(d)' => Begun(d) \/ calls[d].method \notin {"create", "delete"}
    <3>1. calls[c].method \in {"create", "delete"} => Begun(c)
      BY <1>5, LoadedHasBegun DEF Retry
    <3> QED
      BY <1>5, <3>1 DEF Retry, Begun
  <2>2. \A d \in Process : seen'[d] \in {seen[d], Nothing}
    BY <1>0, <1>5 DEF Retry, TypeOK
  <2> QED
    BY <1>5, <1>a, <2>1, <2>2, NothingShaped, EventKeyIsKey DEF Retry
<1>6. ASSUME NEW c \in Process, Fail(c) PROVE IdsSound'
  <2>1. \A d \in Process : Begun(d)' => Begun(d)
    BY <1>0, <1>6 DEF Fail, End, Begun, TypeOK
  <2>2. \A d \in Process : seen'[d] \in {seen[d], Nothing}
    BY <1>0, <1>6 DEF Fail, End, TypeOK
  <2> QED
    BY <1>6, <1>a, <2>1, <2>2, NothingShaped, EventKeyIsKey DEF Fail, End
<1>7. ASSUME NEW g \in Games, Propagate(g) PROVE IdsSound'
  BY <1>7, <1>a DEF Propagate, Begun
<1>8. CASE UNCHANGED storeVars
  BY <1>8, <1>a DEF storeVars, Begun
<1> QED
  BY <1>1, <1>2, <1>3, <1>4, <1>5, <1>6, <1>7, <1>8 DEF Next

-----------------------------------------------------------------------------
(***************************************************************************)
(* Locks                                                                   *)
(***************************************************************************)

LEMMA LocksInit == Init => LocksMatch
<1> SUFFICES ASSUME Init, NEW v \in Values, NEW g \in Games
             PROVE  lock[v] = g <=> v \in UniqueValues(store[<<"event", g>>].doc)
  BY DEF LocksMatch
<1>1. PICK docs \in Stores :
        /\ store = [k \in Key |-> IF docs[k] = NoDoc THEN Absent ELSE [rev |-> 1, doc |-> docs[k]]]
        /\ lock = Owners(docs)
  BY DEF Init
<1>2. \A h \in Games : store[<<"event", h>>].doc = docs[<<"event", h>>]
  BY <1>1, EventKeyIsKey, AbsentDoc
<1>3. Unshared(docs) /\ None \notin Games
  BY StoreAssumption, MemoryAssumption
<1>4. \A h \in Games :
        v \in UniqueValues(docs[<<"event", h>>]) /\ v \in UniqueValues(docs[<<"event", g>>]) => h = g
  BY <1>3 DEF Unshared
<1>5. lock[v] =
        IF \E h \in Games : v \in UniqueValues(docs[<<"event", h>>])
        THEN CHOOSE h \in Games : v \in UniqueValues(docs[<<"event", h>>])
        ELSE None
  BY <1>1 DEF Owners
<1>6. CASE \E h \in Games : v \in UniqueValues(docs[<<"event", h>>])
  <2>1. lock[v] \in Games /\ v \in UniqueValues(docs[<<"event", lock[v]>>])
    BY <1>5, <1>6
  <2> QED
    BY <1>2, <1>4, <2>1
<1>7. CASE ~\E h \in Games : v \in UniqueValues(docs[<<"event", h>>])
  BY <1>2, <1>3, <1>5, <1>7
<1> QED
  BY <1>6, <1>7

\* A transaction puts and deletes the locks of the one game it changes.
LEMMA CommitLocks ==
    ASSUME IInv, NEW c \in Process, Commit(c) PROVE LocksMatch'
<1>0. TypeOK /\ Current /\ LocksMatch /\ LocksAccepted(c)
  BY DEF IInv, Commit, Accepted
<1> DEFINE row(g) == store[<<"event", g>>]
<1>1. ASSUME NEW g \in Games
      PROVE  \/ store'[<<"event", g>>] = row(g) /\ Taken(c, g) = {} /\ Freed(c, g) = {}
             \/ /\ g = calls[c].game
                /\ Taken(c, g) = UniqueValues(store'[<<"event", g>>].doc) \ UniqueValues(row(g).doc)
                /\ Freed(c, g) = UniqueValues(row(g).doc) \ UniqueValues(store'[<<"event", g>>].doc)
  BY <1>0, CommittedEvent DEF Taken, Freed
<1> SUFFICES ASSUME NEW v \in Values, NEW g \in Games
             PROVE  lock'[v] = g <=> v \in UniqueValues(store'[<<"event", g>>].doc)
  BY DEF LocksMatch
<1>2. /\ lock'[v] =
            IF \E h \in Games : v \in Taken(c, h) THEN CHOOSE h \in Games : v \in Taken(c, h)
            ELSE IF \E h \in Games : v \in Freed(c, h) THEN None ELSE lock[v]
      /\ \A h \in Games : lock[v] = h <=> v \in UniqueValues(row(h).doc)
      /\ None \notin Games
  BY <1>0, MemoryAssumption DEF Commit, LocksMatch
<1>3. CASE \E h \in Games : v \in Taken(c, h)
  <2>1. PICK h \in Games : v \in Taken(c, h)
    BY <1>3
  <2>2. /\ h = calls[c].game /\ \A i \in Games : v \in Taken(c, i) => i = h
        /\ v \in UniqueValues(store'[<<"event", h>>].doc)
    BY <1>1, <2>1
  <2>3. lock'[v] = h
    BY <1>2, <2>1, <2>2
  <2>4. lock[v] = None
    BY <1>0, <2>1 DEF LocksAccepted
  <2>5. \A i \in Games \ {h} : v \notin UniqueValues(store'[<<"event", i>>].doc)
    BY <1>1, <1>2, <2>2, <2>4
  <2> QED
    BY <2>2, <2>3, <2>5
<1>4. CASE ~(\E h \in Games : v \in Taken(c, h)) /\ \E h \in Games : v \in Freed(c, h)
  <2>1. PICK h \in Games : v \in Freed(c, h)
    BY <1>4
  <2>2. lock'[v] = None /\ lock[v] = h
    BY <1>0, <1>2, <1>4, <2>1 DEF LocksAccepted
  <2>3. h = calls[c].game /\ v \notin UniqueValues(store'[<<"event", h>>].doc)
    BY <1>1, <2>1
  <2>4. \A i \in Games \ {h} : v \notin UniqueValues(store'[<<"event", i>>].doc)
    BY <1>1, <1>2, <2>2, <2>3
  <2> QED
    BY <1>2, <2>2, <2>3, <2>4
<1>5. CASE ~(\E h \in Games : v \in Taken(c, h)) /\ ~(\E h \in Games : v \in Freed(c, h))
  <2>1. lock'[v] = lock[v]
    BY <1>2, <1>5
  <2>2. v \in UniqueValues(store'[<<"event", g>>].doc) <=> v \in UniqueValues(row(g).doc)
    BY <1>1, <1>5
  <2> QED
    BY <1>2, <2>1, <2>2
<1> QED
  BY <1>3, <1>4, <1>5

LEMMA LocksStep == IInv /\ [Next]_storeVars => LocksMatch'
<1> SUFFICES ASSUME IInv, [Next]_storeVars PROVE LocksMatch'
  OBVIOUS
<1>1. ASSUME store' = store, lock' = lock PROVE LocksMatch'
  BY <1>1 DEF IInv, LocksMatch
<1>2. CASE UNCHANGED storeVars
  BY <1>1, <1>2 DEF storeVars
<1>3. ASSUME NEW c \in Process, Get(c) \/ Read(c) \/ ReadIndex(c) \/ Retry(c) \/ Fail(c)
      PROVE  LocksMatch'
  BY <1>1, <1>3 DEF Get, Read, ReadIndex, Retry, Fail
<1>4. ASSUME NEW g \in Games, Propagate(g) PROVE LocksMatch'
  BY <1>1, <1>4 DEF Propagate
<1> QED
  BY <1>2, <1>3, <1>4, CommitLocks DEF Next

-----------------------------------------------------------------------------
(***************************************************************************)
(* Theorems                                                                *)
(***************************************************************************)

\* The tables keep their shape, locks are those of the rows, and what a call has
\* loaded is out of date only if it can be seen from the revisions.
THEOREM Invariant == Spec => []IInv
<1>1. Init => IInv
  <2> SUFFICES ASSUME Init PROVE Current
    BY TypeInit, IdsInit, LocksInit DEF IInv
  <2>1. \A c \in Process : seen[c] = Nothing
    BY DEF Init
  <2> QED
    BY <2>1, NothingShaped, EventKeyIsKey DEF Current
<1>2. IInv /\ [Next]_storeVars => IInv'
  BY TypeStep, CurrentStep, IdsStep, LocksStep DEF IInv
<1> QED
  BY <1>1, <1>2, PTL DEF Spec

\* Whatever the calls are and however many overlap, two games never share a signup
\* token or a Telegram chat.
THEOREM UniqueValuesStay == Spec => []ValuesAreUnique
<1>1. IInv => ValuesAreUnique
  <2> SUFFICES ASSUME IInv, NEW g \in Games, NEW h \in Games, g # h,
                      NEW v, v \in UniqueValues(store[<<"event", g>>].doc),
                      v \in UniqueValues(store[<<"event", h>>].doc)
               PROVE  FALSE
    BY DEF ValuesAreUnique
  <2>1. v \in Values
    BY UniqueValuesType DEF IInv, TypeOK
  <2> QED
    BY <2>1 DEF IInv, LocksMatch
<1> QED
  BY <1>1, Invariant, PTL

\* No transaction overwrites an item that its call has not read in its last version.
THEOREM UpdatesAreKept == Spec => NoLostUpdate
<1>1. ASSUME IInv, [Next]_storeVars, NEW c \in Process, Loaded(c), pc'[c] = "done",
             NEW k \in Key, k \in Written(c) \ outdated[c], store'[k] # store[k]
      PROVE  store[k] = seen[c][k]
  <2>0. TypeOK /\ Current
    BY <1>1 DEF IInv
  <2>1. PICK d \in Process : Commit(d)
    BY <1>1 DEF Next, storeVars, Get, Read, ReadIndex, Retry, Fail, Propagate
  <2>2. d = c
    BY <1>1, <2>0, <2>1 DEF Commit, End, Loaded, TypeOK
  <2> QED
    BY <1>1, <2>0, <2>1, <2>2, AcceptedIsCurrent DEF Commit
<1>2. IInv /\ [Next]_storeVars =>
        [\A c \in Process :
            (Loaded(c) /\ pc'[c] = "done") =>
                \A k \in Key :
                    (k \in Written(c) \ outdated[c] /\ store'[k] # store[k]) =>
                        store[k] = seen[c][k]]_storeVars
  BY <1>1
<1> QED
  BY <1>2, Invariant, PTL DEF Spec, NoLostUpdate

-----------------------------------------------------------------------------
(***************************************************************************)
(* Refinement                                                              *)
(***************************************************************************)

\* The two specifications use the same methods.
LEMMA SameMethods ==
    ASSUME NEW call, NEW event, NEW others
    PROVE  Memory!EventMethod(call, event, others) = EventMethod(call, event, others)
<1>1. /\ Memory!Exists(event) = Exists(event) /\ Memory!NoDoc = NoDoc
      /\ Memory!NewEvent(call.value) = NewEvent(call.value)
  BY DEF Memory!Exists, Exists, Memory!NoDoc, NoDoc, Memory!NewEvent, NewEvent
<1>2. /\ Memory!SetStatus(event, call.value) = SetStatus(event, call.value)
      /\ Memory!BindChat(event, call.chat, others) = BindChat(event, call.chat, others)
      /\ Memory!MigrateChat(event, call.value, call.chat, others) =
            MigrateChat(event, call.value, call.chat, others)
      /\ Memory!Archive(event) = Archive(event) /\ Memory!Unarchive(event) = Unarchive(event)
  BY Zenon DEF Memory!SetStatus, SetStatus, Memory!BindChat, BindChat, Memory!MigrateChat, MigrateChat,
     Memory!Archive, Archive, Memory!Unarchive, Unarchive
<1>3. /\ Memory!StartClose(event, call.op) = StartClose(event, call.op)
      /\ Memory!CompleteClose(event, call.op) = CompleteClose(event, call.op)
      /\ Memory!OpenConfirmation(event) = OpenConfirmation(event)
      /\ Memory!SetLink(event, call.op) = SetLink(event, call.op)
  BY <1>2, Zenon DEF Memory!StartClose, StartClose, Memory!CompleteClose, CompleteClose,
     Memory!OpenConfirmation, OpenConfirmation, Memory!SetLink, SetLink
<1> QED
  BY <1>1, <1>2, <1>3 DEF Memory!EventMethod, EventMethod

\* The methods ask of the other games only whether one has the chat.
LEMMA OthersMatterAsOne ==
    ASSUME NEW call, NEW event, NEW others, NEW holding, others = {} <=> holding = {}
    PROVE  EventMethod(call, event, others) = EventMethod(call, event, holding)
BY DEF EventMethod, BindChat, MigrateChat

\* If another game has the chat, a method leaves the row alone; otherwise the row gets
\* the chat, or the other games did not matter.
LEMMA ChatTaken ==
    ASSUME NEW call, EventCall(call), call.method \in EventMethods,
           NEW event \in Event \cup {NoDoc}, NEW others, others # {},
           EventMethod(call, event, others) # EventMethod(call, event, {})
    PROVE  /\ EventMethod(call, event, others) = event
           /\ call.chat \in UniqueValues(EventMethod(call, event, {})) \ UniqueValues(event)
<1>1. event \in Event /\ Exists(event)
  BY AbsentDoc DEF EventMethod, Exists
<1>2. call.method \in {"bind_telegram_chat", "migrate_telegram_chat"}
  BY <1>1 DEF EventMethod
<1>3. call.chat \in Chats /\ call.chat # None
  BY <1>2, MemoryAssumption DEF EventCall
<1>4. CASE call.method = "bind_telegram_chat"
  <2>1. /\ EventMethod(call, event, others) = BindChat(event, call.chat, others)
        /\ EventMethod(call, event, {}) = BindChat(event, call.chat, {})
    BY <1>1, <1>4 DEF EventMethod
  <2>2. event.chat = None
    BY <2>1 DEF BindChat
  <2> QED
    BY <1>1, <1>3, <2>1, <2>2, MemoryAssumption DEF BindChat, UniqueValues, Event
<1>5. CASE call.method = "migrate_telegram_chat"
  <2>1. /\ EventMethod(call, event, others) = MigrateChat(event, call.value, call.chat, others)
        /\ EventMethod(call, event, {}) = MigrateChat(event, call.value, call.chat, {})
    BY <1>1, <1>5 DEF EventMethod
  <2>2. event.chat # call.chat
    BY <1>1, <2>1 DEF MigrateChat, Event
  <2> QED
    BY <1>1, <1>3, <2>1, <2>2, MemoryAssumption DEF MigrateChat, UniqueValues, Event
<1> QED
  BY <1>2, <1>4, <1>5

\* The rows of the games.
EventRows == [g \in Games |-> store[<<"event", g>>].doc]

\* A transaction is one call of the method on the stored rows, or changes none.
LEMMA CommitRuns ==
    ASSUME IInv, NEW c \in Process, Commit(c)
    PROVE  \/ EventRows' = EventRows
           \/ calls[c] \in EventCalls /\ Memory!Run(calls[c])
<1> DEFINE call == calls[c]
           k == <<"event", call.game>>
           row == store[k].doc
           others == {h \in Games \ {call.game} :
                        Exists(EventRows[h]) /\ EventRows[h].chat = call.chat}
<1>0. TypeOK /\ Current /\ LocksMatch /\ LocksAccepted(c)
  BY DEF IInv, Commit, Accepted
<1>1. CASE \A g \in Games : store'[<<"event", g>>] = store[<<"event", g>>]
  BY <1>1 DEF EventRows
<1>2. CASE ~\A g \in Games : store'[<<"event", g>>] = store[<<"event", g>>]
  <2>1. /\ call.game \in Games /\ call \in EventCalls /\ call.method \in EventMethods
        /\ store[k] = seen[c][k]
        /\ store'[k].doc = EventMethod(call, row, holders[c])
        /\ Wanted(c, k) = EventMethod(call, row, holders[c])
        /\ \A g \in Games \ {call.game} : store'[<<"event", g>>] = store[<<"event", g>>]
    BY <1>0, <1>2, CommittedEvent
  <2>2. EventRows' = [EventRows EXCEPT ![call.game] = EventMethod(call, row, holders[c])]
    BY <2>1 DEF EventRows
  <2>3. row \in Event \cup {NoDoc} /\ EventCall(call) /\ EventRows[call.game] = row
    BY <1>0, <2>1, CallAssumption DEF TypeOK, EventRows
  <2>4. CASE EventMethod(call, row, holders[c]) = EventMethod(call, row, others)
    <3>1. EventRows' =
            [EventRows EXCEPT ![call.game] = EventMethod(call, EventRows[call.game], others)]
      BY <2>2, <2>3, <2>4
    <3>2. Memory!Holders(call) = others
      BY DEF Memory!Holders, Memory!Exists, Exists, EventRows
    <3> QED
      BY <2>1, <3>1, <3>2, SameMethods DEF Memory!Run, EventRows
  <2>5. CASE EventMethod(call, row, holders[c]) # EventMethod(call, row, others)
    <3>1. ~(holders[c] = {} <=> others = {})
      BY <2>5, OthersMatterAsOne
    <3>2. CASE others = {}
      <4>1. holders[c] # {} /\ EventMethod(call, row, holders[c]) # EventMethod(call, row, {})
        BY <2>5, <3>1, <3>2
      <4>2. EventMethod(call, row, holders[c]) = row
        BY <2>1, <2>3, <4>1, ChatTaken
      <4> QED
        BY <2>2, <2>3, <4>2 DEF EventRows
    <3>3. CASE holders[c] = {} /\ others # {}
      <4>0. EventMethod(call, row, others) # EventMethod(call, row, {})
        BY <2>5, <3>3
      <4>1. call.chat \in UniqueValues(EventMethod(call, row, {})) \ UniqueValues(row)
        BY <2>1, <2>3, <3>3, <4>0, ChatTaken
      <4>2. call.chat \in Taken(c, call.game)
        BY <2>1, <3>3, <4>1 DEF Taken
      <4>3. lock[call.chat] = None
        BY <1>0, <2>1, <4>2 DEF LocksAccepted
      <4>4. call.chat \in Values /\ call.chat # None
        BY <2>3, <4>1, EventMethodType, UniqueValuesType, <2>1, MemoryAssumption DEF Values
      <4>5. PICK h \in Games : Exists(EventRows[h]) /\ EventRows[h].chat = call.chat
        BY <3>3
      <4>6. call.chat \in UniqueValues(store[<<"event", h>>].doc)
        <5>1. EventRows[h] = store[<<"event", h>>].doc /\ EventRows[h] \in Event
          BY <1>0, <4>5, AbsentDoc DEF EventRows, TypeOK, Exists
        <5> QED
          BY <4>4, <4>5, <5>1 DEF UniqueValues, Event
      <4>7. lock[call.chat] = h
        BY <1>0, <4>4, <4>6 DEF LocksMatch
      <4> QED
        BY <4>3, <4>7, MemoryAssumption
    <3> QED
      BY <3>1, <3>2, <3>3
  <2> QED
    BY <2>4, <2>5
<1> QED
  BY <1>1, <1>2

\* Overlapping calls change the games' rows as the in-memory methods do, one call after
\* the other, although a call asks an index that lags behind.
THEOREM MemoryImplemented == Spec => ImplementsMemory
<1>1. Init => Memory!Init
  <2> SUFFICES ASSUME Init, NEW g \in Games PROVE store[<<"event", g>>].doc \in Event \cup {NoDoc}
    BY DEF Memory!Init, Memory!Event, Memory!NoDoc, Event, NoDoc
  <2> QED
    BY TypeInit DEF TypeOK
<1>2. IInv /\ [Next]_storeVars => [Memory!Next]_EventRows
  <2> SUFFICES ASSUME IInv, [Next]_storeVars PROVE Memory!Next \/ EventRows' = EventRows
    BY DEF EventRows
  <2>1. CASE store' = store
    BY <2>1 DEF EventRows
  <2>2. CASE \E c \in Process : Commit(c)
    <3>1. PICK c \in Process : Commit(c)
      BY <2>2
    <3>2. EventRows' = EventRows \/ (calls[c] \in EventCalls /\ Memory!Run(calls[c]))
      BY <3>1, CommitRuns
    <3>3. CASE EventRows' = EventRows
      BY <3>3
    <3>4. CASE calls[c] \in EventCalls /\ Memory!Run(calls[c])
      <4>1. \E call \in EventCalls : Memory!Run(call)
        BY <3>4, Zenon DEF Memory!Run, Memory!Holders
      <4> QED
        BY <4>1 DEF Memory!Next
    <3> QED
      BY <3>2, <3>3, <3>4
  <2> QED
    BY <2>1, <2>2 DEF Next, storeVars, Get, Read, ReadIndex, Retry, Fail, Propagate
<1> QED
  BY <1>1, <1>2, Invariant, PTL DEF Spec, ImplementsMemory, Memory!Spec, EventRows
===============================================================================
