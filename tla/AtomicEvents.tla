------------------------------ MODULE AtomicEvents ------------------------------
(***************************************************************************)
(* What the event repository on DynamoDB promises (the docstring of        *)
(* _DynamoMemoryRepository, adapters/aws/dynamodb.py): the methods of the  *)
(* in-memory repository, each run in one step on the rows of that moment.  *)
(***************************************************************************)
EXTENDS MemoryRepositories

CONSTANT EventCalls  \* the calls that may be made

VARIABLE events      \* the row of every game

\* The other games that have the chat a call asks for.
Holders(call) == {g \in Games \ {call.game} : Exists(events[g]) /\ events[g].chat = call.chat}

Init == events \in [Games -> Event \cup {NoDoc}]

Run(call) ==
    events' = [events EXCEPT ![call.game] = EventMethod(call, events[call.game], Holders(call))]

Next == \E call \in EventCalls : Run(call)

Spec == Init /\ [][Next]_events
===============================================================================
