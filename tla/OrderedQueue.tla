----------------------------- MODULE OrderedQueue -----------------------------
(***************************************************************************)
(* How commands travel: adapters/ymq/client.py publishes a command to the  *)
(* FIFO queue and then a wake-up ("kick") to a standard queue;             *)
(* functions/ordered_worker/handler.py is invoked for kicks and            *)
(* application/worker.py drains the FIFO queue.                            *)
(*                                                                         *)
(* The two queues are external.  A received FIFO message is leased to its  *)
(* receiver and, while any message of a group is leased, the group is not  *)
(* delivered.  A lease outlives the worker's own deadline (180 s against   *)
(* 40 s), so only the leases of a worker that was killed, or failed to     *)
(* give one back, run out.                                                 *)
(*                                                                         *)
(* Definitions whose comment begins with "Variant" are plausible mistakes; *)
(* no specification uses them.                                             *)
(***************************************************************************)
EXTENDS Naturals, Sequences, FiniteSets, SequencesExt

CONSTANTS
    Commands,       \* operation ids of the commands clients publish
    Groups,         \* FIFO message groups
    GroupOf,        \* queue_group_id of each command
    Background,     \* the groups of SYNC_PROFILE commands, one per user
    Workers,        \* instances of the worker function
    BatchSize,      \* messages received at once
    TriggerBatch,   \* kicks the trigger hands to one invocation
    StaleCounters,  \* the queue's approximate counters may miss leased messages
    MaxFailures     \* bound: calls that fail, deadlines and killed instances

ASSUME OrderedQueueAssumption ==
    /\ GroupOf \in [Commands -> Groups] /\ Background \subseteq Groups
    /\ "free" \notin Workers /\ "lost" \notin Workers
    /\ BatchSize \in Nat \ {0} /\ TriggerBatch \in Nat \ {0}
    /\ StaleCounters \in BOOLEAN /\ MaxFailures \in Nat

Free == "free"      \* the message is visible

Lost == "lost"      \* leased to nobody who will give it back

VARIABLES
    progress,   \* what the publisher of a command has reached
    seen,       \* deduplication ids the FIFO queue remembers
    fifo,       \* messages of each group, in order
    lease,      \* who holds a message
    kicks,      \* visible kicks
    worker,     \* the state of each worker instance
    failures    \* failures so far

vars == <<progress, seen, fifo, lease, kicks, worker, failures>>

Phases == {"idle", "receive", "batch", "release", "count", "wake", "acknowledge"}

Worker == [phase : Phases, batch : Seq(Commands), running : BOOLEAN, failedGroups : SUBSET Groups,
           processed : BOOLEAN, kicks : Nat]

Idle == [phase |-> "idle", batch |-> <<>>, running |-> FALSE, failedGroups |-> {},
         processed |-> FALSE, kicks |-> 0]

TypeOK ==
    /\ progress \in [Commands -> {"new", "durable", "kicked"}]
    /\ seen \subseteq Commands
    /\ fifo \in [Groups -> Seq(Commands)]
    /\ lease \in [Commands -> Workers \cup {Free, Lost}]
    /\ kicks \in Nat
    /\ worker \in [Workers -> Worker]
    /\ \A w \in Workers : worker[w].running => worker[w].batch # <<>>
    /\ failures \in 0 .. MaxFailures

Init ==
    /\ progress = [c \in Commands |-> "new"]
    /\ seen = {}
    /\ fifo = [g \in Groups |-> <<>>]
    /\ lease = [c \in Commands |-> Free]
    /\ kicks = 0
    /\ worker = [w \in Workers |-> Idle]
    /\ failures = 0

Fails == failures < MaxFailures /\ failures' = failures + 1

-----------------------------------------------------------------------------
(***************************************************************************)
(* YmqCommandPublisher                                                     *)
(***************************************************************************)

\* MessageDeduplicationId = operation_id
AppendOnce(c) == IF c \in seen THEN fifo ELSE [fifo EXCEPT ![GroupOf[c]] = Append(@, c)]

SendCommand(c) ==
    /\ progress[c] = "new"
    /\ progress' = [progress EXCEPT ![c] = "durable"]
    /\ fifo' = AppendOnce(c)
    /\ seen' = seen \cup {c}
    /\ UNCHANGED <<lease, kicks, worker, failures>>

SendKick(c) ==
    /\ progress[c] = "durable"
    /\ progress' = [progress EXCEPT ![c] = "kicked"]
    /\ kicks' = kicks + 1
    /\ UNCHANGED <<seen, fifo, lease, worker, failures>>

\* The gateway fails before the kick; the platform delivers the update again,
\* and the same operation id is published once more.
PublishFails(c) ==
    /\ progress[c] = "durable" /\ Fails
    /\ progress' = [progress EXCEPT ![c] = "new"]
    /\ UNCHANGED <<seen, fifo, lease, kicks, worker>>

-----------------------------------------------------------------------------
(***************************************************************************)
(* OrderedCommandWorker                                                    *)
(***************************************************************************)
Become(w, phase) == worker' = [worker EXCEPT ![w].phase = phase]

Held(w) == {c \in Commands : lease[c] = w}

Blocked(g) == \E c \in Commands : GroupOf[c] = g /\ lease[c] # Free

\* Deliveries of at most BatchSize messages; of each group, a prefix.
Deliveries ==
    LET available == {g \in Groups : fifo[g] # <<>> /\ ~Blocked(g)}
        counts == {n \in [available -> 0 .. BatchSize] :
                      \A g \in available : n[g] <= Len(fifo[g])}
        messages(n) == UNION {{fifo[g][i] : i \in 1 .. n[g]} : g \in available}
        batches == {S \in SUBSET Commands : IsFiniteSet(S) /\ Cardinality(S) <= BatchSize}
    IN  {messages(n) : n \in counts} \cap batches

\* The orders in which a delivery may come: the order of each group is kept.
Orders(S) ==
    {s \in SetToSeqs(S) : \A i, j \in DOMAIN s :
        i < j /\ GroupOf[s[i]] = GroupOf[s[j]]
        => \E k, l \in DOMAIN fifo[GroupOf[s[i]]] :
               k < l /\ fifo[GroupOf[s[i]]][k] = s[i] /\ fifo[GroupOf[s[i]]][l] = s[j]}

\* envelopes.sort: the profile synchronisations go last.  The sort is stable, so
\* it turns an order of a delivery into a sorted order of the same delivery.
BackgroundLast(s) ==
    \A i, j \in DOMAIN s : i < j /\ GroupOf[s[i]] \in Background => GroupOf[s[j]] \in Background

Invoke(w) ==
    /\ worker[w].phase = "idle"
    /\ \E n \in 1 .. TriggerBatch :
        /\ n <= kicks
        /\ kicks' = kicks - n
        /\ worker' = [worker EXCEPT ![w].phase = "receive", ![w].kicks = n]
    /\ UNCHANGED <<progress, seen, fifo, lease, failures>>

Receive(w) ==
    /\ worker[w].phase = "receive"
    /\ \E S \in Deliveries \ {{}} :
        /\ \E s \in Orders(S) :
            /\ BackgroundLast(s)
            /\ worker' = [worker EXCEPT ![w].phase = "batch", ![w].batch = s]
        /\ lease' = [c \in Commands |-> IF c \in S THEN w ELSE lease[c]]
    /\ UNCHANGED <<progress, seen, fifo, kicks, failures>>

\* Nothing to receive, or no time left after some work: the loop ends.
StopDraining(w) ==
    /\ worker[w].phase = "receive"
    /\ \/ Deliveries \subseteq {{}}
       \/ worker[w].processed \/ worker[w].failedGroups # {}
    /\ Become(w, "release")
    /\ UNCHANGED <<progress, seen, fifo, lease, kicks, failures>>

NextCommand(w) == Head(worker[w].batch)

\* Variant: every command of the batch is tried.
MayStartAny(w) == TRUE

\* A command is not tried after an earlier one of its group has failed.
MayStart(w) == GroupOf[NextCommand(w)] \notin worker[w].failedGroups

Start(w) ==
    /\ worker[w].phase = "batch" /\ worker[w].batch # <<>> /\ ~worker[w].running
    /\ worker' = IF MayStart(w) THEN [worker EXCEPT ![w].running = TRUE]
                 ELSE [worker EXCEPT ![w].batch = Tail(@)]
    /\ UNCHANGED <<progress, seen, fifo, lease, kicks, failures>>

EndBatch(w) ==
    /\ worker[w].phase = "batch" /\ worker[w].batch = <<>>
    /\ Become(w, "receive")
    /\ UNCHANGED <<progress, seen, fifo, lease, kicks, failures>>

\* Deletion of a message from its group.
Deleted(messages, c) ==
    IF \E i \in DOMAIN messages : messages[i] = c
    THEN RemoveAt(messages, CHOOSE i \in DOMAIN messages : messages[i] = c)
    ELSE messages

\* Applied, answered, deleted from the queue by its receipt.
Finish(w) ==
    /\ worker[w].running
    /\ LET c == NextCommand(w) IN
        /\ fifo' = [fifo EXCEPT ![GroupOf[c]] = Deleted(@, c)]
        /\ lease' = [lease EXCEPT ![c] = Free]
    /\ worker' = [worker EXCEPT ![w].running = FALSE, ![w].batch = Tail(@), ![w].processed = TRUE]
    /\ UNCHANGED <<progress, seen, kicks, failures>>

\* except Exception: the group is left alone for the rest of the run.
FailCommand(w) ==
    /\ worker[w].running /\ Fails
    /\ worker' = [worker EXCEPT ![w].running = FALSE, ![w].batch = Tail(@),
                                ![w].failedGroups = @ \cup {GroupOf[NextCommand(w)]}]
    /\ UNCHANGED <<progress, seen, fifo, lease, kicks>>

\* asyncio.timeout, in the middle of a command or of a receive: the run raises
\* as if every group had failed.
Deadline(w) ==
    /\ worker[w].phase \in {"receive", "batch"} /\ Fails
    /\ worker' = [worker EXCEPT ![w].phase = "release", ![w].running = FALSE, ![w].batch = <<>>,
                                ![w].failedGroups = Groups]
    /\ UNCHANGED <<progress, seen, fifo, lease, kicks>>

\* The finally clause of run: every receipt that is not settled is given back.
Release(w) ==
    /\ worker[w].phase = "release"
    /\ \E c \in Held(w) :
        \/ lease' = [lease EXCEPT ![c] = Free] /\ UNCHANGED failures
        \/ Fails /\ lease' = [lease EXCEPT ![c] = Lost]
    /\ UNCHANGED <<progress, seen, fifo, kicks, worker>>

\* A run in which a command failed raises; the trigger makes its kicks visible.
EndRun(w) ==
    /\ worker[w].phase = "release" /\ Held(w) = {}
    /\ IF worker[w].failedGroups # {}
       THEN /\ kicks' = kicks + worker[w].kicks
            /\ worker' = [worker EXCEPT ![w] = Idle]
       ELSE Become(w, "count") /\ UNCHANGED kicks
    /\ UNCHANGED <<progress, seen, fifo, lease, failures>>

-----------------------------------------------------------------------------
(***************************************************************************)
(* continue_if_pending, and the end of the invocation                      *)
(***************************************************************************)

\* Variant: ApproximateNumberOfMessages alone.
VisibleBacklog == {c \in Commands : c \in ToSet(fifo[GroupOf[c]]) /\ lease[c] = Free}

\* Both counters, visible and not visible messages.
Backlog == {c \in Commands : c \in ToSet(fifo[GroupOf[c]])}

\* Variant: a run that has processed something looks no further.
MustContinueIfIdle(w) == ~worker[w].processed /\ Backlog # {}

MustContinue(w) == worker[w].processed \/ Backlog # {}

Count(w) ==
    /\ worker[w].phase = "count"
    /\ \/ Become(w, IF MustContinue(w) THEN "wake" ELSE "acknowledge")
       \/ /\ StaleCounters /\ ~worker[w].processed
          /\ \A c \in Backlog : lease[c] # Free
          /\ Become(w, "acknowledge")
    /\ UNCHANGED <<progress, seen, fifo, lease, kicks, failures>>

Wake(w) ==
    /\ worker[w].phase = "wake"
    /\ \/ kicks' = kicks + 1 /\ Become(w, "acknowledge") /\ UNCHANGED failures
       \/ Fails /\ kicks' = kicks + worker[w].kicks /\ worker' = [worker EXCEPT ![w] = Idle]
    /\ UNCHANGED <<progress, seen, fifo, lease>>

\* The invocation returns and the trigger deletes its kicks.
Acknowledge(w) ==
    /\ worker[w].phase = "acknowledge"
    /\ worker' = [worker EXCEPT ![w] = Idle]
    /\ UNCHANGED <<progress, seen, fifo, lease, kicks, failures>>

\* The platform kills the instance: nothing is given back but the kicks.
Kill(w) ==
    /\ worker[w].phase # "idle" /\ Fails
    /\ lease' = [c \in Commands |-> IF lease[c] = w THEN Lost ELSE lease[c]]
    /\ kicks' = kicks + worker[w].kicks
    /\ worker' = [worker EXCEPT ![w] = Idle]
    /\ UNCHANGED <<progress, seen, fifo>>

\* The visibility timeout of a message runs out.
Expire(c) ==
    /\ lease[c] = Lost
    /\ lease' = [lease EXCEPT ![c] = Free]
    /\ UNCHANGED <<progress, seen, fifo, kicks, worker, failures>>

-----------------------------------------------------------------------------
WorkerStep(w) ==
    \/ Invoke(w) \/ Receive(w) \/ StopDraining(w) \/ Start(w) \/ EndBatch(w) \/ Finish(w)
    \/ Release(w) \/ EndRun(w) \/ Count(w) \/ Wake(w) \/ Acknowledge(w)

Failure(w) == FailCommand(w) \/ Deadline(w) \/ Kill(w)

Next ==
    \/ \E c \in Commands : SendCommand(c) \/ SendKick(c) \/ PublishFails(c) \/ Expire(c)
    \/ \E w \in Workers : WorkerStep(w) \/ Failure(w)

Spec == Init /\ [][Next]_vars

\* The platforms deliver an update again until its webhook succeeds, the trigger
\* invokes the worker while kicks are visible, an invocation goes on, and leases
\* run out.
Fairness ==
    /\ \A c \in Commands : WF_vars(SendCommand(c) \/ SendKick(c)) /\ WF_vars(Expire(c))
    /\ \A w \in Workers : WF_vars(WorkerStep(w))

FairSpec == Spec /\ Fairness

-----------------------------------------------------------------------------
(***************************************************************************)
(* Properties                                                              *)
(***************************************************************************)

\* While commands wait, something will start a worker again: a visible kick,
\* an invocation that has not returned, or a publisher that has still to send
\* its kick (client.py:62 "Preserve a wake-up until those leases expire").
BacklogKeepsWakeup ==
    Backlog # {} =>
        \/ kicks > 0
        \/ \E w \in Workers : worker[w].phase # "idle"
        \/ \E c \in seen : progress[c] # "kicked"

\* The command of a group that a worker is applying.
Applying(g) ==
    {NextCommand(w) : w \in {v \in Workers : worker[v].running /\ GroupOf[NextCommand(v)] = g}}

\* Whatever is retried, killed or published twice, the commands of a group are
\* applied one at a time, in the order of their publication.
Promise == INSTANCE CommandGroups WITH
    pending <- fifo, busy <- [g \in Groups |-> Applying(g)], accepted <- seen

ImplementsGroups == Promise!Spec

\* Every command that has reached the FIFO queue is applied in the end, when
\* failures stop.
EveryCommandApplied ==
    \A c \in Commands : (c \in seen) ~> (c \notin Backlog)
===============================================================================
