---------------------------- MODULE ReceiptCollector ----------------------------
(***************************************************************************)
(* ReceiptCollector (bench-core/receipt_metrics.rs): submissions register  *)
(* accepted transactions, a background task polls for the receipt of each, *)
(* with a bounded number of lookups under way, until it is told to finish. *)
(***************************************************************************)
EXTENDS Integers, Sequences, FiniteSets

CONSTANTS
    Collections,    \* the registrations to check, and the number of workers
    ReceiptTimeout, \* RECEIPT_TIMEOUT in poll intervals
    MaxTime,        \* bound: poll intervals; what is registered can time out within it
    MaxErrors       \* bound: lookups that fail

(* A collection: tracked, the registrations [hash, instance] in the order  *)
(* they are made (the instance stands for the labels too), and workers.    *)
CollectionAssumption ==
    /\ ReceiptTimeout \in Nat
    /\ \A c \in Collections : c.workers \in Nat \ {0} /\ c.tracked \in Seq({c.tracked[i] : i \in DOMAIN c.tracked})

VARIABLES
    config,
    now,
    included,   \* hashes the node has a receipt of
    errors,     \* lookups that failed so far
    caller,     \* the registrations made and accepted, and whether finish was called
    collector,  \* run_collector: phase, queue, seen, records, dropped
    task        \* collect_receipt: [at, deadline] of each request being polled

Hashes == {config.tracked[i].hash : i \in DOMAIN config.tracked}
Idle == [at |-> "none", deadline |-> 0, key |-> <<>>]
-----------------------------------------------------------------------------
(* ReceiptCollectorHandle                                                  *)

Key(request) == <<request.hash, request.instance>>

\* A registration after the queue was closed is ignored.
Track ==
    /\ caller.next <= Len(config.tracked) /\ now + ReceiptTimeout <= MaxTime
    /\ LET tracked == config.tracked[caller.next]
           request == [hash |-> tracked.hash, instance |-> tracked.instance, deadline |-> now + ReceiptTimeout]
       IN  IF collector.open
             THEN /\ collector' = [collector EXCEPT !.queue = Append(@, request)]
                  /\ caller' = [caller EXCEPT !.next = @ + 1, !.accepted = @ \cup {Key(request)}]
             ELSE caller' = [caller EXCEPT !.next = @ + 1] /\ UNCHANGED collector
    /\ UNCHANGED <<config, now, included, errors, task>>

\* finish: the signal; the caller waits for the task.
Finish ==
    /\ ~caller.finish
    /\ caller' = [caller EXCEPT !.finish = TRUE]
    /\ UNCHANGED <<config, now, included, errors, collector, task>>
-----------------------------------------------------------------------------
(* run_collector                                                           *)

Spawned == {i \in DOMAIN task : task[i].at # "none"}

Close ==
    /\ caller.finish /\ collector.open
    /\ collector' = [collector EXCEPT !.open = FALSE]
    /\ UNCHANGED <<config, now, included, errors, caller, task>>

\* The next request: one that was seen before, with the same labels and
\* instance, is not polled again.
Receive ==
    /\ ~collector.done /\ collector.queue # <<>>
    /\ LET request == Head(collector.queue)
           slot == Cardinality(collector.seen) + 1
       IN  IF Key(request) \in collector.seen
             THEN collector' = [collector EXCEPT !.queue = Tail(@)] /\ UNCHANGED task
             ELSE /\ collector' = [collector EXCEPT !.queue = Tail(@), !.seen = @ \cup {Key(request)}]
                  /\ task' = [task EXCEPT ![slot] = [at |-> "permit", deadline |-> request.deadline, key |-> Key(request)]]
    /\ UNCHANGED <<config, now, included, errors, caller>>

\* join_next and record_task_result
Join(i) ==
    /\ ~collector.done /\ task[i].at \in {"found", "late"}
    /\ collector' = [collector EXCEPT !.records = IF task[i].at = "found" THEN Append(@, task[i].key) ELSE @,
                                      !.dropped = IF task[i].at = "late" THEN @ \cup {task[i].key} ELSE @]
    /\ task' = [task EXCEPT ![i].at = "none"]
    /\ UNCHANGED <<config, now, included, errors, caller>>

\* fault: what is still queued when the signal is seen is not waited for
CanStopEarly == ~collector.open /\ Spawned = {}

CanStop == ~collector.open /\ collector.queue = <<>> /\ Spawned = {}

Stop ==
    /\ ~collector.done /\ CanStop
    /\ collector' = [collector EXCEPT !.done = TRUE]
    /\ UNCHANGED <<config, now, included, errors, caller, task>>
-----------------------------------------------------------------------------
(* collect_receipt                                                         *)

Asking == {i \in DOMAIN task : task[i].at = "asking"}

AcquireUnlimited(i) ==  \* fault
    /\ task[i].at = "permit"
    /\ task' = [task EXCEPT ![i].at = "asking"]
    /\ UNCHANGED <<config, now, included, errors, caller, collector>>

Acquire(i) ==
    /\ task[i].at = "permit" /\ Cardinality(Asking) < config.workers
    /\ task' = [task EXCEPT ![i].at = "asking"]
    /\ UNCHANGED <<config, now, included, errors, caller, collector>>

\* The answer: a receipt, or none yet; an error counts as none.
Answer(i, fails) ==
    /\ task[i].at = "asking" /\ (fails => errors < MaxErrors)
    /\ errors' = IF fails THEN errors + 1 ELSE errors
    /\ task' = [task EXCEPT ![i] =
          IF ~fails /\ Head(@.key) \in included THEN [@ EXCEPT !.at = "found"]
          ELSE IF now >= @.deadline THEN [@ EXCEPT !.at = "late"]
          ELSE [@ EXCEPT !.at = "sleep"]]
    /\ UNCHANGED <<config, now, included, caller, collector>>

\* timeout_at, for the permit and for the answer
TimeOut(i) ==
    /\ task[i].at \in {"permit", "asking"} /\ now >= task[i].deadline
    /\ task' = [task EXCEPT ![i].at = "late"]
    /\ UNCHANGED <<config, now, included, errors, caller, collector>>

\* Time in poll intervals: all that sleep are woken, also those that started
\* to within the interval.
Tick ==
    /\ now < MaxTime
    /\ now' = now + 1
    /\ task' = [i \in DOMAIN task |-> IF task[i].at = "sleep" THEN [task[i] EXCEPT !.at = "permit"] ELSE task[i]]
    /\ UNCHANGED <<config, included, errors, caller, collector>>

\* A block with the transaction.
IncludeTx(h) ==
    /\ h \in Hashes \ included
    /\ included' = included \cup {h}
    /\ UNCHANGED <<config, now, errors, caller, collector, task>>

Init ==
    /\ config \in Collections
    /\ now = 0 /\ included = {} /\ errors = 0
    /\ caller = [next |-> 1, accepted |-> {}, finish |-> FALSE]
    /\ collector = [open |-> TRUE, done |-> FALSE, queue |-> <<>>, seen |-> {}, records |-> <<>>, dropped |-> {}]
    /\ task = [i \in DOMAIN config.tracked |-> Idle]

vars == <<config, now, included, errors, caller, collector, task>>
Work == Close \/ Receive \/ Stop \/ \E i \in DOMAIN config.tracked : Join(i) \/ Acquire(i) \/ Answer(i, FALSE) \/ TimeOut(i)
Next == Track \/ Finish \/ Work \/ Tick \/ (\E i \in DOMAIN config.tracked : Answer(i, TRUE)) \/ \E h \in Hashes : IncludeTx(h)
Spec == Init /\ [][Next]_vars
-----------------------------------------------------------------------------
TypeOK ==
    /\ now \in 0 .. MaxTime /\ errors \in 0 .. MaxErrors /\ included \subseteq Hashes
    /\ Cardinality(Asking) <= config.workers
    /\ \A i \in DOMAIN task : task[i].at \in {"none", "permit", "asking", "sleep", "found", "late"}

\* Everything that was registered before the end is in the collection, once
\* for each set of labels, unless it was given up: its time was over.
AcceptedAreCollected ==
    collector.done =>
      /\ caller.accepted = {collector.records[i] : i \in DOMAIN collector.records} \cup collector.dropped
      /\ Len(collector.records) + Cardinality(collector.dropped) = Cardinality(caller.accepted)
      /\ collector.dropped # {} => now >= ReceiptTimeout
=============================================================================
