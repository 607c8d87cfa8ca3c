--------------------------- MODULE BenchPartsProofs ---------------------------
(***************************************************************************)
(* Proofs about the steps of the four parts of BenchParts, for all inputs: *)
(* the receipt collector (ReceiptCollector), bench call (BenchCall),       *)
(* sender authentication (AuthTokens) and bench send-blocks (SendBlocks).  *)
(* Each has an inductive invariant, CollectInv, CallInv, AuthInv and       *)
(* BlockInv, and a lemma that says what it is good for.                    *)
(***************************************************************************)
EXTENDS BenchParts, FiniteSetTheorems, TLAPS

(* The receipt collector                                                   *)

Slot == DOMAIN config.tracked
Keys == {Receipts!Key(config.tracked[i]) : i \in Slot}
Request == {r \in [hash : Receipts!Hashes, instance : {config.tracked[i].instance : i \in Slot}, deadline : Nat] :
              Receipts!Key(r) \in Keys}
TaskStage == {"none", "permit", "asking", "sleep", "found", "late"}

CollectTypes ==
    /\ config \in Collections /\ now \in Nat
    /\ caller \in [next : Nat \ {0}, accepted : SUBSET Keys, finish : BOOLEAN]
    /\ collector \in [open : BOOLEAN, done : BOOLEAN, queue : Seq(Request), seen : SUBSET Keys,
                      records : Seq(Keys), dropped : SUBSET Keys]
    /\ task \in [Slot -> [at : TaskStage, deadline : Nat, key : Keys \cup {<<>>}]]

\* What was accepted is in the queue, or has been seen.
Queued(k) == \E i \in DOMAIN collector.queue : Receipts!Key(collector.queue[i]) = k
QueueInv == \A k \in Keys : k \in caller.accepted <=> k \in collector.seen \/ Queued(k)

\* Each key that was seen has a task of its own, and so a free slot was there.
Taken == 1 .. Cardinality(collector.seen)
TaskInv ==
    /\ \A i \in Slot \ Taken : task[i].at = "none"
    /\ \A i \in Taken : task[i].key \in collector.seen
    /\ \A i, j \in Taken : task[i].key = task[j].key => i = j
    /\ \A k \in collector.seen : \E i \in Taken : task[i].key = k

\* A task that is over has left its key, once, with the receipts or with those
\* that were given up.
Collected == {collector.records[i] : i \in DOMAIN collector.records} \cup collector.dropped
ResultInv ==
    /\ Collected \subseteq collector.seen
    /\ \A i \in Taken : task[i].at = "none" <=> task[i].key \in Collected
    /\ Len(collector.records) + Cardinality(collector.dropped) = Cardinality(Collected)

\* Nothing is given up before its time.
DeadlineInv ==
    /\ \A i \in DOMAIN collector.queue : collector.queue[i].deadline >= ReceiptTimeout
    /\ \A i \in Taken : task[i].deadline >= ReceiptTimeout /\ (task[i].at = "late" => now >= task[i].deadline)
    /\ collector.dropped # {} => now >= ReceiptTimeout

\* The collector ends when it is told to and has nothing left.
EndInv == collector.done => ~collector.open /\ collector.queue = <<>> /\ \A i \in Slot : task[i].at = "none"

CollectInv == CollectTypes /\ QueueInv /\ TaskInv /\ ResultInv /\ DeadlineInv /\ EndInv

-----------------------------------------------------------------------------
LEMMA ReceiptCount == \A S : Receipts!Cardinality(S) = Cardinality(S)
BY DEF Receipts!Cardinality, Cardinality

LEMMA Tracked ==
    ASSUME config \in Collections
    PROVE  /\ config.tracked \in Seq({config.tracked[i] : i \in Slot})
           /\ Len(config.tracked) \in Nat /\ Slot = 1 .. Len(config.tracked)
           /\ ReceiptTimeout \in Nat
BY PartsAssumption DEF Receipts!CollectionAssumption, Slot

\* There is a slot for every key.
LEMMA KeysFitSlots ==
    ASSUME config \in Collections
    PROVE  IsFiniteSet(Keys) /\ Cardinality(Keys) <= Len(config.tracked)
<1> DEFINE n == Len(config.tracked)
           f == [i \in 1 .. n |-> Receipts!Key(config.tracked[i])]
<1>1. n \in Nat /\ Slot = 1 .. n
  BY Tracked
<1>2. f \in Surjection(1 .. n, Keys)
  BY <1>1 DEF Surjection, Keys
<1>3. IsFiniteSet(1 .. n) /\ Cardinality(1 .. n) = n
  <2>1. 1 \in Int /\ n \in Int /\ (IF 1 > n THEN 0 ELSE n - 1 + 1) = n
    BY <1>1
  <2> HIDE DEF n
  <2> QED BY <2>1, FS_Interval
<1> HIDE DEF f, n
<1>4. IsFiniteSet(Keys) /\ Cardinality(Keys) <= n
  BY <1>2, <1>3, FS_Surjection
<1> QED BY <1>4 DEF n

LEMMA SetsOfKeys ==
    ASSUME CollectTypes, NEW S \in SUBSET Keys
    PROVE  IsFiniteSet(S) /\ Cardinality(S) \in Nat /\ Cardinality(S) <= Len(config.tracked)
<1>1. config \in Collections
  BY DEF CollectTypes
<1>2. IsFiniteSet(Keys) /\ Cardinality(Keys) \in Nat /\ Cardinality(Keys) <= Len(config.tracked)
  BY <1>1, KeysFitSlots, FS_CardinalityType
<1>3. IsFiniteSet(S) /\ Cardinality(S) <= Cardinality(Keys)
  BY <1>2, FS_Subset
<1>4. Cardinality(S) \in Nat
  BY <1>3, FS_CardinalityType
<1> QED BY <1>1, <1>2, <1>3, <1>4, Tracked

-----------------------------------------------------------------------------
(* What the steps do                                                       *)

\* A move of requests that leaves keys where they are.
Polls ==
    /\ UNCHANGED <<config, caller, collector>> /\ now' \in Nat /\ now <= now'
    /\ task' \in [Slot -> [at : TaskStage, deadline : Nat, key : Keys \cup {<<>>}]]
    /\ \A i \in Slot : /\ task'[i].key = task[i].key /\ task'[i].deadline = task[i].deadline
                       /\ task'[i].at = "none" <=> task[i].at = "none"
                       /\ task'[i].at = "late" => task[i].at = "late" \/ now' >= task[i].deadline

LEMMA PollSteps ==
    ASSUME CollectTypes,
           \/ \E i \in Slot : Receipts!Acquire(i) \/ Receipts!TimeOut(i) \/ \E fails \in BOOLEAN : Receipts!Answer(i, fails)
           \/ Receipts!Tick
    PROVE  Polls
<1>0. now \in Nat /\ task \in [Slot -> [at : TaskStage, deadline : Nat, key : Keys \cup {<<>>}]] /\ DOMAIN task = Slot
  BY DEF CollectTypes
<1>1. ASSUME NEW i \in Slot, NEW at \in TaskStage \ {"none"}, task[i].at # "none",
             at = "late" => now >= task[i].deadline,
             UNCHANGED <<config, caller, collector, now>>, task' = [task EXCEPT ![i] = [@ EXCEPT !.at = at]]
      PROVE  Polls
  <2> DEFINE t == [task[i] EXCEPT !.at = at]
  <2>1. t \in [at : TaskStage, deadline : Nat, key : Keys \cup {<<>>}] /\ t.at = at /\ t.key = task[i].key
        /\ t.deadline = task[i].deadline
    BY <1>0, <1>1
  <2>2. task' = [task EXCEPT ![i] = t]
    BY <1>1
  <2> HIDE DEF t
  <2> QED BY <1>0, <1>1, <2>1, <2>2 DEF Polls
<1>2. ASSUME NEW i \in Slot, Receipts!Acquire(i) PROVE Polls
  <2>1. /\ task[i].at = "permit" /\ UNCHANGED <<config, caller, collector, now>>
        /\ task' = [task EXCEPT ![i] = [@ EXCEPT !.at = "asking"]]
    BY <1>2 DEF Receipts!Acquire
  <2> QED BY <1>1, <2>1 DEF TaskStage
<1>3. ASSUME NEW i \in Slot, Receipts!TimeOut(i) PROVE Polls
  <2>1. /\ task[i].at # "none" /\ UNCHANGED <<config, caller, collector, now>> /\ now >= task[i].deadline
        /\ task' = [task EXCEPT ![i] = [@ EXCEPT !.at = "late"]]
    BY <1>3 DEF Receipts!TimeOut
  <2> QED BY <1>1, <2>1 DEF TaskStage
<1>4. ASSUME NEW i \in Slot, NEW fails \in BOOLEAN, Receipts!Answer(i, fails) PROVE Polls
  <2>1. /\ task[i].at = "asking" /\ UNCHANGED <<config, caller, collector, now>>
        /\ \/ task' = [task EXCEPT ![i] = [@ EXCEPT !.at = "found"]]
           \/ task' = [task EXCEPT ![i] = [@ EXCEPT !.at = "late"]] /\ now >= task[i].deadline
           \/ task' = [task EXCEPT ![i] = [@ EXCEPT !.at = "sleep"]]
    BY <1>0, <1>4 DEF Receipts!Answer
  <2> QED BY <1>1, <2>1 DEF TaskStage
<1>5. CASE Receipts!Tick
  <2>1. /\ UNCHANGED <<config, caller, collector>> /\ now' = now + 1
        /\ task' = [i \in Slot |-> IF task[i].at = "sleep" THEN [task[i] EXCEPT !.at = "permit"] ELSE task[i]]
    BY <1>0, <1>5 DEF Receipts!Tick
  <2>2. ASSUME NEW i \in Slot
        PROVE  /\ task'[i] \in [at : TaskStage, deadline : Nat, key : Keys \cup {<<>>}]
               /\ task'[i].key = task[i].key /\ task'[i].deadline = task[i].deadline
               /\ task'[i].at = "none" <=> task[i].at = "none"
               /\ task'[i].at = "late" => task[i].at = "late" \/ now' >= task[i].deadline
    <3>1. task[i] \in [at : TaskStage, deadline : Nat, key : Keys \cup {<<>>}]
      BY <1>0
    <3>2. task'[i] = IF task[i].at = "sleep" THEN [task[i] EXCEPT !.at = "permit"] ELSE task[i]
      BY <2>1
    <3>3. CASE task[i].at = "sleep"
      BY <3>1, <3>2, <3>3 DEF TaskStage
    <3>4. CASE task[i].at # "sleep"
      BY <3>1, <3>2, <3>4
    <3> QED BY <3>3, <3>4
  <2>3. task' \in [Slot -> [at : TaskStage, deadline : Nat, key : Keys \cup {<<>>}]]
    BY <2>1, <2>2
  <2> QED BY <1>0, <2>1, <2>2, <2>3 DEF Polls
<1> QED BY <1>2, <1>3, <1>4, <1>5

CollectorType == [open : BOOLEAN, done : BOOLEAN, queue : Seq(Request), seen : SUBSET Keys,
                  records : Seq(Keys), dropped : SUBSET Keys]
CallerType == [next : Nat \ {0}, accepted : SUBSET Keys, finish : BOOLEAN]

\* Flags move, or a request is ignored.
Signals ==
    /\ UNCHANGED <<config, now, task>>
    /\ caller' \in CallerType /\ collector' \in CollectorType
    /\ caller'.accepted = caller.accepted
    /\ collector'.queue = collector.queue /\ collector'.seen = collector.seen
    /\ collector'.records = collector.records /\ collector'.dropped = collector.dropped
    /\ collector'.open => collector.open
    /\ collector'.done => \/ collector.done
                          \/ ~collector.open /\ collector.queue = <<>> /\ \A i \in Slot : task[i].at = "none"

LEMMA SignalSteps ==
    ASSUME CollectTypes,
           \/ Receipts!Finish \/ Receipts!Close \/ Receipts!Stop \/ \E h : Receipts!IncludeTx(h)
           \/ Receipts!Track /\ ~collector.open
    PROVE  Signals
<1>0. caller \in CallerType /\ collector \in CollectorType /\ DOMAIN task = Slot
  BY DEF CollectTypes, CallerType, CollectorType
<1>1. CASE Receipts!Finish
  BY <1>0, <1>1 DEF Receipts!Finish, Signals, CallerType
<1>2. CASE Receipts!Close
  BY <1>0, <1>2 DEF Receipts!Close, Signals, CollectorType
<1>3. CASE Receipts!Stop
  <2>1. collector' = [collector EXCEPT !.done = TRUE] /\ UNCHANGED <<config, now, caller, task>>
    BY <1>3 DEF Receipts!Stop
  <2>2. ~collector.open /\ collector.queue = <<>> /\ \A i \in Slot : task[i].at = "none"
    BY <1>0, <1>3 DEF Receipts!Stop, Receipts!CanStop, Receipts!Spawned
  <2> QED BY <1>0, <2>1, <2>2 DEF Signals, CollectorType
<1>4. CASE \E h : Receipts!IncludeTx(h)
  BY <1>0, <1>4 DEF Receipts!IncludeTx, Signals
<1>5. CASE Receipts!Track /\ ~collector.open
  <2>1. caller' = [caller EXCEPT !.next = @ + 1] /\ UNCHANGED <<config, now, collector, task>>
    BY <1>5 DEF Receipts!Track
  <2> QED BY <1>0, <2>1 DEF Signals, CallerType
<1> QED BY <1>1, <1>2, <1>3, <1>4, <1>5

\* A registration goes to the end of the queue.
Registers(registered) ==
    /\ UNCHANGED <<config, now, task>> /\ registered \in Request /\ registered.deadline >= ReceiptTimeout
    /\ caller' \in CallerType /\ collector' \in CollectorType /\ collector.open
    /\ caller'.accepted = caller.accepted \cup {Receipts!Key(registered)}
    /\ collector'.queue = Append(collector.queue, registered) /\ collector'.seen = collector.seen
    /\ collector'.records = collector.records /\ collector'.dropped = collector.dropped
    /\ collector'.open = collector.open /\ collector'.done = collector.done

LEMMA TrackStep ==
    ASSUME CollectTypes, Receipts!Track, collector.open
    PROVE  \E registered : Registers(registered)
<1>0. /\ caller \in CallerType /\ collector \in CollectorType /\ now \in Nat
      /\ config \in Collections /\ ReceiptTimeout \in Nat /\ Slot = 1 .. Len(config.tracked) /\ Len(config.tracked) \in Nat
  BY Tracked DEF CollectTypes, CallerType, CollectorType
<1> DEFINE tracked == config.tracked[caller.next]
           registered == [hash |-> tracked.hash, instance |-> tracked.instance, deadline |-> now + ReceiptTimeout]
<1>1. /\ caller.next \in Slot
      /\ collector' = [collector EXCEPT !.queue = Append(@, registered)]
      /\ caller' = [caller EXCEPT !.next = @ + 1, !.accepted = @ \cup {Receipts!Key(registered)}]
      /\ UNCHANGED <<config, now, task>>
  BY <1>0 DEF Receipts!Track, CallerType
<1>2. Receipts!Key(registered) = Receipts!Key(tracked)
  BY DEF Receipts!Key
<1>3. registered \in Request /\ registered.deadline >= ReceiptTimeout /\ Receipts!Key(registered) \in Keys
  BY SMTT(60), <1>0, <1>1, <1>2 DEF Request, Keys, Receipts!Hashes, Slot
<1> HIDE DEF registered
<1>4. caller' \in CallerType /\ caller'.accepted = caller.accepted \cup {Receipts!Key(registered)}
  <2> DEFINE c == [caller EXCEPT !.next = @ + 1]
  <2>1. c \in CallerType /\ c.accepted = caller.accepted
    BY <1>0 DEF CallerType
  <2>2. caller' = [c EXCEPT !.accepted = caller.accepted \cup {Receipts!Key(registered)}]
    BY <1>1
  <2>3. caller.accepted \cup {Receipts!Key(registered)} \in SUBSET Keys
    BY <1>0, <1>3 DEF CallerType
  <2> HIDE DEF c
  <2> QED BY <2>1, <2>2, <2>3 DEF CallerType
<1>5. Append(collector.queue, registered) \in Seq(Request)
  BY <1>0, <1>3 DEF CollectorType
<1>6. /\ collector' \in CollectorType /\ collector'.queue = Append(collector.queue, registered)
      /\ collector'.seen = collector.seen /\ collector'.records = collector.records
      /\ collector'.dropped = collector.dropped /\ collector'.open = collector.open /\ collector'.done = collector.done
  BY <1>0, <1>1, <1>5 DEF CollectorType
<1>7. Registers(registered)
  BY <1>1, <1>3, <1>4, <1>6 DEF Registers
<1> QED BY <1>7

\* The first of the queue is taken up: as a task, or as one that was seen.
TakesUp(registered) ==
    /\ UNCHANGED <<config, now, caller>> /\ ~collector.done
    /\ collector' \in CollectorType /\ collector.queue # <<>>
    /\ registered = Head(collector.queue) /\ collector'.queue = Tail(collector.queue)
    /\ collector'.seen = collector.seen \cup {Receipts!Key(registered)}
    /\ collector'.records = collector.records /\ collector'.dropped = collector.dropped
    /\ collector'.open = collector.open /\ collector'.done = collector.done
    /\ IF Receipts!Key(registered) \in collector.seen THEN task' = task
       ELSE task' = [task EXCEPT ![Cardinality(collector.seen) + 1] =
                       [at |-> "permit", deadline |-> registered.deadline, key |-> Receipts!Key(registered)]]

LEMMA ReceiveStep ==
    ASSUME CollectTypes, Receipts!Receive
    PROVE  TakesUp(Head(collector.queue))
<1> DEFINE registered == Head(collector.queue)
<1>0. collector \in CollectorType /\ collector.queue \in Seq(Request)
  BY DEF CollectTypes, CollectorType
<1>1. /\ collector.queue # <<>> /\ ~collector.done /\ UNCHANGED <<config, now, caller>>
      /\ IF Receipts!Key(registered) \in collector.seen
           THEN collector' = [collector EXCEPT !.queue = Tail(@)] /\ UNCHANGED task
           ELSE /\ collector' = [collector EXCEPT !.queue = Tail(@), !.seen = @ \cup {Receipts!Key(registered)}]
                /\ task' = [task EXCEPT ![Cardinality(collector.seen) + 1] =
                              [at |-> "permit", deadline |-> registered.deadline, key |-> Receipts!Key(registered)]]
  BY ReceiptCount DEF Receipts!Receive
<1>2. registered \in Request /\ Tail(collector.queue) \in Seq(Request)
  BY <1>0, <1>1
<1>3. Receipts!Key(registered) \in Keys
  BY <1>2 DEF Request
<1> HIDE DEF registered
<1> DEFINE c == [collector EXCEPT !.queue = Tail(@)]
<1>4. /\ c \in CollectorType /\ c.queue = Tail(collector.queue)
      /\ c.seen = collector.seen /\ c.records = collector.records
      /\ c.dropped = collector.dropped /\ c.open = collector.open /\ c.done = collector.done
  BY <1>0, <1>2 DEF CollectorType
<1>5. IF Receipts!Key(registered) \in collector.seen THEN collector' = c
      ELSE collector' = [c EXCEPT !.seen = collector.seen \cup {Receipts!Key(registered)}]
  BY <1>1
<1> HIDE DEF c
<1>6. collector.seen \cup {Receipts!Key(registered)} \in SUBSET Keys
  BY <1>0, <1>3 DEF CollectorType
<1>7. /\ collector' \in CollectorType /\ collector'.queue = Tail(collector.queue)
      /\ collector'.seen = collector.seen \cup {Receipts!Key(registered)}
      /\ collector'.records = collector.records /\ collector'.dropped = collector.dropped
      /\ collector'.open = collector.open /\ collector'.done = collector.done
  <2>1. CASE Receipts!Key(registered) \in collector.seen
    BY <1>4, <1>5, <2>1
  <2>2. CASE Receipts!Key(registered) \notin collector.seen
    BY <1>4, <1>5, <1>6, <2>2 DEF CollectorType
  <2> QED BY <2>1, <2>2
<1>8. IF Receipts!Key(registered) \in collector.seen THEN task' = task
      ELSE task' = [task EXCEPT ![Cardinality(collector.seen) + 1] =
                      [at |-> "permit", deadline |-> registered.deadline, key |-> Receipts!Key(registered)]]
  BY <1>1
<1> QED BY <1>1, <1>7, <1>8 DEF TakesUp, registered

\* A task that is over is recorded, or given up.
Leaves(i) ==
    /\ UNCHANGED <<config, now, caller>> /\ i \in Slot /\ ~collector.done
    /\ collector' \in CollectorType /\ collector'.queue = collector.queue /\ collector'.seen = collector.seen
    /\ collector'.open = collector.open /\ collector'.done = collector.done
    /\ \/ /\ task[i].at = "found" /\ collector'.dropped = collector.dropped
          /\ collector'.records = Append(collector.records, task[i].key)
       \/ /\ task[i].at = "late" /\ collector'.records = collector.records
          /\ collector'.dropped = collector.dropped \cup {task[i].key}
    /\ task' \in [Slot -> [at : TaskStage, deadline : Nat, key : Keys \cup {<<>>}]]
    /\ task'[i].at = "none" /\ task'[i].key = task[i].key /\ task'[i].deadline = task[i].deadline
    /\ \A j \in Slot : j # i => task'[j] = task[j]

LEMMA JoinStep ==
    ASSUME CollectTypes, TaskInv, NEW i \in Slot, Receipts!Join(i)
    PROVE  Leaves(i)
<1>0. /\ collector \in CollectorType /\ DOMAIN task = Slot
      /\ task \in [Slot -> [at : TaskStage, deadline : Nat, key : Keys \cup {<<>>}]]
  BY DEF CollectTypes, CollectorType
<1>1. /\ ~collector.done /\ task[i].at \in {"found", "late"} /\ UNCHANGED <<config, now, caller>>
      /\ collector' = [collector EXCEPT !.records = IF task[i].at = "found" THEN Append(@, task[i].key) ELSE @,
                                        !.dropped = IF task[i].at = "late" THEN @ \cup {task[i].key} ELSE @]
      /\ task' = [task EXCEPT ![i].at = "none"]
  BY DEF Receipts!Join
<1>2. task[i].key \in Keys
  BY <1>0, <1>1 DEF TaskInv, CollectorType
<1> DEFINE t == [task[i] EXCEPT !.at = "none"]
<1>3. t \in [at : TaskStage, deadline : Nat, key : Keys \cup {<<>>}] /\ t.at = "none" /\ t.key = task[i].key /\ t.deadline = task[i].deadline
  BY <1>0 DEF TaskStage
<1>4. task' = [task EXCEPT ![i] = t]
  BY <1>1
<1> HIDE DEF t
<1>5. /\ task' \in [Slot -> [at : TaskStage, deadline : Nat, key : Keys \cup {<<>>}]]
      /\ task'[i].at = "none" /\ task'[i].key = task[i].key /\ task'[i].deadline = task[i].deadline
      /\ \A j \in Slot : j # i => task'[j] = task[j]
  BY <1>0, <1>3, <1>4
<1>6. CASE task[i].at = "found"
  <2>1. collector' = [collector EXCEPT !.records = Append(@, task[i].key)]
    BY <1>0, <1>1, <1>6 DEF CollectorType
  <2>2. Append(collector.records, task[i].key) \in Seq(Keys)
    BY <1>0, <1>2 DEF CollectorType
  <2>3. /\ collector' \in CollectorType /\ collector'.queue = collector.queue /\ collector'.seen = collector.seen
        /\ collector'.open = collector.open /\ collector'.done = collector.done
        /\ collector'.dropped = collector.dropped /\ collector'.records = Append(collector.records, task[i].key)
    BY <1>0, <2>1, <2>2 DEF CollectorType
  <2> QED BY <1>1, <1>5, <1>6, <2>3 DEF Leaves
<1>7. CASE task[i].at = "late"
  <2>1. collector' = [collector EXCEPT !.dropped = @ \cup {task[i].key}]
    BY <1>0, <1>1, <1>7 DEF CollectorType
  <2>2. collector.dropped \cup {task[i].key} \in SUBSET Keys
    BY <1>0, <1>2 DEF CollectorType
  <2>3. /\ collector' \in CollectorType /\ collector'.queue = collector.queue /\ collector'.seen = collector.seen
        /\ collector'.open = collector.open /\ collector'.done = collector.done
        /\ collector'.records = collector.records /\ collector'.dropped = collector.dropped \cup {task[i].key}
    BY <1>0, <2>1, <2>2 DEF CollectorType
  <2> QED BY <1>1, <1>5, <1>7, <2>3 DEF Leaves
<1> QED BY <1>1, <1>6, <1>7

-----------------------------------------------------------------------------
(* The invariant                                                           *)

LEMMA SameInput ==
    ASSUME config' = config
    PROVE  Slot' = Slot /\ Keys' = Keys /\ Request' = Request
BY DEF Slot, Keys, Request, Receipts!Hashes, Receipts!Key

LEMMA SignalsKeep == ASSUME CollectInv, Signals PROVE CollectInv'
<1>0. Slot' = Slot /\ Keys' = Keys /\ Request' = Request /\ config' = config
  BY SameInput DEF Signals
<1>1. CollectTypes'
  BY <1>0 DEF CollectInv, CollectTypes, Signals, CallerType, CollectorType
<1>2. Taken' = Taken /\ Collected' = Collected /\ \A k : Queued(k)' <=> Queued(k)
  BY DEF Signals, Taken, Collected, Queued, Receipts!Key
<1>3. QueueInv' /\ TaskInv'
  BY <1>0, <1>2 DEF CollectInv, QueueInv, TaskInv, Signals
<1>4. ResultInv' /\ DeadlineInv'
  BY <1>0, <1>2 DEF CollectInv, ResultInv, DeadlineInv, Signals
<1>5. EndInv'
  BY <1>0 DEF CollectInv, EndInv, Signals
<1> QED BY <1>1, <1>3, <1>4, <1>5 DEF CollectInv

LEMMA PollsKeep == ASSUME CollectInv, Polls PROVE CollectInv'
<1>0. /\ Slot' = Slot /\ Keys' = Keys /\ Request' = Request /\ config' = config
      /\ now \in Nat /\ now' \in Nat /\ now <= now' /\ Taken \subseteq Slot
  <2>1. Cardinality(collector.seen) \in Nat /\ Cardinality(collector.seen) <= Len(config.tracked)
    BY SetsOfKeys DEF CollectInv, CollectTypes
  <2>2. Slot = 1 .. Len(config.tracked) /\ Len(config.tracked) \in Nat
    BY Tracked DEF CollectInv, CollectTypes
  <2> QED BY <2>1, <2>2, SameInput DEF Polls, CollectInv, CollectTypes, Taken
<1>1. CollectTypes'
  BY <1>0 DEF CollectInv, CollectTypes, Polls
<1>2. Taken' = Taken /\ Collected' = Collected /\ \A k : Queued(k)' <=> Queued(k)
  BY DEF Polls, Taken, Collected, Queued, Receipts!Key
<1>3. QueueInv'
  BY <1>0, <1>2 DEF CollectInv, QueueInv, Polls
<1>4. TaskInv'
  BY <1>0, <1>2 DEF CollectInv, TaskInv, Polls
<1>5. ResultInv'
  BY <1>0, <1>2 DEF CollectInv, ResultInv, Polls
<1>6. DeadlineInv'
  <2>1. ReceiptTimeout \in Nat /\ \A i \in Slot : task[i].deadline \in Nat
    BY Tracked DEF CollectInv, CollectTypes
  <2>2. \A i \in Taken : task'[i].deadline >= ReceiptTimeout /\ (task'[i].at = "late" => now' >= task'[i].deadline)
    BY <1>0, <2>1 DEF CollectInv, DeadlineInv, Polls
  <2>3. collector.dropped # {} => now' >= ReceiptTimeout
    BY <1>0, <2>1 DEF CollectInv, DeadlineInv
  <2> QED BY <1>0, <1>2, <2>2, <2>3 DEF CollectInv, DeadlineInv, Polls
<1>7. EndInv'
  BY <1>0 DEF CollectInv, EndInv, Polls
<1> QED BY <1>1, <1>3, <1>4, <1>5, <1>6, <1>7 DEF CollectInv

LEMMA RegistersKeep == ASSUME CollectInv, NEW registered, Registers(registered) PROVE CollectInv'
<1>0. /\ Slot' = Slot /\ Keys' = Keys /\ Request' = Request /\ config' = config
      /\ collector.queue \in Seq(Request) /\ registered \in Request
  BY SameInput DEF Registers, CollectInv, CollectTypes
<1>1. CollectTypes'
  BY <1>0 DEF CollectInv, CollectTypes, Registers, CallerType, CollectorType
<1>2. Taken' = Taken /\ Collected' = Collected
  BY DEF Registers, Taken, Collected
<1>3. \A i : i \in DOMAIN collector'.queue <=> i \in DOMAIN collector.queue \/ i = Len(collector.queue) + 1
  BY <1>0 DEF Registers
<1>4. /\ \A i \in DOMAIN collector.queue : collector'.queue[i] = collector.queue[i]
      /\ collector'.queue[Len(collector.queue) + 1] = registered
  BY <1>0 DEF Registers
<1>5. \A k : Queued(k)' <=> Queued(k) \/ k = Receipts!Key(registered)
  BY <1>3, <1>4 DEF Queued, Receipts!Key
<1>6. QueueInv'
  BY <1>0, <1>5 DEF CollectInv, QueueInv, Registers
<1>7. TaskInv' /\ ResultInv'
  BY <1>0, <1>2 DEF CollectInv, TaskInv, ResultInv, Registers
<1>8. DeadlineInv'
  BY <1>0, <1>2, <1>3, <1>4 DEF CollectInv, DeadlineInv, Registers
<1>9. EndInv'
  BY <1>0 DEF CollectInv, EndInv, Registers
<1> QED BY <1>1, <1>6, <1>7, <1>8, <1>9 DEF CollectInv

LEMMA TakesUpKeeps == ASSUME CollectInv, NEW registered, TakesUp(registered) PROVE CollectInv'
<1> DEFINE k0 == Receipts!Key(registered)
           n == Cardinality(collector.seen)
<1>0. /\ Slot' = Slot /\ Keys' = Keys /\ Request' = Request /\ config' = config
      /\ collector.queue \in Seq(Request) /\ collector.queue # <<>> /\ collector.seen \in SUBSET Keys
      /\ registered = Head(collector.queue) /\ collector'.queue = Tail(collector.queue)
  BY SameInput DEF TakesUp, CollectInv, CollectTypes
<1>1. registered \in Request /\ k0 \in Keys /\ registered = collector.queue[1] /\ 1 \in DOMAIN collector.queue
      /\ registered.deadline \in Nat
  BY <1>0 DEF Request
<1>2. /\ \A i \in DOMAIN collector'.queue : i + 1 \in DOMAIN collector.queue /\ collector'.queue[i] = collector.queue[i + 1]
      /\ \A i \in DOMAIN collector.queue : i = 1 \/ (i - 1 \in DOMAIN collector'.queue /\ collector'.queue[i - 1] = collector.queue[i])
  BY SMTT(60), <1>0
<1>3. \A k : Queued(k) <=> Queued(k)' \/ k = k0
  BY <1>1, <1>2 DEF Queued, Receipts!Key
<1>4. QueueInv'
  BY <1>0, <1>3 DEF CollectInv, QueueInv, TakesUp
<1>5. Collected' = Collected
  BY DEF TakesUp, Collected
<1>6. registered.deadline >= ReceiptTimeout /\ \A i \in DOMAIN collector'.queue : collector'.queue[i].deadline >= ReceiptTimeout
  BY <1>1, <1>2 DEF CollectInv, DeadlineInv
<1>7. EndInv'
  BY <1>0 DEF CollectInv, EndInv, TakesUp
<1>8. CASE k0 \in collector.seen
  <2>1. task' = task /\ collector'.seen = collector.seen /\ Taken' = Taken
    BY <1>8 DEF TakesUp, Taken
  <2>2. CollectTypes'
    BY <1>0, <2>1 DEF CollectInv, CollectTypes, TakesUp, CollectorType
  <2>3. TaskInv' /\ ResultInv'
    BY <1>0, <1>5, <2>1 DEF CollectInv, TaskInv, ResultInv, TakesUp
  <2>4. DeadlineInv'
    BY <1>0, <1>6, <2>1 DEF CollectInv, DeadlineInv, TakesUp
  <2> QED BY <1>4, <1>7, <2>2, <2>3, <2>4 DEF CollectInv
<1>9. CASE k0 \notin collector.seen
  <2>1. collector'.seen = collector.seen \cup {k0}
    BY DEF TakesUp
  <2>2. n \in Nat /\ IsFiniteSet(collector.seen)
    BY <1>0, SetsOfKeys DEF CollectInv
  <2>3. Cardinality(collector'.seen) = n + 1
    BY <1>9, <2>1, <2>2, FS_AddElement
  <2>4. collector.seen \cup {k0} \in SUBSET Keys
    BY <1>0, <1>1
  <2>5. n + 1 <= Len(config.tracked)
    BY <2>1, <2>3, <2>4, SetsOfKeys DEF CollectInv
  <2>6. n + 1 \in Slot /\ Taken = 1 .. n /\ Taken' = 1 .. n + 1 /\ Taken \subseteq Slot
    BY SMTT(60), <2>2, <2>3, <2>5, Tracked DEF Taken, CollectInv, CollectTypes
  <2> DEFINE t == [at |-> "permit", deadline |-> registered.deadline, key |-> k0]
  <2>7. task' = [task EXCEPT ![n + 1] = t] /\ task \in [Slot -> [at : TaskStage, deadline : Nat, key : Keys \cup {<<>>}]]
    BY <1>9 DEF TakesUp, CollectInv, CollectTypes
  <2>8. /\ t \in [at : TaskStage, deadline : Nat, key : Keys \cup {<<>>}]
        /\ t.at = "permit" /\ t.deadline = registered.deadline /\ t.key = k0
    BY <1>1 DEF TaskStage
  <2> HIDE DEF t, n, k0
  <2>9. task'[n + 1] = t /\ \A i \in Slot : i # n + 1 => task'[i] = task[i]
    BY <2>6, <2>7
  <2>10. \A i : i \in Taken' <=> i \in Taken \/ i = n + 1
    BY <2>2, <2>6
  <2>11. n + 1 \notin Taken
    BY <2>2, <2>6
  <2>12. CollectTypes'
    <3>1. task' \in [Slot -> [at : TaskStage, deadline : Nat, key : Keys \cup {<<>>}]]
      BY <2>7, <2>8
    <3> QED BY <1>0, <3>1 DEF CollectInv, CollectTypes, TakesUp, CollectorType
  <2>13. TaskInv'
    <3>1. \A i \in Slot \ Taken' : task'[i].at = "none"
      BY <2>9, <2>10 DEF CollectInv, TaskInv
    <3>2. \A i \in Taken' : task'[i].key \in collector'.seen
      BY <2>1, <2>6, <2>8, <2>9, <2>10, <2>11 DEF CollectInv, TaskInv
    <3>3. \A i, j \in Taken' : task'[i].key = task'[j].key => i = j
      <4>1. \A i \in Taken : task'[i] = task[i] /\ task[i].key # k0
        BY <1>9, <2>6, <2>9, <2>11 DEF CollectInv, TaskInv
      <4>2. task'[n + 1].key = k0
        BY <2>8, <2>9
      <4> QED BY <2>10, <4>1, <4>2 DEF CollectInv, TaskInv
    <3>4. \A k \in collector'.seen : \E i \in Taken' : task'[i].key = k
      BY <2>1, <2>6, <2>8, <2>9, <2>10, <2>11 DEF CollectInv, TaskInv
    <3> QED BY <1>0, <3>1, <3>2, <3>3, <3>4 DEF TaskInv
  <2>14. ResultInv'
    <3>1. Collected' \subseteq collector'.seen
      BY <1>5, <2>1 DEF CollectInv, ResultInv
    <3>2. \A i \in Taken' : task'[i].at = "none" <=> task'[i].key \in Collected
      BY <1>9, <2>6, <2>8, <2>9, <2>10, <2>11 DEF CollectInv, ResultInv
    <3> QED BY <1>5, <3>1, <3>2 DEF CollectInv, ResultInv, TakesUp
  <2>15. DeadlineInv'
    <3>1. \A i \in Taken' : task'[i].deadline >= ReceiptTimeout /\ (task'[i].at = "late" => now >= task'[i].deadline)
      BY <1>6, <2>6, <2>8, <2>9, <2>10, <2>11 DEF CollectInv, DeadlineInv
    <3> QED BY <1>6, <3>1 DEF CollectInv, DeadlineInv, TakesUp
  <2> QED BY <1>4, <1>7, <2>12, <2>13, <2>14, <2>15 DEF CollectInv
<1> QED BY <1>8, <1>9

LEMMA LeavesKeeps == ASSUME CollectInv, NEW i \in Slot, Leaves(i) PROVE CollectInv'
<1> DEFINE k0 == task[i].key
<1>0. /\ Slot' = Slot /\ Keys' = Keys /\ Request' = Request /\ config' = config /\ now' = now
      /\ collector \in CollectorType /\ Taken' = Taken /\ task[i].at # "none"
      /\ collector'.seen = collector.seen
  BY SameInput DEF Leaves, CollectInv, CollectTypes, CollectorType, Taken
<1>1. i \in Taken /\ k0 \in collector.seen /\ k0 \notin Collected /\ Collected \subseteq collector.seen
  BY <1>0 DEF CollectInv, TaskInv, ResultInv
<1>2. CollectTypes'
  BY <1>0 DEF CollectInv, CollectTypes, Leaves, CollectorType
<1>3. Collected' = Collected \cup {k0}
  <2>1. CASE collector'.records = Append(collector.records, k0) /\ collector'.dropped = collector.dropped
    <3>1. {collector'.records[j] : j \in DOMAIN collector'.records} = {collector.records[j] : j \in DOMAIN collector.records} \cup {k0}
      <4>1. collector.records \in Seq(Keys)
        BY <1>0 DEF CollectorType
      <4>2. /\ \A j \in DOMAIN collector.records : j \in DOMAIN collector'.records /\ collector'.records[j] = collector.records[j]
            /\ Len(collector.records) + 1 \in DOMAIN collector'.records
            /\ collector'.records[Len(collector.records) + 1] = k0
            /\ \A j \in DOMAIN collector'.records : j \in DOMAIN collector.records \/ j = Len(collector.records) + 1
        BY <2>1, <4>1
      <4> QED BY <4>2
    <3> QED BY <2>1, <3>1 DEF Collected
  <2>2. CASE collector'.records = collector.records /\ collector'.dropped = collector.dropped \cup {k0}
    BY <2>2 DEF Collected
  <2> QED BY <2>1, <2>2 DEF Leaves
<1>4. QueueInv'
  BY <1>0 DEF CollectInv, QueueInv, Queued, Leaves, Receipts!Key
<1>5. \A j \in Slot : task'[j].key = task[j].key /\ task'[j].deadline = task[j].deadline /\ (j # i => task'[j] = task[j])
  BY DEF Leaves
<1>6. task'[i].at = "none" /\ Taken \subseteq Slot
  <2>1. collector.seen \in SUBSET Keys /\ config \in Collections
    BY <1>0 DEF CollectInv, CollectTypes, CollectorType
  <2>2. Cardinality(collector.seen) \in Nat /\ Cardinality(collector.seen) <= Len(config.tracked)
    BY <2>1, SetsOfKeys DEF CollectInv
  <2>3. Taken \subseteq Slot
    BY <2>1, <2>2, Tracked DEF Taken
  <2> QED BY <2>3 DEF Leaves
<1>7. TaskInv'
  <2>1. \A j \in Slot \ Taken' : task'[j].at = "none"
    BY <1>0, <1>5, <1>6 DEF CollectInv, TaskInv
  <2>2. \A j \in Taken' : task'[j].key = task[j].key
    BY <1>0, <1>5, <1>6
  <2> QED BY <1>0, <2>1, <2>2 DEF CollectInv, TaskInv
<1>8. ResultInv'
  <2>1. Collected' \subseteq collector'.seen
    BY <1>0, <1>1, <1>3
  <2>2. \A j \in Taken : task'[j].at = "none" <=> task'[j].key \in Collected'
    BY <1>1, <1>3, <1>5, <1>6 DEF CollectInv, TaskInv, ResultInv
  <2>3. IsFiniteSet(Collected) /\ Cardinality(Collected) \in Nat
    BY <1>0, <1>1, SetsOfKeys DEF CollectInv, CollectorType
  <2>4. Cardinality(Collected') = Cardinality(Collected) + 1
    BY <1>1, <1>3, <2>3, FS_AddElement
  <2>5. Len(collector'.records) + Cardinality(collector'.dropped) = Len(collector.records) + Cardinality(collector.dropped) + 1
    <3>1. collector.records \in Seq(Keys) /\ collector.dropped \in SUBSET Keys
      BY <1>0 DEF CollectorType
    <3>2. IsFiniteSet(collector.dropped) /\ Cardinality(collector.dropped) \in Nat /\ Len(collector.records) \in Nat
      BY <3>1, SetsOfKeys DEF CollectInv
    <3>3. CASE collector'.records = Append(collector.records, k0) /\ collector'.dropped = collector.dropped
      BY <3>1, <3>2, <3>3
    <3>4. CASE collector'.records = collector.records /\ collector'.dropped = collector.dropped \cup {k0}
      <4>1. k0 \notin collector.dropped
        BY <1>1 DEF Collected
      <4>2. Cardinality(collector.dropped \cup {k0}) = Cardinality(collector.dropped) + 1
        BY ZenonT(60), <3>2, <4>1, FS_AddElement
      <4> QED BY <3>2, <3>4, <4>2
    <3> QED BY <3>3, <3>4 DEF Leaves
  <2> QED BY <1>0, <2>1, <2>2, <2>4, <2>5 DEF CollectInv, ResultInv
<1>9. DeadlineInv'
  <2>1. \A j \in Taken : task'[j].deadline >= ReceiptTimeout /\ (task'[j].at = "late" => now >= task'[j].deadline)
    BY <1>5, <1>6 DEF CollectInv, DeadlineInv
  <2>2. collector'.dropped # {} => now >= ReceiptTimeout
    <3>1. task[i].at = "late" => now >= task[i].deadline /\ task[i].deadline >= ReceiptTimeout
      BY <1>1 DEF CollectInv, DeadlineInv
    <3>2. now \in Nat /\ task[i].deadline \in Nat /\ ReceiptTimeout \in Nat
      BY Tracked DEF CollectInv, CollectTypes
    <3> QED BY <3>1, <3>2 DEF CollectInv, DeadlineInv, Leaves
  <2> QED BY <1>0, <2>1, <2>2 DEF CollectInv, DeadlineInv, Leaves
<1>10. EndInv'
  BY <1>0 DEF CollectInv, EndInv, Leaves
<1> QED BY <1>2, <1>4, <1>7, <1>8, <1>9, <1>10 DEF CollectInv

LEMMA CollectInvInit == ASSUME Receipts!Init PROVE CollectInv
<1>0. /\ config \in Collections /\ now = 0
      /\ caller = [next |-> 1, accepted |-> {}, finish |-> FALSE]
      /\ collector = [open |-> TRUE, done |-> FALSE, queue |-> <<>>, seen |-> {}, records |-> <<>>, dropped |-> {}]
      /\ task = [i \in Slot |-> [at |-> "none", deadline |-> 0, key |-> <<>>]]
  BY DEF Receipts!Init, Receipts!Idle, Slot
<1>1. Cardinality({}) = 0
  BY FS_EmptySet
<1>2. CollectTypes
  BY <1>0 DEF CollectTypes, TaskStage
<1>3. Taken = {} /\ Collected = {}
  BY <1>0, <1>1 DEF Taken, Collected
<1>4. QueueInv
  BY <1>0 DEF QueueInv, Queued
<1>5. TaskInv
  BY <1>0, <1>3 DEF TaskInv
<1>6. ResultInv
  BY <1>0, <1>1, <1>3 DEF ResultInv
<1>7. DeadlineInv /\ EndInv
  BY <1>0, <1>3 DEF DeadlineInv, EndInv
<1> QED BY <1>2, <1>4, <1>5, <1>6, <1>7 DEF CollectInv

LEMMA CollectInvStep == ASSUME CollectInv, Receipts!Next PROVE CollectInv'
<1>0. CollectTypes /\ TaskInv /\ DOMAIN config.tracked = Slot
  BY DEF CollectInv, Slot
<1>1. CASE Receipts!Track
  <2>1. CASE collector.open
    BY <1>0, <1>1, <2>1, TrackStep, RegistersKeep
  <2>2. CASE ~collector.open
    BY <1>0, <1>1, <2>2, SignalSteps, SignalsKeep
  <2> QED BY <2>1, <2>2
<1>2. CASE Receipts!Finish \/ Receipts!Close \/ Receipts!Stop \/ \E h : Receipts!IncludeTx(h)
  BY <1>0, <1>2, SignalSteps, SignalsKeep
<1>3. CASE Receipts!Receive
  BY <1>0, <1>3, ReceiveStep, TakesUpKeeps
<1>4. ASSUME NEW i \in Slot, Receipts!Join(i) PROVE CollectInv'
  BY <1>0, <1>4, JoinStep, LeavesKeeps
<1>5. CASE \/ \E i \in Slot : Receipts!Acquire(i) \/ Receipts!TimeOut(i) \/ \E fails \in BOOLEAN : Receipts!Answer(i, fails)
           \/ Receipts!Tick
  BY <1>0, <1>5, PollSteps, PollsKeep
<1>6. \/ Receipts!Track \/ Receipts!Finish \/ Receipts!Close \/ Receipts!Stop \/ Receipts!Receive \/ Receipts!Tick
      \/ \E h : Receipts!IncludeTx(h)
      \/ \E i \in Slot : Receipts!Join(i)
      \/ \E i \in Slot : Receipts!Acquire(i) \/ Receipts!TimeOut(i) \/ Receipts!Answer(i, FALSE) \/ Receipts!Answer(i, TRUE)
  BY <1>0 DEF Receipts!Next, Receipts!Work
<1> QED BY <1>1, <1>2, <1>3, <1>4, <1>5, <1>6

LEMMA CollectInvStutter == ASSUME CollectInv, UNCHANGED <<config, now, ReceiptVars>> PROVE CollectInv'
<1>0. UNCHANGED <<config, now, caller, collector, task>>
  BY DEF ReceiptVars
<1>1. Slot' = Slot /\ Keys' = Keys /\ Request' = Request /\ Taken' = Taken /\ Collected' = Collected
  BY <1>0, SameInput DEF Taken, Collected
<1>2. \A k : Queued(k)' <=> Queued(k)
  BY <1>0 DEF Queued, Receipts!Key
<1>3. CollectTypes' /\ QueueInv' /\ TaskInv'
  BY <1>0, <1>1, <1>2 DEF CollectInv, CollectTypes, QueueInv, TaskInv
<1>4. ResultInv' /\ DeadlineInv' /\ EndInv'
  BY <1>0, <1>1 DEF CollectInv, ResultInv, DeadlineInv, EndInv
<1> QED BY <1>3, <1>4 DEF CollectInv

\* At its end the collector has a result for everything it accepted.
LEMMA CollectedAtTheEnd == ASSUME CollectInv PROVE Receipts!AcceptedAreCollected
<1>1. ASSUME CollectInv, collector.done
      PROVE  /\ caller.accepted = Collected
             /\ Len(collector.records) + Cardinality(collector.dropped) = Cardinality(caller.accepted)
             /\ collector.dropped # {} => now >= ReceiptTimeout
  <2>1. collector.queue = <<>> /\ \A i \in Slot : task[i].at = "none"
    BY <1>1 DEF CollectInv, EndInv
  <2>2. caller.accepted \subseteq Keys /\ collector.seen \subseteq Keys /\ config \in Collections
    BY <1>1 DEF CollectInv, CollectTypes
  <2>3. caller.accepted = collector.seen
    <3>1. DOMAIN collector.queue = {}
      BY <2>1
    <3>2. \A k : ~Queued(k)
      BY <3>1 DEF Queued
    <3>3. \A k \in Keys : k \in caller.accepted <=> k \in collector.seen
      BY <1>1, <3>2 DEF CollectInv, QueueInv
    <3> QED BY <2>2, <3>3
  <2>4. Taken \subseteq Slot
    <3>1. Cardinality(collector.seen) \in Nat /\ Cardinality(collector.seen) <= Len(config.tracked)
      BY <1>1, <2>2, SetsOfKeys DEF CollectInv
    <3> QED BY <2>2, <3>1, Tracked DEF Taken
  <2>5. collector.seen = Collected
    <3>1. \A i \in Taken : task[i].key \in Collected
      BY <1>1, <2>1, <2>4 DEF CollectInv, ResultInv
    <3>2. \A k \in collector.seen : \E i \in Taken : task[i].key = k
      BY <1>1 DEF CollectInv, TaskInv
    <3>3. Collected \subseteq collector.seen
      BY <1>1 DEF CollectInv, ResultInv
    <3> QED BY <3>1, <3>2, <3>3
  <2> QED BY <1>1, <2>3, <2>5 DEF CollectInv, ResultInv, DeadlineInv
<1> QED BY <1>1, ReceiptCount DEF Receipts!AcceptedAreCollected, Collected

-----------------------------------------------------------------------------
(***************************************************************************)
(* bench call, for any corpus, number of passes and workers, and any order *)
(* of answers.  Every request of the open loop is a row, under way or      *)
(* dropped; every ticket of the closed loop that was taken has its one row *)
(* or is under way, and a ticket is a pass and a record by division.  The  *)
(* digest kept for a record can change only to the first pass's, since one *)
(* pass has one row of it.                                                 *)
(***************************************************************************)

Size == Cardinality(Call!Chosen)
Record == 1 .. Size
Outcome == Call!Answered \cup Call!Failures
Digest == config.digests \cup {Call!NoAnswer}
CallRow == [slot : Record, status : Outcome, digest : Digest, pass : Nat \cup {-1}]
Opened == call.at \in {"open_loop", "drain"}

CallTypes ==
    /\ config \in CallRuns
    /\ call \in [at : {"load", "prime", "open_loop", "drain", "closed_loop", "finish", "done", "failed"},
                 corpus : {call.corpus}, issued : Nat, cursor : Nat, responses : {call.responses},
                 refused : {call.refused}]
    /\ call.at \notin {"load", "failed"} => DOMAIN call.corpus = Record /\ Len(call.corpus) = Size /\ Size > 0
    /\ flying \in SUBSET [slot : Record, ticket : Nat] /\ IsFiniteSet(flying)
    /\ recorder \in [rows : Seq(CallRow), dropped : Seq(Record), nondeterministic : Seq(Record),
                     references : [Record -> Digest]]

\* What of the open loop has been answered, flies, or was dropped.
RowsOf(passes) == {i \in DOMAIN recorder.rows : recorder.rows[i].pass \in passes}
OpenInv ==
    /\ call.at \in {"load", "prime", "failed"} => recorder.rows = <<>> /\ recorder.dropped = <<>> /\ call.issued = 0
    /\ call.at # "closed_loop" /\ ~Opened => flying = {}
    /\ Opened => \A r \in flying : r.ticket < call.issued
    /\ config.measure =>
         Cardinality(RowsOf({-1})) + (IF Opened THEN Cardinality(flying) ELSE 0) + Len(recorder.dropped)
           = call.issued
    /\ ~config.measure => recorder.rows = <<>>

\* The tickets of the closed loop: each is under way or has its one row.
SlotOf(t) == (t % Size) + 1
RowIs(i, t) == recorder.rows[i].slot = SlotOf(t) /\ recorder.rows[i].pass = t \div Size
TicketInv ==
    /\ call.at \in {"load", "prime", "open_loop", "drain", "failed"} => call.cursor = 0
    /\ call.at = "closed_loop" => config.measure /\ call.cursor <= config.passes * Size
    /\ call.at \in {"finish", "done"} /\ config.measure => call.cursor = config.passes * Size
    /\ \A i, j \in RowsOf(Nat) : recorder.rows[i].slot = recorder.rows[j].slot
                                  /\ recorder.rows[i].pass = recorder.rows[j].pass => i = j
    /\ \A i \in RowsOf(Nat) : \E t \in 0 .. call.cursor - 1 : RowIs(i, t)
    /\ \A t \in 0 .. call.cursor - 1 : (\E r \in flying : r.ticket = t) \/ \E i \in RowsOf(Nat) : RowIs(i, t)
    /\ call.at = "closed_loop" =>
         /\ \A r \in flying : r.ticket < call.cursor /\ r.slot = SlotOf(r.ticket)
         /\ \A r \in flying, i \in RowsOf(Nat) : ~RowIs(i, r.ticket)

\* The digests that are kept are of the answers.
ReferenceInv ==
    /\ \A slot \in Record :
         /\ recorder.references[slot] \in Call!Seen(slot) \cup {Call!NoAnswer}
         /\ recorder.references[slot] = Call!NoAnswer => Call!Seen(slot) = {}
         /\ \A i \in Call!Rows(slot, 0) : recorder.rows[i].digest # Call!NoAnswer =>
                                            recorder.references[slot] = recorder.rows[i].digest
         /\ (\E k \in DOMAIN recorder.nondeterministic : recorder.nondeterministic[k] = slot)
              <=> \E d, e \in Call!Seen(slot) : d # e
    /\ call.at = "done" => call.responses = recorder.references

CallInv == CallTypes /\ OpenInv /\ TicketInv /\ ReferenceInv

-----------------------------------------------------------------------------
LEMMA CallCount == \A S : Call!Cardinality(S) = Cardinality(S)
BY DEF Call!Cardinality, Cardinality

LEMMA CallConfig ==
    ASSUME config \in CallRuns
    PROVE  /\ IsFiniteSet(Call!Chosen) /\ Size \in Nat /\ DOMAIN Call!Replayed = Record
           /\ config.passes \in Nat /\ config.measure \in BOOLEAN
           /\ config.max_concurrent \in Nat /\ config.concurrency \in Nat
<1>1. /\ config.lines \in Seq(Call!Range(config.lines)) /\ config.passes \in Nat
      /\ config.measure \in BOOLEAN /\ config.max_concurrent \in Nat /\ config.concurrency \in Nat
  BY PartsAssumption DEF Call!CallAssumption
<1>2. DOMAIN config.lines = 1 .. Len(config.lines) /\ Len(config.lines) \in Nat
  BY <1>1
<1>3. IsFiniteSet(DOMAIN config.lines)
  BY <1>2, FS_Interval
<1>4. Call!Chosen \subseteq DOMAIN config.lines
  BY DEF Call!Chosen
<1>5. IsFiniteSet(Call!Chosen)
  BY <1>3, <1>4, FS_Subset
<1>6. Size \in Nat
  BY <1>5, FS_CardinalityType DEF Size
<1>7. DOMAIN Call!Replayed = Record
  BY CallCount, <1>6 DEF Call!Replayed, Record, Size
<1> QED BY <1>1, <1>5, <1>6, <1>7

\* Division: a ticket is its pass and its slot.
LEMMA Tickets ==
    ASSUME NEW n \in Nat, n > 0
    PROVE  /\ \A t \in Nat : t \div n \in Nat /\ t % n \in 0 .. n - 1 /\ t = ((t \div n) * n) + (t % n)
           /\ \A p \in Nat, s \in 0 .. n - 1 : (p * n) + s \in Nat /\ ((p * n) + s) \div n = p /\ ((p * n) + s) % n = s
<1>1. ASSUME NEW t \in Nat PROVE t \div n \in Nat /\ t % n \in 0 .. n - 1 /\ t = ((t \div n) * n) + (t % n)
  OBVIOUS
<1>2. ASSUME NEW p \in Nat, NEW s \in 0 .. n - 1
      PROVE  (p * n) + s \in Nat /\ ((p * n) + s) \div n = p /\ ((p * n) + s) % n = s
  OBVIOUS
<1> QED BY <1>1, <1>2

LEMMA CallStart == ASSUME Call!Init PROVE CallInv
<1>1. /\ config \in CallRuns /\ flying = {}
      /\ call = [at |-> "load", corpus |-> <<>>, issued |-> 0, cursor |-> 0, responses |-> <<>>, refused |-> FALSE]
      /\ recorder = [rows |-> <<>>, dropped |-> <<>>, nondeterministic |-> <<>>,
                      references |-> [s \in DOMAIN Call!Replayed |-> Call!NoAnswer]]
  BY DEF Call!Init
<1>2. Size \in Nat /\ DOMAIN Call!Replayed = Record
  BY <1>1, CallConfig
<1>3. \A S : RowsOf(S) = {}
  BY <1>1 DEF RowsOf
<1>4. Cardinality(RowsOf({-1})) = 0 /\ IsFiniteSet(flying)
  BY <1>1, <1>3, FS_EmptySet
<1>5. CallTypes
  BY <1>1, <1>2, <1>4 DEF CallTypes, Digest
<1>6. OpenInv
  BY <1>1, <1>4 DEF OpenInv, Opened
<1>7. TicketInv
  BY <1>1, <1>3 DEF TicketInv
<1>8. ReferenceInv
  <2>1. \A slot : Call!Seen(slot) = {}
    BY <1>1 DEF Call!Seen
  <2>2. \A slot : Call!Rows(slot, 0) = {}
    BY <1>1 DEF Call!Rows
  <2>3. \A slot \in Record : recorder.references[slot] = Call!NoAnswer
    BY <1>1, <1>2
  <2> QED BY <1>1, <2>1, <2>2, <2>3 DEF ReferenceInv
<1> QED BY <1>5, <1>6, <1>7, <1>8 DEF CallInv

-----------------------------------------------------------------------------
\* The corpus is chosen by the arguments, which never change.
LEMMA CallConfigStays ==
    ASSUME config' = config
    PROVE  /\ Size' = Size /\ Record' = Record /\ Digest' = Digest /\ CallRow' = CallRow
           /\ \A t : SlotOf(t)' = SlotOf(t)
<1>1. Size' = Size
  BY DEF Size, Call!Chosen
<1>2. Record' = Record /\ Digest' = Digest
  BY <1>1 DEF Record, Digest
<1>3. CallRow' = CallRow
  BY <1>2 DEF CallRow
<1>4. \A t : SlotOf(t)' = SlotOf(t)
  BY <1>1 DEF SlotOf
<1> QED BY <1>1, <1>2, <1>3, <1>4

LEMMA RecorderStays ==
    ASSUME recorder'.rows = recorder.rows, config' = config
    PROVE  /\ \A S : RowsOf(S)' = RowsOf(S)
           /\ \A s : Call!Seen(s)' = Call!Seen(s)
           /\ \A s, p : Call!Rows(s, p)' = Call!Rows(s, p)
           /\ \A i, t : RowIs(i, t)' <=> RowIs(i, t)
<1>1. \A t : SlotOf(t)' = SlotOf(t) /\ Size' = Size
  BY CallConfigStays
<1>2. \A i, t : RowIs(i, t)' <=> RowIs(i, t)
  BY <1>1 DEF RowIs
<1> QED BY <1>2 DEF RowsOf, Call!Seen, Call!Rows

\* A step that writes no row and moves the command on.
LEMMA LoadCorpusKeeps == ASSUME CallInv, Call!LoadCorpus PROVE CallInv'
<1>1. config' = config /\ flying' = flying /\ recorder' = recorder /\ call.at = "load"
  BY DEF Call!LoadCorpus
<1> DEFINE Loads(at, corpus) ==
             /\ call' = [call EXCEPT !.at = at, !.corpus = corpus]
             /\ at = "prime" => Call!Replayed # <<>> /\ DOMAIN corpus = DOMAIN Call!Replayed
                                 /\ corpus = [s \in DOMAIN Call!Replayed |-> corpus[s]]
<1>2a. PICK at \in {"prime", "failed"} : \E corpus : Loads(at, corpus)
  <2>1. CASE ~Call!CorpusIsValid \/ Call!Replayed = <<>>
    <3>1. call' = [call EXCEPT !.at = "failed"]
      BY <2>1 DEF Call!LoadCorpus, Call!Fails, Call!Goes
    <3>2. call' = [call EXCEPT !.at = "failed", !.corpus = call.corpus]
      BY <3>1 DEF CallInv, CallTypes
    <3> QED BY <3>2
  <2>2. CASE ~(~Call!CorpusIsValid \/ Call!Replayed = <<>>)
    <3> DEFINE C == [s \in DOMAIN Call!Replayed |->
              LET line == config.lines[Call!Replayed[s]]
              IN  [record_index |-> Call!Replayed[s], key |-> Call!KeyOf(line),
                   params |-> Call!Rewritten(line.method, line.params)]]
    <3>1. call' = [call EXCEPT !.at = "prime", !.corpus = C]
      BY <2>2 DEF Call!LoadCorpus
    <3>2. DOMAIN C = DOMAIN Call!Replayed /\ C = [s \in DOMAIN Call!Replayed |-> C[s]]
      OBVIOUS
    <3> HIDE DEF C
    <3> QED BY <2>2, <3>1, <3>2
  <2> QED BY <2>1, <2>2
<1>2. PICK corpus : Loads(at, corpus)
  BY <1>2a
<1>3. Size \in Nat /\ DOMAIN Call!Replayed = Record /\ config \in CallRuns
  BY CallConfig DEF CallInv, CallTypes
<1>4. Size' = Size /\ Record' = Record /\ CallRow' = CallRow /\ Digest' = Digest
  BY <1>1, CallConfigStays
<1>5. at = "prime" => DOMAIN corpus = Record /\ Len(corpus) = Size /\ Size > 0
  <2> SUFFICES ASSUME at = "prime" PROVE DOMAIN corpus = Record /\ Len(corpus) = Size /\ Size > 0
    OBVIOUS
  <2>1. DOMAIN corpus = 1 .. Size /\ corpus = [s \in 1 .. Size |-> corpus[s]]
    BY <1>2, <1>3 DEF Record
  <2>2. Len(corpus) = Size
    BY <1>3, <2>1
  <2>3. Size # 0
    <3> SUFFICES ASSUME Size = 0 PROVE FALSE
      OBVIOUS
    <3>1. DOMAIN Call!Replayed = {}
      BY <1>3 DEF Record
    <3>2. Call!Replayed = <<>>
      BY <3>1 DEF Call!Replayed
    <3> QED BY <1>2, <3>2
  <2> QED BY <1>3, <2>1, <2>2, <2>3 DEF Record
<1>6. /\ call'.at = at /\ call'.corpus = corpus /\ call'.issued = call.issued /\ call'.cursor = call.cursor
      /\ call' \in [at : {"load", "prime", "open_loop", "drain", "closed_loop", "finish", "done", "failed"},
                    corpus : {call'.corpus}, issued : Nat, cursor : Nat, responses : {call'.responses},
                    refused : {call'.refused}]
  BY <1>2 DEF CallInv, CallTypes
<1>7. CallTypes'
  BY <1>1, <1>4, <1>5, <1>6 DEF CallInv, CallTypes
<1>8. OpenInv'
  BY <1>1, <1>6, RecorderStays DEF CallInv, OpenInv, Opened
<1>9. TicketInv'
  BY <1>1, <1>6, RecorderStays DEF CallInv, TicketInv
<1>10. ReferenceInv'
  BY <1>1, <1>4, <1>6, RecorderStays DEF CallInv, ReferenceInv
<1> QED BY <1>7, <1>8, <1>9, <1>10 DEF CallInv

\* A step that only moves the command on.
LEMMA CallGoesOn ==
    ASSUME CallInv, config' = config, flying' = flying, recorder' = recorder,
           NEW at \in {"open_loop", "drain", "closed_loop", "finish", "failed"},
           call' = [call EXCEPT !.at = at]
    PROVE  /\ call'.at = at /\ call'.corpus = call.corpus /\ call'.issued = call.issued
           /\ call'.cursor = call.cursor
           /\ call.at \notin {"load", "failed"} => CallTypes'
           /\ ReferenceInv'
<1>1. Size' = Size /\ Record' = Record /\ CallRow' = CallRow /\ Digest' = Digest
  BY CallConfigStays
<1>2. /\ call'.at = at /\ call'.corpus = call.corpus /\ call'.issued = call.issued
      /\ call'.cursor = call.cursor
      /\ call' \in [at : {"load", "prime", "open_loop", "drain", "closed_loop", "finish", "done", "failed"},
                    corpus : {call'.corpus}, issued : Nat, cursor : Nat, responses : {call'.responses},
                    refused : {call'.refused}]
  BY DEF CallInv, CallTypes
<1>3. call.at \notin {"load", "failed"} => CallTypes'
  BY <1>1, <1>2 DEF CallInv, CallTypes
<1>4. ReferenceInv'
  BY <1>1, <1>2, RecorderStays DEF CallInv, ReferenceInv
<1> QED BY <1>2, <1>3, <1>4

LEMMA PrimeKeeps == ASSUME CallInv, Call!Prime PROVE CallInv'
<1>1. config' = config /\ flying' = flying /\ recorder' = recorder /\ call.at = "prime"
  BY DEF Call!Prime
<1>2. PICK at \in {"failed", "open_loop"} : call' = [call EXCEPT !.at = at]
  BY DEF Call!Prime, Call!Fails, Call!Goes
<1>3. CallTypes' /\ ReferenceInv' /\ call'.at = at /\ call'.issued = call.issued /\ call'.cursor = call.cursor
  BY <1>1, <1>2, CallGoesOn
<1>4. flying = {} /\ Cardinality(flying) = 0
  BY <1>1, FS_EmptySet DEF CallInv, OpenInv, Opened
<1>5. OpenInv'
  BY <1>1, <1>3, <1>4, RecorderStays DEF CallInv, OpenInv, Opened
<1>6. TicketInv'
  BY <1>1, <1>3, RecorderStays DEF CallInv, TicketInv
<1> QED BY <1>3, <1>5, <1>6 DEF CallInv

LEMMA OpenLoopEndsKeeps == ASSUME CallInv, Call!OpenLoopEnds PROVE CallInv'
<1>1. /\ config' = config /\ flying' = flying /\ recorder' = recorder /\ call.at = "open_loop"
      /\ call' = [call EXCEPT !.at = "drain"]
  BY DEF Call!OpenLoopEnds, Call!Goes
<1>2. CallTypes' /\ ReferenceInv' /\ call'.at = "drain" /\ call'.issued = call.issued /\ call'.cursor = call.cursor
  BY <1>1, CallGoesOn
<1>3. OpenInv'
  BY <1>1, <1>2, RecorderStays DEF CallInv, OpenInv, Opened
<1>4. TicketInv'
  BY <1>1, <1>2, RecorderStays DEF CallInv, TicketInv
<1> QED BY <1>2, <1>3, <1>4 DEF CallInv

\* Without workload there is nothing to answer: the tickets are all taken.
LEMMA DrainKeeps == ASSUME CallInv, Call!Drain PROVE CallInv'
<1> DEFINE at == IF config.measure /\ config.passes > 0 THEN "closed_loop" ELSE "finish"
<1>1. /\ config' = config /\ flying' = flying /\ recorder' = recorder /\ call.at = "drain" /\ flying = {}
      /\ call' = [call EXCEPT !.at = at]
  BY DEF Call!Drain, Call!Goes
<1>a. at \in {"closed_loop", "finish"}
  OBVIOUS
<1>2. CallTypes' /\ ReferenceInv' /\ call'.at = at /\ call'.issued = call.issued /\ call'.cursor = call.cursor
  BY <1>1, <1>a, CallGoesOn
<1>3. Cardinality(flying) = 0
  BY <1>1, FS_EmptySet
<1>4. OpenInv'
  BY <1>1, <1>2, <1>3, <1>a, RecorderStays DEF CallInv, OpenInv, Opened
<1>5. config.passes \in Nat /\ Size \in Nat /\ Size' = Size
  BY <1>1, CallConfig, CallConfigStays DEF CallInv, CallTypes
<1>6. call.cursor = 0
  BY <1>1 DEF CallInv, TicketInv
<1>7. at = "closed_loop" => config.measure /\ 0 <= config.passes * Size
  BY <1>5
<1>8. at = "finish" /\ config.measure => 0 = config.passes * Size
  BY <1>5
<1>9. TicketInv'
  <2> HIDE DEF at
  <2> QED BY <1>1, <1>2, <1>a, <1>5, <1>6, <1>7, <1>8, RecorderStays DEF CallInv, TicketInv
<1> QED BY <1>2, <1>4, <1>9 DEF CallInv

LEMMA WorkersJoinKeeps == ASSUME CallInv, Call!WorkersJoin PROVE CallInv'
<1>1. /\ config' = config /\ flying' = flying /\ recorder' = recorder /\ call.at = "closed_loop" /\ flying = {}
      /\ call' = [call EXCEPT !.at = "finish"] /\ call.cursor = config.passes * Len(call.corpus)
  BY DEF Call!WorkersJoin, Call!Goes, Call!Total
<1>2. CallTypes' /\ ReferenceInv' /\ call'.at = "finish" /\ call'.issued = call.issued /\ call'.cursor = call.cursor
  BY <1>1, CallGoesOn
<1>3. Len(call.corpus) = Size /\ Size' = Size
  BY <1>1, CallConfigStays DEF CallInv, CallTypes
<1>4. OpenInv'
  BY <1>1, <1>2, RecorderStays DEF CallInv, OpenInv, Opened
<1>5. TicketInv'
  BY <1>1, <1>2, <1>3, RecorderStays DEF CallInv, TicketInv
<1> QED BY <1>2, <1>4, <1>5 DEF CallInv

LEMMA FinishKeeps == ASSUME CallInv, Call!Finish PROVE CallInv'
<1>1. config' = config /\ flying' = flying /\ recorder' = recorder /\ call.at = "finish"
  BY DEF Call!Finish
<1>2. PICK refused : call' = [call EXCEPT !.at = "done", !.responses = recorder.references, !.refused = refused]
  BY DEF Call!Finish
<1>3. /\ call'.at = "done" /\ call'.corpus = call.corpus /\ call'.issued = call.issued
      /\ call'.cursor = call.cursor /\ call'.responses = recorder.references
      /\ call' \in [at : {"load", "prime", "open_loop", "drain", "closed_loop", "finish", "done", "failed"},
                    corpus : {call'.corpus}, issued : Nat, cursor : Nat, responses : {call'.responses},
                    refused : {call'.refused}]
  BY <1>2 DEF CallInv, CallTypes
<1>4. Size' = Size /\ Record' = Record /\ CallRow' = CallRow /\ Digest' = Digest
  BY <1>1, CallConfigStays
<1>5. CallTypes'
  BY <1>1, <1>3, <1>4 DEF CallInv, CallTypes
<1>6. OpenInv'
  BY <1>1, <1>3, RecorderStays DEF CallInv, OpenInv, Opened
<1>7. TicketInv'
  BY <1>1, <1>3, <1>4, RecorderStays DEF CallInv, TicketInv
<1>8. ReferenceInv'
  BY <1>1, <1>3, <1>4, RecorderStays DEF CallInv, ReferenceInv
<1> QED BY <1>5, <1>6, <1>7, <1>8 DEF CallInv

-----------------------------------------------------------------------------
LEMMA RowsAreFinite ==
    ASSUME CallTypes, NEW S PROVE IsFiniteSet(RowsOf(S)) /\ Cardinality(RowsOf(S)) \in Nat
<1>1. recorder.rows \in Seq(CallRow)
  BY DEF CallTypes
<1>2. IsFiniteSet(1 .. Len(recorder.rows))
  BY <1>1, FS_Interval
<1>3. RowsOf(S) \subseteq 1 .. Len(recorder.rows)
  BY <1>1 DEF RowsOf
<1> QED BY <1>2, <1>3, FS_Subset, FS_CardinalityType

LEMMA AppendedTo == ASSUME NEW S, NEW s \in Seq(S), NEW e \in S PROVE Append(s, e) \in Seq(S)
OBVIOUS

\* A request of the open loop is under way or is dropped.
LEMMA IssueKeeps == ASSUME CallInv, Call!Issue PROVE CallInv'
<1>1. /\ config' = config /\ call.at = "open_loop"
      /\ call' = [call EXCEPT !.issued = call.issued + 1]
  BY DEF Call!Issue
<1>2. PICK slot \in DOMAIN call.corpus :
         \/ /\ flying' = flying \cup {[slot |-> slot, ticket |-> call.issued]}
            /\ recorder' = recorder
         \/ /\ recorder' = IF config.measure THEN [recorder EXCEPT !.dropped = Append(recorder.dropped, slot)]
                           ELSE recorder
            /\ flying' = flying
  BY DEF Call!Issue, Call!Slots
<1>3. /\ slot \in Record /\ call.issued \in Nat /\ flying \in SUBSET [slot : Record, ticket : Nat]
      /\ IsFiniteSet(flying) /\ DOMAIN call.corpus = Record
      /\ recorder \in [rows : Seq(CallRow), dropped : Seq(Record), nondeterministic : Seq(Record),
                       references : [Record -> Digest]]
  BY <1>1, <1>2 DEF CallInv, CallTypes
<1>4. /\ call'.at = "open_loop" /\ call'.corpus = call.corpus /\ call'.issued = call.issued + 1
      /\ call'.cursor = call.cursor
      /\ call' \in [at : {"load", "prime", "open_loop", "drain", "closed_loop", "finish", "done", "failed"},
                    corpus : {call'.corpus}, issued : Nat, cursor : Nat, responses : {call'.responses},
                    refused : {call'.refused}]
  <2>1. PICK issued \in Nat : issued = call.issued + 1
    BY <1>3
  <2>2. call' = [call EXCEPT !.issued = issued]
    BY <1>1, <2>1
  <2>3. /\ call'.at = call.at /\ call'.corpus = call.corpus /\ call'.issued = issued
        /\ call'.cursor = call.cursor
        /\ call' \in [at : {"load", "prime", "open_loop", "drain", "closed_loop", "finish", "done", "failed"},
                      corpus : {call'.corpus}, issued : Nat, cursor : Nat, responses : {call'.responses},
                      refused : {call'.refused}]
    BY <2>2 DEF CallInv, CallTypes
  <2> QED BY <1>1, <2>1, <2>3
<1>5. /\ recorder' \in [rows : Seq(CallRow), dropped : Seq(Record), nondeterministic : Seq(Record),
                         references : [Record -> Digest]]
      /\ recorder'.rows = recorder.rows /\ recorder'.nondeterministic = recorder.nondeterministic
      /\ recorder'.references = recorder.references
  <2>1. CASE recorder' = recorder
    BY <1>3, <2>1
  <2>2. CASE recorder' = [recorder EXCEPT !.dropped = Append(recorder.dropped, slot)]
    <3>1. PICK dropped \in Seq(Record) : dropped = Append(recorder.dropped, slot)
      BY <1>3, AppendedTo
    <3>2. recorder' = [recorder EXCEPT !.dropped = dropped]
      BY <2>2, <3>1
    <3> QED BY <1>3, <3>2
  <2> QED BY <1>2, <2>1, <2>2
<1>6. Size' = Size /\ Record' = Record /\ CallRow' = CallRow /\ Digest' = Digest
  BY <1>1, CallConfigStays
<1>7. /\ flying' \in SUBSET [slot : Record, ticket : Nat] /\ IsFiniteSet(flying')
      /\ Cardinality(flying) \in Nat
      /\ \A r \in flying' : r.ticket < call.issued + 1
  <2>1. \A r \in flying : r.ticket < call.issued
    BY <1>1 DEF CallInv, OpenInv, Opened
  <2>2. IsFiniteSet(flying')
    <3>1. IsFiniteSet(flying \cup {[slot |-> slot, ticket |-> call.issued]})
      BY <1>3, FS_AddElement
    <3> QED BY <1>2, <1>3, <3>1
  <2>3. \A r \in flying : r.ticket \in Nat
    BY <1>3
  <2> QED BY <1>2, <1>3, <2>1, <2>2, <2>3, FS_CardinalityType
<1>8. CallTypes'
  BY <1>1, <1>3, <1>4, <1>5, <1>6, <1>7 DEF CallInv, CallTypes
<1>9. config.measure => Cardinality(flying') + Len(recorder'.dropped) = Cardinality(flying) + Len(recorder.dropped) + 1
  <2>1. CASE flying' = flying \cup {[slot |-> slot, ticket |-> call.issued]} /\ recorder' = recorder
    <3>1. [slot |-> slot, ticket |-> call.issued] \notin flying
      BY <1>1, <1>3 DEF CallInv, OpenInv, Opened
    <3>2. Cardinality(flying') = Cardinality(flying) + 1
      BY <1>3, <2>1, <3>1, FS_AddElement
    <3> QED BY <1>3, <1>7, <2>1, <3>2
  <2>2. CASE flying' = flying /\ recorder' = IF config.measure
               THEN [recorder EXCEPT !.dropped = Append(recorder.dropped, slot)] ELSE recorder
    <3>1. config.measure => recorder'.dropped = Append(recorder.dropped, slot)
      BY <1>3, <2>2
    <3> QED BY <1>3, <1>7, <2>2, <3>1
  <2> QED BY <1>2, <2>1, <2>2
<1>10. OpenInv'
  <2>1. RowsOf({-1})' = RowsOf({-1})
    BY <1>1, <1>5, RecorderStays
  <2>2. config.measure => Cardinality(RowsOf({-1})) + Cardinality(flying) + Len(recorder.dropped) = call.issued
    BY <1>1 DEF CallInv, OpenInv, Opened
  <2>3. ~config.measure => recorder.rows = <<>>
    BY DEF CallInv, OpenInv
  <2>4. Len(recorder.dropped) \in Nat /\ Len(recorder'.dropped) \in Nat /\ Cardinality(flying') \in Nat
    BY <1>3, <1>5, <1>7, FS_CardinalityType
  <2>5. Cardinality(RowsOf({-1})) \in Nat
    BY RowsAreFinite DEF CallInv
  <2>6. config.measure => Cardinality(RowsOf({-1})) + Cardinality(flying') + Len(recorder'.dropped) = call.issued + 1
    BY SMTT(60), <1>3, <1>7, <1>9, <2>2, <2>4, <2>5
  <2> QED BY <1>1, <1>4, <1>5, <1>7, <2>1, <2>3, <2>6 DEF OpenInv, Opened
<1>11. TicketInv'
  <2>1. call.cursor = 0
    BY <1>1 DEF CallInv, TicketInv
  <2>2. RowsOf(Nat)' = RowsOf(Nat) /\ \A i, t : RowIs(i, t)' <=> RowIs(i, t)
    BY <1>1, <1>5, RecorderStays
  <2> QED BY <1>1, <1>4, <1>5, <2>1, <2>2 DEF CallInv, TicketInv
<1>12. ReferenceInv'
  BY <1>1, <1>4, <1>5, <1>6, RecorderStays DEF CallInv, ReferenceInv
<1> QED BY <1>8, <1>10, <1>11, <1>12 DEF CallInv

\* A ticket is determined by its pass and its slot.
LEMMA SlotAndPass ==
    ASSUME Size \in Nat, Size > 0, NEW t \in Nat, NEW u \in Nat,
           SlotOf(t) = SlotOf(u), t \div Size = u \div Size
    PROVE  t = u
<1>1. \A k \in Nat : k \div Size \in Nat /\ k % Size \in 0 .. Size - 1 /\ k = ((k \div Size) * Size) + (k % Size)
  BY Tickets
<1>2. t % Size = u % Size
  <2>1. t % Size \in Nat /\ u % Size \in Nat
    BY <1>1
  <2> QED BY <2>1 DEF SlotOf
<1>3. t = ((t \div Size) * Size) + (t % Size) /\ u = ((u \div Size) * Size) + (u % Size)
  BY <1>1
<1> QED BY <1>2, <1>3

LEMMA OneTicket ==
    ASSUME Size \in Nat, Size > 0, NEW t \in Nat, NEW u \in Nat, NEW i, RowIs(i, t), RowIs(i, u)
    PROVE  t = u
BY SlotAndPass DEF RowIs

\* A worker takes a ticket that no row and no request has.
LEMMA TakeTicketKeeps == ASSUME CallInv, Call!TakeTicket PROVE CallInv'
<1> DEFINE new == [slot |-> SlotOf(call.cursor), ticket |-> call.cursor]
<1>1. /\ config' = config /\ recorder' = recorder /\ call.at = "closed_loop"
      /\ call' = [call EXCEPT !.cursor = call.cursor + 1]
      /\ call.cursor < config.passes * Len(call.corpus)
      /\ flying' = flying \cup {[slot |-> (call.cursor % Len(call.corpus)) + 1, ticket |-> call.cursor]}
  BY DEF Call!TakeTicket, Call!Total
<1>2. /\ Len(call.corpus) = Size /\ DOMAIN call.corpus = Record /\ Size > 0 /\ call.cursor \in Nat
      /\ flying \in SUBSET [slot : Record, ticket : Nat] /\ IsFiniteSet(flying) /\ config \in CallRuns
  BY <1>1 DEF CallInv, CallTypes
<1>3. Size \in Nat /\ config.passes \in Nat
  BY <1>2, CallConfig
<1>4. call.cursor < config.passes * Size /\ flying' = flying \cup {new} /\ config.measure
  BY <1>1, <1>2 DEF SlotOf, CallInv, TicketInv
<1>5. /\ call'.at = "closed_loop" /\ call'.corpus = call.corpus /\ call'.issued = call.issued
      /\ call'.cursor = call.cursor + 1
      /\ call' \in [at : {"load", "prime", "open_loop", "drain", "closed_loop", "finish", "done", "failed"},
                    corpus : {call'.corpus}, issued : Nat, cursor : Nat, responses : {call'.responses},
                    refused : {call'.refused}]
  <2>1. PICK cursor \in Nat : cursor = call.cursor + 1
    BY <1>2
  <2>2. call' = [call EXCEPT !.cursor = cursor]
    BY <1>1, <2>1
  <2>3. /\ call'.at = call.at /\ call'.corpus = call.corpus /\ call'.issued = call.issued
        /\ call'.cursor = cursor
        /\ call' \in [at : {"load", "prime", "open_loop", "drain", "closed_loop", "finish", "done", "failed"},
                      corpus : {call'.corpus}, issued : Nat, cursor : Nat, responses : {call'.responses},
                      refused : {call'.refused}]
    BY <2>2 DEF CallInv, CallTypes
  <2> QED BY <1>1, <2>1, <2>3
<1>6. /\ Size' = Size /\ Record' = Record /\ CallRow' = CallRow /\ Digest' = Digest
      /\ \A t : SlotOf(t)' = SlotOf(t)
  BY <1>1, CallConfigStays
<1>8. new \in [slot : Record, ticket : Nat]
  <2>1. call.cursor % Size \in 0 .. Size - 1
    BY <1>2, <1>3, Tickets
  <2>2. SlotOf(call.cursor) \in Record
    BY <1>2, <1>3, <2>1 DEF SlotOf, Record
  <2> QED BY <1>2, <2>2
<1>9. /\ \A S : RowsOf(S)' = RowsOf(S)
      /\ \A i, t : RowIs(i, t)' <=> RowIs(i, t)
  BY <1>1, RecorderStays
<1>10. CallTypes'
  <2>1. flying' \in SUBSET [slot : Record, ticket : Nat] /\ IsFiniteSet(flying')
    BY <1>2, <1>4, <1>8, FS_AddElement
  <2> QED BY <1>1, <1>2, <1>5, <1>6, <2>1 DEF CallInv, CallTypes
<1>11. OpenInv'
  BY <1>1, <1>5, <1>9 DEF CallInv, OpenInv, Opened
<1>12. TicketInv'
  <2> DEFINE c == call.cursor
  <2>a. c \in Nat /\ call'.cursor = c + 1
    BY <1>2, <1>5
  <2> HIDE DEF c
  <2>1. /\ \A i \in RowsOf(Nat) : \E t \in 0 .. c - 1 : RowIs(i, t)
        /\ \A t \in 0 .. c - 1 : (\E r \in flying : r.ticket = t) \/ \E i \in RowsOf(Nat) : RowIs(i, t)
        /\ \A r \in flying : r.ticket < c /\ r.slot = SlotOf(r.ticket)
        /\ \A r \in flying, i \in RowsOf(Nat) : ~RowIs(i, r.ticket)
        /\ \A i, j \in RowsOf(Nat) : recorder.rows[i].slot = recorder.rows[j].slot
                                  /\ recorder.rows[i].pass = recorder.rows[j].pass => i = j
    BY <1>1 DEF CallInv, TicketInv, c
  <2>2. new.ticket = c /\ new.slot = SlotOf(new.ticket)
    BY DEF c
  <2>3. \A i \in RowsOf(Nat) : ~RowIs(i, c)
    <3> SUFFICES ASSUME NEW i \in RowsOf(Nat), RowIs(i, c) PROVE FALSE
      OBVIOUS
    <3>1. PICK t \in 0 .. c - 1 : RowIs(i, t)
      BY <2>1
    <3>2. t \in Nat /\ t < c
      BY <2>a, <3>1
    <3>3. t = c
      BY <1>2, <1>3, <2>a, <3>1, <3>2, OneTicket
    <3> QED BY <2>a, <3>2, <3>3
  <2> HIDE DEF new
  <2>4. \A i \in RowsOf(Nat) : \E t \in 0 .. (c + 1) - 1 : RowIs(i, t)
    BY <2>1, <2>a
  <2>5. \A t \in 0 .. (c + 1) - 1 : (\E r \in flying' : r.ticket = t) \/ \E i \in RowsOf(Nat) : RowIs(i, t)
    BY <1>4, <2>1, <2>2, <2>a
  <2>6. /\ \A r \in flying' : r.ticket < c + 1 /\ r.slot = SlotOf(r.ticket)
        /\ \A r \in flying', i \in RowsOf(Nat) : ~RowIs(i, r.ticket)
    <3>1. \A r \in flying : r.ticket \in Nat
      BY <1>2
    <3> QED BY <1>4, <2>1, <2>2, <2>3, <2>a, <3>1
  <2>7. c + 1 <= config.passes * Size
    <3>1. config.passes * Size \in Nat
      BY <1>3
    <3> QED BY <1>4, <2>a, <3>1 DEF c
  <2> QED BY <1>1, <1>4, <1>5, <1>6, <1>9, <2>1, <2>4, <2>5, <2>6, <2>7, <2>a DEF TicketInv
<1>13. ReferenceInv'
  BY <1>1, <1>5, <1>6, RecorderStays DEF CallInv, ReferenceInv
<1> QED BY <1>10, <1>11, <1>12, <1>13 DEF CallInv

-----------------------------------------------------------------------------
(* An answer is a row. *)

\* The row of request r.
NewRow(r, status, digest) ==
    [slot |-> r.slot, status |-> status, digest |-> digest,
     pass |-> IF call.at = "closed_loop" THEN r.ticket \div Size ELSE -1]

\* The row that is written by an answer that is recorded.
Recorded(r, row) ==
    /\ row \in CallRow /\ row.slot = r.slot
    /\ row.pass = (IF call.at = "closed_loop" THEN r.ticket \div Size ELSE -1)
    /\ recorder' = Call!Observe([recorder EXCEPT !.rows = Append(recorder.rows, row)], r.slot, row.digest,
                                call.at = "closed_loop" /\ row.pass = 0)

LEMMA AnswerIsRecorded ==
    ASSUME CallInv, NEW r \in flying, Call!Answer(r)
    PROVE  /\ call.at \in {"open_loop", "drain", "closed_loop"} /\ r.slot \in Record /\ r.ticket \in Nat
           /\ config' = config /\ call' = call /\ flying' = flying \ {r}
           /\ IF config.measure THEN \E row : Recorded(r, row) ELSE recorder' = recorder
<1>1. config' = config /\ call' = call /\ flying' = flying \ {r}
  BY DEF Call!Answer
<1>2. /\ call.at \in {"open_loop", "drain", "closed_loop"} /\ r.slot \in Record /\ r.ticket \in Nat
      /\ config \in CallRuns /\ Size > 0 /\ Len(call.corpus) = Size
  BY DEF CallInv, OpenInv, Opened, CallTypes
<1>3. Size \in Nat /\ config.measure \in BOOLEAN
  BY <1>2, CallConfig
<1>4. r.ticket \div Size \in Nat
  BY <1>2, <1>3, Tickets
<1>5. CASE ~config.measure
  BY <1>1, <1>2, <1>5 DEF Call!Answer
<1>6. CASE config.measure
  <2>0. PICK status \in Call!Answered \cup {"timeout"} :
          \E digest \in IF status \in Call!Answered THEN config.digests ELSE {Call!NoAnswer} :
            recorder' = Call!Observe([recorder EXCEPT !.rows = Append(@, Call!Row(r, status, digest))], r.slot, digest,
                                     call.at = "closed_loop" /\ Call!PassOf(r) = 0)
    BY <1>2, <1>6 DEF Call!Answer
  <2>1. PICK digest \in IF status \in Call!Answered THEN config.digests ELSE {Call!NoAnswer} :
          recorder' = Call!Observe([recorder EXCEPT !.rows = Append(@, Call!Row(r, status, digest))], r.slot, digest,
                                   call.at = "closed_loop" /\ Call!PassOf(r) = 0)
    BY <2>0
  <2> DEFINE row == NewRow(r, status, digest)
  <2>2. Call!PassOf(r) = r.ticket \div Size
    BY <1>2 DEF Call!PassOf
  <2>3. Call!Row(r, status, digest) = row
    BY <2>2 DEF Call!Row, NewRow
  <2>4. status \in Outcome /\ digest \in Digest
    BY DEF Outcome, Digest, Call!Answered, Call!Failures
  <2>5. row \in CallRow /\ row.slot = r.slot /\ row.digest = digest
        /\ row.pass = (IF call.at = "closed_loop" THEN r.ticket \div Size ELSE -1)
    BY <1>2, <1>4, <2>4 DEF NewRow, CallRow
  <2>6. (call.at = "closed_loop" /\ Call!PassOf(r) = 0) <=> (call.at = "closed_loop" /\ row.pass = 0)
    BY <2>2, <2>5
  <2>7. (call.at = "closed_loop" /\ Call!PassOf(r) = 0) = (call.at = "closed_loop" /\ row.pass = 0)
    BY <2>6
  <2> HIDE DEF row
  <2>8. Recorded(r, row)
    BY <2>1, <2>3, <2>5, <2>7 DEF Recorded
  <2> QED BY <1>1, <1>2, <1>6, <2>8
<1> QED BY <1>3, <1>5, <1>6

\* What the recorder keeps of an answer.
LEMMA WhatIsObserved ==
    ASSUME CallTypes, NEW r, NEW row, Recorded(r, row), r.slot \in Record
    PROVE  /\ recorder' \in [rows : Seq(CallRow), dropped : Seq(Record), nondeterministic : Seq(Record),
                             references : [Record -> Digest]]
           /\ recorder'.rows = Append(recorder.rows, row) /\ recorder'.dropped = recorder.dropped
           /\ \/ /\ row.digest = Call!NoAnswer \/ recorder.references[r.slot] = row.digest
                 /\ recorder'.references = recorder.references
                 /\ recorder'.nondeterministic = recorder.nondeterministic
              \/ /\ row.digest # Call!NoAnswer /\ recorder.references[r.slot] = Call!NoAnswer
                 /\ recorder'.references = [recorder.references EXCEPT ![r.slot] = row.digest]
                 /\ recorder'.nondeterministic = recorder.nondeterministic
              \/ /\ row.digest # Call!NoAnswer /\ recorder.references[r.slot] \notin {Call!NoAnswer, row.digest}
                 /\ recorder'.references = [recorder.references EXCEPT ![r.slot] =
                      IF call.at = "closed_loop" /\ row.pass = 0 THEN row.digest ELSE recorder.references[r.slot]]
                 /\ recorder'.nondeterministic = Append(recorder.nondeterministic, r.slot)
<1> DEFINE T == [rows : Seq(CallRow), dropped : Seq(Record), nondeterministic : Seq(Record),
                 references : [Record -> Digest]]
<1>1. recorder \in T /\ row \in CallRow /\ row.digest \in Digest
  BY DEF CallTypes, Recorded, CallRow
<1>2. PICK rows \in Seq(CallRow) : rows = Append(recorder.rows, row)
  BY <1>1, AppendedTo
<1>3. PICK base : base = [recorder EXCEPT !.rows = rows]
  OBVIOUS
<1>4. /\ base \in T /\ base.rows = rows /\ base.dropped = recorder.dropped
      /\ base.references = recorder.references /\ base.nondeterministic = recorder.nondeterministic
  BY <1>1, <1>2, <1>3
<1>5. recorder' = Call!Observe(base, r.slot, row.digest, call.at = "closed_loop" /\ row.pass = 0)
  BY <1>2, <1>3 DEF Recorded
<1>6. CASE row.digest = Call!NoAnswer \/ recorder.references[r.slot] = row.digest
  <2>1. recorder' = base
    BY <1>4, <1>5, <1>6 DEF Call!Observe
  <2> QED BY <1>2, <1>4, <1>6, <2>1
<1>7. CASE row.digest # Call!NoAnswer /\ recorder.references[r.slot] = Call!NoAnswer
  <2>1. PICK references \in [Record -> Digest] : references = [recorder.references EXCEPT ![r.slot] = row.digest]
    BY <1>1
  <2>2. recorder' = [base EXCEPT !.references[r.slot] = row.digest]
    BY <1>4, <1>5, <1>7 DEF Call!Observe
  <2>3. recorder' = [base EXCEPT !.references = references]
    BY <1>4, <2>1, <2>2
  <2>4. /\ recorder' \in T /\ recorder'.rows = rows /\ recorder'.dropped = recorder.dropped
        /\ recorder'.references = references /\ recorder'.nondeterministic = recorder.nondeterministic
    BY <1>4, <2>3
  <2> QED BY <1>2, <1>7, <2>1, <2>4
<1>8. CASE row.digest # Call!NoAnswer /\ recorder.references[r.slot] \notin {Call!NoAnswer, row.digest}
  <2>0. PICK kept \in Digest :
          kept = IF call.at = "closed_loop" /\ row.pass = 0 THEN row.digest ELSE recorder.references[r.slot]
    BY <1>1
  <2>1. PICK references \in [Record -> Digest] : references = [recorder.references EXCEPT ![r.slot] = kept]
    BY <1>1
  <2>2. PICK nondeterministic \in Seq(Record) : nondeterministic = Append(recorder.nondeterministic, r.slot)
    BY <1>1, AppendedTo
  <2>3. recorder' = [base EXCEPT !.nondeterministic = Append(@, r.slot),
              !.references[r.slot] = IF call.at = "closed_loop" /\ row.pass = 0 THEN row.digest ELSE @]
    BY <1>4, <1>5, <1>8 DEF Call!Observe
  <2>4. recorder' = [base EXCEPT !.nondeterministic = nondeterministic, !.references = references]
    BY <1>4, <2>0, <2>1, <2>2, <2>3
  <2>5. /\ recorder' \in T /\ recorder'.rows = rows /\ recorder'.dropped = recorder.dropped
        /\ recorder'.references = references /\ recorder'.nondeterministic = nondeterministic
    BY <1>4, <2>4
  <2> QED BY <1>2, <1>8, <2>0, <2>1, <2>2, <2>5
<1> QED BY <1>6, <1>7, <1>8

\* What a new row changes of what is counted.
LEMMA AfterRow ==
    ASSUME CallTypes, config' = config, NEW row, recorder'.rows = Append(recorder.rows, row),
           NEW n, n = Len(recorder.rows) + 1
    PROVE  /\ n \notin DOMAIN recorder.rows /\ recorder'.rows[n] = row
           /\ \A i \in DOMAIN recorder.rows : recorder'.rows[i] = recorder.rows[i]
           /\ \A S : RowsOf(S)' = RowsOf(S) \cup (IF row.pass \in S THEN {n} ELSE {})
           /\ \A s : Call!Seen(s)' = Call!Seen(s) \cup (IF row.slot = s THEN {row.digest} \ {Call!NoAnswer} ELSE {})
           /\ \A s, p : Call!Rows(s, p)' = Call!Rows(s, p) \cup (IF row.slot = s /\ row.pass = p THEN {n} ELSE {})
           /\ \A i \in DOMAIN recorder.rows : \A t : RowIs(i, t)' <=> RowIs(i, t)
           /\ \A t : RowIs(n, t)' <=> row.slot = SlotOf(t) /\ row.pass = t \div Size
<1> DEFINE rows == recorder.rows
           rows2 == recorder'.rows
<1>1. rows \in Seq(CallRow)
  BY DEF CallTypes
<1>2. rows2 = Append(rows, row) /\ n = Len(rows) + 1
  OBVIOUS
<1> HIDE DEF rows, rows2
<1>3. /\ DOMAIN rows2 = DOMAIN rows \cup {n} /\ n \notin DOMAIN rows /\ rows2[n] = row
      /\ \A i \in DOMAIN rows : rows2[i] = rows[i]
  BY <1>1, <1>2
<1>4. \A S : RowsOf(S)' = RowsOf(S) \cup (IF row.pass \in S THEN {n} ELSE {})
  BY <1>3 DEF RowsOf, rows, rows2
<1>5. ASSUME NEW s PROVE Call!Seen(s)' = Call!Seen(s) \cup (IF row.slot = s THEN {row.digest} \ {Call!NoAnswer} ELSE {})
  <2> DEFINE J == {j \in DOMAIN rows : rows[j].slot = s}
             J2 == {j \in DOMAIN rows2 : rows2[j].slot = s}
  <2>1. J2 = J \cup (IF row.slot = s THEN {n} ELSE {}) /\ J \subseteq DOMAIN rows
    BY <1>3
  <2>2. Call!Seen(s) = {rows[i].digest : i \in J} \ {Call!NoAnswer}
    BY DEF Call!Seen, rows
  <2>3. Call!Seen(s)' = {rows2[i].digest : i \in J2} \ {Call!NoAnswer}
    BY DEF Call!Seen, rows2
  <2> HIDE DEF J, J2
  <2>4. {rows2[i].digest : i \in J2} = {rows[i].digest : i \in J} \cup (IF row.slot = s THEN {row.digest} ELSE {})
    BY <1>3, <2>1
  <2> QED BY <2>2, <2>3, <2>4
<1>6. \A s, p : Call!Rows(s, p)' = Call!Rows(s, p) \cup (IF row.slot = s /\ row.pass = p THEN {n} ELSE {})
  BY <1>3 DEF Call!Rows, rows, rows2
<1>7. \A t : SlotOf(t)' = SlotOf(t) /\ Size' = Size
  BY CallConfigStays
<1>8. \A i \in DOMAIN rows : \A t : RowIs(i, t)' <=> RowIs(i, t)
  BY <1>3, <1>7 DEF RowIs, rows, rows2
<1>9. \A t : RowIs(n, t)' <=> row.slot = SlotOf(t) /\ row.pass = t \div Size
  BY <1>3, <1>7 DEF RowIs, rows2
<1> QED BY <1>3, <1>4, <1>5, <1>6, <1>8, <1>9 DEF rows, rows2

LEMMA AnswerKeepsOpen ==
    ASSUME CallInv, NEW r \in flying, NEW row, config.measure, Recorded(r, row),
           config' = config, call' = call, flying' = flying \ {r},
           call.at \in {"open_loop", "drain", "closed_loop"}, r.ticket \in Nat, Size \in Nat, Size > 0,
           recorder'.rows = Append(recorder.rows, row), recorder'.dropped = recorder.dropped
    PROVE  OpenInv'
<1>1. PICK n : n = Len(recorder.rows) + 1
  OBVIOUS
<1>2. /\ IsFiniteSet(RowsOf({-1})) /\ Cardinality(RowsOf({-1})) \in Nat
      /\ IsFiniteSet(flying) /\ Cardinality(flying) \in Nat /\ recorder.dropped \in Seq(Record)
      /\ call.issued \in Nat
  BY RowsAreFinite, FS_CardinalityType DEF CallInv, CallTypes
<1>3. /\ RowsOf({-1})' = RowsOf({-1}) \cup (IF row.pass \in {-1} THEN {n} ELSE {})
      /\ n \notin RowsOf({-1})
  BY <1>1, AfterRow DEF CallInv, RowsOf
<1>4. Cardinality(flying') = Cardinality(flying) - 1 /\ flying' \subseteq flying
  BY <1>2, FS_RemoveElement
<1>5. r.ticket \div Size \in Nat
  BY Tickets
<1>6. Cardinality(RowsOf({-1})') + (IF Opened THEN Cardinality(flying') ELSE 0)
        = Cardinality(RowsOf({-1})) + (IF Opened THEN Cardinality(flying) ELSE 0)
  <2>1. CASE Opened
    <3>1. row.pass = -1
      BY <2>1 DEF Opened, Recorded
    <3>2. RowsOf({-1})' = RowsOf({-1}) \cup {n}
      BY <1>3, <3>1
    <3>3. Cardinality(RowsOf({-1})') = Cardinality(RowsOf({-1})) + 1
      BY <1>2, <1>3, <3>2, FS_AddElement
    <3> QED BY <1>2, <1>4, <2>1, <3>3
  <2>2. CASE ~Opened
    <3>1. row.pass \in Nat
      BY <1>5, <2>2 DEF Opened, Recorded
    <3>a. row.pass \notin {-1}
      BY <3>1
    <3>2. RowsOf({-1})' = RowsOf({-1})
      BY <1>3, <3>a
    <3> QED BY <1>2, <2>2, <3>2
  <2> QED BY <2>1, <2>2
<1>7. Opened' <=> Opened
  BY DEF Opened
<1>8. Cardinality(RowsOf({-1})) + (IF Opened THEN Cardinality(flying) ELSE 0) + Len(recorder.dropped) = call.issued
  BY DEF CallInv, OpenInv
<1>9. Cardinality(RowsOf({-1})') + (IF Opened THEN Cardinality(flying') ELSE 0) + Len(recorder'.dropped) = call.issued
  BY <1>6, <1>8
<1>10. Opened => \A q \in flying : q.ticket < call.issued
  BY DEF CallInv, OpenInv
<1> QED BY <1>4, <1>7, <1>9, <1>10 DEF OpenInv, Opened

LEMMA AnswerKeepsTickets ==
    ASSUME CallInv, NEW r \in flying, NEW row, config.measure, Recorded(r, row),
           config' = config, call' = call, flying' = flying \ {r},
           call.at \in {"open_loop", "drain", "closed_loop"}, r.ticket \in Nat, Size \in Nat, Size > 0,
           recorder'.rows = Append(recorder.rows, row)
    PROVE  TicketInv'
<1>1. PICK n : n = Len(recorder.rows) + 1
  OBVIOUS
<1>2. /\ n \notin DOMAIN recorder.rows /\ recorder'.rows[n] = row
      /\ \A i \in DOMAIN recorder.rows : recorder'.rows[i] = recorder.rows[i]
      /\ RowsOf(Nat)' = RowsOf(Nat) \cup (IF row.pass \in Nat THEN {n} ELSE {})
      /\ \A i \in DOMAIN recorder.rows : \A t : RowIs(i, t)' <=> RowIs(i, t)
      /\ \A t : RowIs(n, t)' <=> row.slot = SlotOf(t) /\ row.pass = t \div Size
  BY <1>1, AfterRow DEF CallInv
<1>3. RowsOf(Nat) \subseteq DOMAIN recorder.rows /\ Size' = Size /\ \A t : SlotOf(t)' = SlotOf(t)
  BY CallConfigStays DEF RowsOf
<1>4. r.ticket \div Size \in Nat
  BY Tickets
<1>5. CASE call.at \in {"open_loop", "drain"}
  <2>1. row.pass = -1
    BY <1>5 DEF Recorded
  <2>a. row.pass \notin Nat
    BY <2>1
  <2>2. RowsOf(Nat)' = RowsOf(Nat)
    BY <1>2, <2>a
  <2>3. call.cursor = 0
    BY <1>5 DEF CallInv, TicketInv
  <2>4. \A t : t \notin 0 .. call.cursor - 1
    BY <2>3
  <2>5. RowsOf(Nat) = {}
    BY <2>4 DEF CallInv, TicketInv
  <2>6. call'.at = call.at /\ call'.cursor = 0
    BY <2>3
  <2> QED BY <1>5, <2>2, <2>5, <2>6 DEF TicketInv
<1>6. CASE call.at = "closed_loop"
  <2>1. row.pass = r.ticket \div Size /\ row.slot = r.slot
    BY <1>6 DEF Recorded
  <2>2. RowsOf(Nat)' = RowsOf(Nat) \cup {n}
    BY <1>2, <1>4, <2>1
  <2>3. /\ \A i, j \in RowsOf(Nat) : recorder.rows[i].slot = recorder.rows[j].slot
                                  /\ recorder.rows[i].pass = recorder.rows[j].pass => i = j
        /\ \A i \in RowsOf(Nat) : \E t \in 0 .. call.cursor - 1 : RowIs(i, t)
        /\ \A t \in 0 .. call.cursor - 1 : (\E q \in flying : q.ticket = t) \/ \E i \in RowsOf(Nat) : RowIs(i, t)
        /\ \A q \in flying : q.ticket < call.cursor /\ q.slot = SlotOf(q.ticket)
        /\ \A q \in flying, i \in RowsOf(Nat) : ~RowIs(i, q.ticket)
        /\ call.cursor \in Nat /\ \A q \in flying : q.ticket \in Nat
        /\ call.cursor <= config.passes * Size
    BY <1>6 DEF CallInv, TicketInv, CallTypes
  <2>4. RowIs(n, r.ticket)'
    BY <1>2, <2>1, <2>3
  <2>5. ASSUME NEW i \in RowsOf(Nat) PROVE ~(recorder.rows[i].slot = row.slot /\ recorder.rows[i].pass = row.pass)
    BY <2>1, <2>3 DEF RowIs
  <2>6. \A i, j \in RowsOf(Nat)' : recorder'.rows[i].slot = recorder'.rows[j].slot
                                  /\ recorder'.rows[i].pass = recorder'.rows[j].pass => i = j
    <3> SUFFICES ASSUME NEW i \in RowsOf(Nat)', NEW j \in RowsOf(Nat)',
                        recorder'.rows[i].slot = recorder'.rows[j].slot,
                        recorder'.rows[i].pass = recorder'.rows[j].pass
                 PROVE  i = j
      OBVIOUS
    <3>1. CASE i \in RowsOf(Nat) /\ j \in RowsOf(Nat)
      BY <1>2, <1>3, <2>3, <3>1
    <3>2. CASE i = n /\ j \in RowsOf(Nat)
      BY <1>2, <1>3, <2>5, <3>2
    <3>3. CASE j = n /\ i \in RowsOf(Nat)
      BY <1>2, <1>3, <2>5, <3>3
    <3> QED BY <2>2, <3>1, <3>2, <3>3
  <2>7. \A i \in RowsOf(Nat)' : \E t \in 0 .. call.cursor - 1 : RowIs(i, t)'
    <3>1. r.ticket \in 0 .. call.cursor - 1
      BY <2>3
    <3>2. ASSUME NEW i \in RowsOf(Nat) PROVE \E t \in 0 .. call.cursor - 1 : RowIs(i, t)'
      <4>1. PICK t \in 0 .. call.cursor - 1 : RowIs(i, t)
        BY <2>3
      <4>2. RowIs(i, t)'
        BY <1>2, <1>3, <4>1
      <4> QED BY <4>2
    <3> QED BY <2>2, <2>4, <3>1, <3>2
  <2>8. \A t \in 0 .. call.cursor - 1 : (\E q \in flying' : q.ticket = t) \/ \E i \in RowsOf(Nat)' : RowIs(i, t)'
    <3> SUFFICES ASSUME NEW t \in 0 .. call.cursor - 1
                 PROVE  (\E q \in flying' : q.ticket = t) \/ \E i \in RowsOf(Nat)' : RowIs(i, t)'
      OBVIOUS
    <3>1. CASE t = r.ticket
      BY <2>2, <2>4, <3>1
    <3>2. CASE t # r.ticket /\ \E q \in flying : q.ticket = t
      BY <3>2
    <3>3. CASE \E i \in RowsOf(Nat) : RowIs(i, t)
      BY <1>2, <1>3, <2>2, <3>3
    <3> QED BY <2>3, <3>1, <3>2, <3>3
  <2>9. \A q \in flying' : q.ticket # r.ticket
    <3> SUFFICES ASSUME NEW q \in flying, q # r, q.ticket = r.ticket PROVE FALSE
      OBVIOUS
    <3>1. q.slot = r.slot
      BY <2>3
    <3>2. q \in [slot : Record, ticket : Nat] /\ r \in [slot : Record, ticket : Nat]
      BY DEF CallInv, CallTypes
    <3> QED BY <3>1, <3>2
  <2>10. ASSUME NEW q \in flying', NEW i \in RowsOf(Nat)' PROVE ~RowIs(i, q.ticket)'
    <3>1. CASE i \in RowsOf(Nat)
      BY <1>2, <1>3, <2>3, <3>1
    <3>2. CASE i = n
      <4> SUFFICES ASSUME RowIs(n, q.ticket)' PROVE FALSE
        BY <3>2
      <4>1. q.ticket \in Nat
        BY <2>3
      <4>2. Size' \in Nat /\ Size' > 0
        BY <1>3
      <4>3. \A t \in Nat, u \in Nat : RowIs(n, t)' /\ RowIs(n, u)' => t = u
        <5> SUFFICES ASSUME NEW t \in Nat, NEW u \in Nat, RowIs(n, t)', RowIs(n, u)' PROVE t = u
          OBVIOUS
        <5>1. SlotOf(t) = SlotOf(u) /\ t \div Size = u \div Size
          BY <1>2
        <5> QED BY <5>1, SlotAndPass
      <4>4. q.ticket = r.ticket
        BY <2>4, <4>1, <4>3
      <4> QED BY <2>9, <4>4
    <3> QED BY <2>2, <3>1, <3>2
  <2>11. \A q \in flying' : q.ticket < call.cursor /\ q.slot = SlotOf(q.ticket)
    BY <2>3
  <2>12. call'.at = "closed_loop" /\ call'.cursor = call.cursor /\ config'.measure
          /\ config'.passes = config.passes /\ Size' = Size
    BY <1>3, <1>6
  <2> QED BY <1>3, <2>3, <2>6, <2>7, <2>8, <2>10, <2>11, <2>12 DEF TicketInv
<1> QED BY <1>5, <1>6

LEMMA AnswerKeepsReferences ==
    ASSUME CallInv, NEW r \in flying, NEW row, Recorded(r, row), TicketInv',
           config' = config, call' = call, call.at \in {"open_loop", "drain", "closed_loop"}, r.slot \in Record
    PROVE  ReferenceInv'
<1>1. PICK n : n = Len(recorder.rows) + 1
  OBVIOUS
<1>2. /\ recorder' \in [rows : Seq(CallRow), dropped : Seq(Record), nondeterministic : Seq(Record),
                        references : [Record -> Digest]]
      /\ recorder'.rows = Append(recorder.rows, row)
      /\ \/ /\ row.digest = Call!NoAnswer \/ recorder.references[r.slot] = row.digest
            /\ recorder'.references = recorder.references
            /\ recorder'.nondeterministic = recorder.nondeterministic
         \/ /\ row.digest # Call!NoAnswer /\ recorder.references[r.slot] = Call!NoAnswer
            /\ recorder'.references = [recorder.references EXCEPT ![r.slot] = row.digest]
            /\ recorder'.nondeterministic = recorder.nondeterministic
         \/ /\ row.digest # Call!NoAnswer /\ recorder.references[r.slot] \notin {Call!NoAnswer, row.digest}
            /\ recorder'.references = [recorder.references EXCEPT ![r.slot] =
                 IF call.at = "closed_loop" /\ row.pass = 0 THEN row.digest ELSE recorder.references[r.slot]]
            /\ recorder'.nondeterministic = Append(recorder.nondeterministic, r.slot)
  BY WhatIsObserved DEF CallInv
<1>3. /\ n \notin DOMAIN recorder.rows /\ recorder'.rows[n] = row
      /\ \A i \in DOMAIN recorder.rows : recorder'.rows[i] = recorder.rows[i]
      /\ RowsOf(Nat)' = RowsOf(Nat) \cup (IF row.pass \in Nat THEN {n} ELSE {})
      /\ \A s : Call!Seen(s)' = Call!Seen(s) \cup (IF row.slot = s THEN {row.digest} \ {Call!NoAnswer} ELSE {})
      /\ \A s, p : Call!Rows(s, p)' = Call!Rows(s, p) \cup (IF row.slot = s /\ row.pass = p THEN {n} ELSE {})
  BY <1>1, <1>2, AfterRow DEF CallInv
<1>4. row.slot = r.slot /\ (row.pass = 0 => call.at = "closed_loop")
  BY DEF Recorded
<1>5. /\ recorder.references \in [Record -> Digest] /\ recorder.nondeterministic \in Seq(Record)
  BY DEF CallInv, CallTypes
<1> DEFINE Listed(s) == \E k \in DOMAIN recorder.nondeterministic : recorder.nondeterministic[k] = s
           Listed2(s) == \E k \in DOMAIN recorder'.nondeterministic : recorder'.nondeterministic[k] = s
           Differ(s) == \E d, e \in Call!Seen(s) : d # e
           Differ2(s) == \E d, e \in Call!Seen(s)' : d # e
<1>6. ASSUME recorder'.nondeterministic = recorder.nondeterministic, NEW s PROVE Listed2(s) <=> Listed(s)
  BY <1>6
<1>7. ASSUME recorder'.nondeterministic = Append(recorder.nondeterministic, r.slot), NEW s
      PROVE  Listed2(s) <=> Listed(s) \/ s = r.slot
  <2> DEFINE N == recorder.nondeterministic
             M == recorder'.nondeterministic
  <2>1. N \in Seq(Record) /\ M = Append(N, r.slot)
    BY <1>5, <1>7
  <2> HIDE DEF N, M
  <2>2. /\ DOMAIN M = DOMAIN N \cup {Len(N) + 1} /\ M[Len(N) + 1] = r.slot
        /\ \A k \in DOMAIN N : M[k] = N[k]
    BY <2>1
  <2>3. (\E k \in DOMAIN M : M[k] = s) <=> (\E k \in DOMAIN N : N[k] = s) \/ s = r.slot
    BY <2>2
  <2> QED BY <2>3 DEF N, M
<1> HIDE DEF Listed, Listed2
<1>8. /\ \A s \in Record :
           /\ recorder.references[s] \in Call!Seen(s) \cup {Call!NoAnswer}
           /\ recorder.references[s] = Call!NoAnswer => Call!Seen(s) = {}
           /\ \A i \in Call!Rows(s, 0) : recorder.rows[i].digest # Call!NoAnswer =>
                                          recorder.references[s] = recorder.rows[i].digest
           /\ Listed(s) <=> Differ(s)
      /\ call.at # "done"
  BY DEF CallInv, ReferenceInv, Listed
<1>9. Record' = Record
  BY CallConfigStays
<1>10. ASSUME NEW s \in Record, s # r.slot
       PROVE  /\ recorder'.references[s] \in Call!Seen(s)' \cup {Call!NoAnswer}
              /\ recorder'.references[s] = Call!NoAnswer => Call!Seen(s)' = {}
              /\ \A i \in Call!Rows(s, 0)' : recorder'.rows[i].digest # Call!NoAnswer =>
                                          recorder'.references[s] = recorder'.rows[i].digest
              /\ Listed2(s) <=> Differ2(s)
  <2>1. Call!Seen(s)' = Call!Seen(s) /\ Call!Rows(s, 0)' = Call!Rows(s, 0)
    BY <1>3, <1>4, <1>10
  <2>2. recorder'.references[s] = recorder.references[s]
    BY <1>2, <1>5, <1>10
  <2>3. Listed2(s) <=> Listed(s)
    BY <1>2, <1>6, <1>7, <1>10
  <2>4. Call!Rows(s, 0) \subseteq DOMAIN recorder.rows
    BY DEF Call!Rows
  <2>5. \A i \in Call!Rows(s, 0)' : recorder'.rows[i].digest # Call!NoAnswer =>
                                          recorder'.references[s] = recorder'.rows[i].digest
    BY <1>3, <1>8, <2>1, <2>2, <2>4
  <2> QED BY <1>8, <2>1, <2>2, <2>3, <2>5
<1>11. recorder'.references[r.slot] \in Call!Seen(r.slot)' \cup {Call!NoAnswer}
  <2>1. recorder'.references[r.slot] \in {recorder.references[r.slot], row.digest}
    BY <1>2, <1>5
  <2>2. row.digest \in Call!Seen(r.slot)' \cup {Call!NoAnswer}
    BY <1>3, <1>4
  <2>3. Call!Seen(r.slot) \subseteq Call!Seen(r.slot)'
    BY <1>3
  <2> QED BY <1>8, <2>1, <2>2, <2>3
<1>12. recorder'.references[r.slot] = Call!NoAnswer => Call!Seen(r.slot)' = {}
  <2> SUFFICES ASSUME recorder'.references[r.slot] = Call!NoAnswer PROVE Call!Seen(r.slot)' = {}
    OBVIOUS
  <2>1. row.digest = Call!NoAnswer /\ recorder.references[r.slot] = Call!NoAnswer
    BY <1>2, <1>5
  <2> QED BY <1>3, <1>8, <2>1
<1>13. ASSUME NEW i \in Call!Rows(r.slot, 0)', recorder'.rows[i].digest # Call!NoAnswer
       PROVE  recorder'.references[r.slot] = recorder'.rows[i].digest
  <2>1. CASE row.pass = 0
    <3>1. i = n
      <4>1. i \in RowsOf(Nat)' /\ n \in RowsOf(Nat)'
        <5>1. Call!Rows(r.slot, 0) \subseteq RowsOf(Nat)
          BY DEF Call!Rows, RowsOf
        <5> QED BY <1>3, <2>1, <5>1
      <4>2. recorder'.rows[i].slot = recorder'.rows[n].slot /\ recorder'.rows[i].pass = recorder'.rows[n].pass
        BY <1>3, <1>4, <2>1 DEF Call!Rows
      <4> QED BY <4>1, <4>2 DEF TicketInv
    <3>2. recorder'.rows[i].digest = row.digest /\ row.digest # Call!NoAnswer
      BY <1>3, <1>13, <3>1
    <3> QED BY <1>2, <1>4, <1>5, <2>1, <3>2
  <2>2. CASE row.pass # 0
    <3>1. i \in Call!Rows(r.slot, 0)
      BY <1>3, <1>13, <2>2
    <3>2. recorder'.rows[i] = recorder.rows[i]
      BY <1>3, <3>1 DEF Call!Rows
    <3>3. recorder.references[r.slot] = recorder'.rows[i].digest /\ recorder.references[r.slot] # Call!NoAnswer
      BY <1>8, <1>13, <3>1, <3>2
    <3> QED BY <1>2, <1>5, <2>2, <3>3
  <2> QED BY <2>1, <2>2
<1>14. Listed2(r.slot) <=> Differ2(r.slot)
  <2>1. Call!Seen(r.slot)' = Call!Seen(r.slot) \cup ({row.digest} \ {Call!NoAnswer})
    BY <1>3, <1>4
  <2>2. CASE row.digest = Call!NoAnswer \/ recorder.references[r.slot] = row.digest
    <3>1. Call!Seen(r.slot)' = Call!Seen(r.slot)
      BY <1>8, <2>1, <2>2
    <3>2. Listed2(r.slot) <=> Listed(r.slot)
      BY <1>2, <1>6, <2>2
    <3> QED BY <1>8, <3>1, <3>2
  <2>3. CASE row.digest # Call!NoAnswer /\ recorder.references[r.slot] = Call!NoAnswer
    <3>1. Call!Seen(r.slot) = {} /\ Call!Seen(r.slot)' = {row.digest}
      BY <1>8, <2>1, <2>3
    <3>2. Listed2(r.slot) <=> Listed(r.slot)
      BY <1>2, <1>6, <2>3
    <3> QED BY <1>8, <3>1, <3>2
  <2>4. CASE row.digest # Call!NoAnswer /\ recorder.references[r.slot] \notin {Call!NoAnswer, row.digest}
    <3>1. Listed2(r.slot)
      BY <1>2, <1>7, <2>4
    <3>2. recorder.references[r.slot] \in Call!Seen(r.slot)' /\ row.digest \in Call!Seen(r.slot)'
      BY <1>8, <2>1, <2>4
    <3> QED BY <2>4, <3>1, <3>2
  <2> QED BY <2>2, <2>3, <2>4
<1>15. ASSUME NEW s \in Record
       PROVE  /\ recorder'.references[s] \in Call!Seen(s)' \cup {Call!NoAnswer}
              /\ recorder'.references[s] = Call!NoAnswer => Call!Seen(s)' = {}
              /\ \A i \in Call!Rows(s, 0)' : recorder'.rows[i].digest # Call!NoAnswer =>
                                          recorder'.references[s] = recorder'.rows[i].digest
              /\ Listed2(s) <=> Differ2(s)
  <2>1. CASE s = r.slot
    BY <1>11, <1>12, <1>13, <1>14, <2>1
  <2>2. CASE s # r.slot
    BY <1>10, <2>2
  <2> QED BY <2>1, <2>2
<1>16. call'.at # "done"
  BY <1>8
<1> QED BY <1>9, <1>15, <1>16 DEF ReferenceInv, Listed2

LEMMA AnswerKeeps == ASSUME CallInv, NEW r \in flying, Call!Answer(r) PROVE CallInv'
<1>1. /\ call.at \in {"open_loop", "drain", "closed_loop"} /\ r.slot \in Record /\ r.ticket \in Nat
      /\ config' = config /\ call' = call /\ flying' = flying \ {r}
      /\ IF config.measure THEN \E row : Recorded(r, row) ELSE recorder' = recorder
  BY AnswerIsRecorded
<1>2. Size' = Size /\ Record' = Record /\ CallRow' = CallRow /\ Digest' = Digest
  BY <1>1, CallConfigStays
<1>3. Size \in Nat /\ Size > 0 /\ IsFiniteSet(flying') /\ flying' \subseteq flying
  BY <1>1, CallConfig, FS_RemoveElement DEF CallInv, CallTypes
<1>4. CASE config.measure
  <2>1. PICK row : Recorded(r, row)
    BY <1>1, <1>4
  <2>2. /\ recorder' \in [rows : Seq(CallRow), dropped : Seq(Record), nondeterministic : Seq(Record),
                          references : [Record -> Digest]]
        /\ recorder'.rows = Append(recorder.rows, row) /\ recorder'.dropped = recorder.dropped
    BY <1>1, <2>1, WhatIsObserved DEF CallInv
  <2>3. CallTypes'
    BY <1>1, <1>2, <1>3, <2>2 DEF CallInv, CallTypes
  <2>4. OpenInv'
    BY <1>1, <1>3, <1>4, <2>1, <2>2, AnswerKeepsOpen
  <2>5. TicketInv'
    BY <1>1, <1>3, <1>4, <2>1, <2>2, AnswerKeepsTickets
  <2>6. ReferenceInv'
    BY <1>1, <2>1, <2>5, AnswerKeepsReferences
  <2> QED BY <2>3, <2>4, <2>5, <2>6 DEF CallInv
<1>5. CASE ~config.measure
  <2>1. recorder' = recorder
    BY <1>1, <1>5
  <2>2. CallTypes'
    BY <1>1, <1>2, <1>3, <2>1 DEF CallInv, CallTypes
  <2>3. OpenInv'
    BY <1>1, <1>3, <1>5, <2>1 DEF CallInv, OpenInv, Opened
  <2>4. call.at # "closed_loop" /\ call.cursor = 0
    BY <1>1, <1>5 DEF CallInv, TicketInv
  <2>5. TicketInv'
    <3>1. \A S : RowsOf(S)' = RowsOf(S)
      BY <1>1, <2>1, RecorderStays
    <3>2. RowsOf(Nat) = {}
      BY <1>5 DEF CallInv, OpenInv, RowsOf
    <3> QED BY <1>1, <2>4, <3>1, <3>2 DEF TicketInv
  <2>6. ReferenceInv'
    BY <1>1, <1>2, <2>1, RecorderStays DEF CallInv, ReferenceInv
  <2> QED BY <2>2, <2>3, <2>5, <2>6 DEF CallInv
<1> QED BY <1>4, <1>5

-----------------------------------------------------------------------------
LEMMA CallStep == ASSUME CallInv, Call!Next PROVE CallInv'
BY LoadCorpusKeeps, PrimeKeeps, IssueKeeps, OpenLoopEndsKeeps, DrainKeeps, TakeTicketKeeps, WorkersJoinKeeps,
   FinishKeeps, AnswerKeeps DEF Call!Next

LEMMA CallStutters == ASSUME CallInv, UNCHANGED <<config, CallVars>> PROVE CallInv'
<1>0. config' = config /\ call' = call /\ flying' = flying /\ recorder' = recorder
  BY DEF CallVars
<1>1. Size' = Size /\ Record' = Record /\ CallRow' = CallRow /\ Digest' = Digest
  BY <1>0, CallConfigStays
<1>2. CallTypes'
  BY <1>0, <1>1 DEF CallInv, CallTypes
<1>3. OpenInv'
  BY <1>0, RecorderStays DEF CallInv, OpenInv, Opened
<1>4. TicketInv'
  <2>1. /\ RowsOf(Nat)' = RowsOf(Nat) /\ \A t : SlotOf(t)' = SlotOf(t)
        /\ \A k, t : RowIs(k, t)' <=> RowIs(k, t)
    BY <1>0, RecorderStays, CallConfigStays
  <2> QED BY <1>0, <1>1, <2>1 DEF CallInv, TicketInv
<1>5. ReferenceInv'
  BY <1>0, <1>1, RecorderStays DEF CallInv, ReferenceInv
<1> QED BY <1>2, <1>3, <1>4, <1>5 DEF CallInv

-----------------------------------------------------------------------------
LEMMA TwoOfMany ==
    ASSUME NEW S, IsFiniteSet(S)
    PROVE  Cardinality(S) > 1 <=> \E d, e \in S : d # e
<1>0. Cardinality(S) \in Nat
  BY FS_CardinalityType
<1>1. ASSUME NEW d \in S, NEW e \in S, d # e PROVE Cardinality(S) > 1
  <2>1. IsFiniteSet(S \ {d}) /\ Cardinality(S \ {d}) = Cardinality(S) - 1
    BY FS_RemoveElement
  <2>2. S \ {d} # {}
    BY <1>1
  <2>3. Cardinality(S \ {d}) # 0 /\ Cardinality(S \ {d}) \in Nat
    BY <2>1, <2>2, FS_EmptySet, FS_CardinalityType
  <2> QED BY <1>0, <2>1, <2>3
<1>2. ASSUME Cardinality(S) > 1 PROVE \E d, e \in S : d # e
  <2>1. S # {}
    BY <1>2, FS_EmptySet
  <2>2. PICK d \in S : TRUE
    BY <2>1
  <2>3. IsFiniteSet(S \ {d}) /\ Cardinality(S \ {d}) = Cardinality(S) - 1
    BY FS_RemoveElement
  <2>4. S \ {d} # {}
    BY <1>0, <1>2, <2>3, FS_EmptySet
  <2> QED BY <2>4
<1> QED BY <1>1, <1>2

LEMMA SeenIsFinite == ASSUME CallTypes, NEW s PROVE IsFiniteSet(Call!Seen(s))
<1> DEFINE J == {j \in DOMAIN recorder.rows : recorder.rows[j].slot = s}
           D == {recorder.rows[i].digest : i \in J}
<1>1. recorder.rows \in Seq(CallRow)
  BY DEF CallTypes
<1>2. IsFiniteSet(1 .. Len(recorder.rows))
  BY <1>1, FS_Interval
<1>3. J \subseteq 1 .. Len(recorder.rows)
  BY <1>1
<1>4. IsFiniteSet(J)
  BY <1>2, <1>3, FS_Subset
<1>5. PICK f : f = [i \in J |-> recorder.rows[i].digest]
  OBVIOUS
<1> HIDE DEF J
<1>6. f \in Surjection(J, D)
  BY <1>5 DEF Surjection
<1>7. IsFiniteSet(D)
  BY <1>4, <1>6, FS_Surjection
<1>8. Call!Seen(s) \subseteq D
  BY DEF Call!Seen, J
<1> QED BY <1>7, <1>8, FS_Subset

LEMMA PassIsWhole ==
    ASSUME NEW n \in Nat, n > 0, NEW passes \in Nat, NEW pass \in 0 .. passes - 1, NEW s \in 1 .. n
    PROVE  (pass * n) + (s - 1) \in 0 .. (passes * n) - 1
<1>1. PICK q \in Nat : passes = pass + 1 + q
  <2>1. passes - pass - 1 \in Nat
    OBVIOUS
  <2> QED BY <2>1
<1>2. PICK k \in Nat : k = q * n
  OBVIOUS
<1>3. PICK p \in Nat : p = pass * n
  OBVIOUS
<1>4. passes * n = p + n + k
  BY <1>1, <1>2, <1>3
<1> QED BY <1>2, <1>3, <1>4

LEMMA CallIsDone == ASSUME CallInv PROVE Call!EveryRequestIsAccounted
<1> SUFFICES ASSUME call.at = "done", config.measure PROVE
      /\ flying = {}
      /\ Call!Cardinality(UNION {Call!Rows(slot, -1) : slot \in Call!Slots}) + Len(recorder.dropped) = call.issued
      /\ \A slot \in Call!Slots : \A pass \in 0 .. config.passes - 1 : Call!Cardinality(Call!Rows(slot, pass)) = 1
  BY DEF Call!EveryRequestIsAccounted
<1>1. /\ flying = {} /\ Cardinality(RowsOf({-1})) + Len(recorder.dropped) = call.issued
      /\ Call!Slots = Record /\ Size > 0 /\ recorder.rows \in Seq(CallRow) /\ config \in CallRuns
  <2>1. ~Opened
    BY DEF Opened
  <2>2. flying = {}
    BY <2>1 DEF CallInv, OpenInv
  <2>3. Cardinality(RowsOf({-1})) + 0 + Len(recorder.dropped) = call.issued
    BY <2>1 DEF CallInv, OpenInv
  <2>4. Call!Slots = Record /\ Size > 0 /\ recorder.rows \in Seq(CallRow) /\ config \in CallRuns
    BY DEF CallInv, CallTypes, Call!Slots
  <2>5. Cardinality(RowsOf({-1})) \in Nat /\ Len(recorder.dropped) \in Nat
    BY RowsAreFinite DEF CallInv, CallTypes
  <2> QED BY <2>2, <2>3, <2>4, <2>5
<1>2. UNION {Call!Rows(slot, -1) : slot \in Record} = RowsOf({-1})
  <2>1. \A i \in DOMAIN recorder.rows : recorder.rows[i].slot \in Record
    <3>1. \A i \in DOMAIN recorder.rows : recorder.rows[i] \in CallRow
      BY <1>1
    <3> QED BY <3>1 DEF CallRow
  <2> QED BY <2>1 DEF Call!Rows, RowsOf
<1>3. Size \in Nat /\ config.passes \in Nat
  BY <1>1, CallConfig
<1>4. ASSUME NEW slot \in Record, NEW pass \in 0 .. config.passes - 1
      PROVE  Cardinality(Call!Rows(slot, pass)) = 1
  <2>1. PICK t : t = (pass * Size) + (slot - 1)
    OBVIOUS
  <2>2. pass \in Nat /\ slot - 1 \in 0 .. Size - 1 /\ slot \in 1 .. Size
    BY <1>3 DEF Record
  <2>3. t \in 0 .. call.cursor - 1
    <3>1. call.cursor = config.passes * Size
      BY DEF CallInv, TicketInv
    <3> QED BY <1>1, <1>3, <2>1, <2>2, <3>1, PassIsWhole
  <2>4. t \div Size = pass /\ t % Size = slot - 1
    BY <1>1, <1>3, <2>1, <2>2, Tickets
  <2>5. SlotOf(t) = slot
    BY <2>2, <2>4 DEF SlotOf
  <2>6. PICK i \in RowsOf(Nat) : RowIs(i, t)
    BY <1>1, <2>3 DEF CallInv, TicketInv
  <2>7. i \in Call!Rows(slot, pass)
    BY <2>4, <2>5, <2>6 DEF RowIs, RowsOf, Call!Rows
  <2>8. \A j \in Call!Rows(slot, pass) : j = i
    <3> SUFFICES ASSUME NEW j \in Call!Rows(slot, pass) PROVE j = i
      OBVIOUS
    <3>1. j \in RowsOf(Nat) /\ recorder.rows[i].slot = recorder.rows[j].slot /\ recorder.rows[i].pass = recorder.rows[j].pass
      BY <2>2, <2>7 DEF RowsOf, Call!Rows
    <3> QED BY <2>6, <3>1 DEF CallInv, TicketInv
  <2>9. Call!Rows(slot, pass) = {i}
    BY <2>7, <2>8
  <2> QED BY <2>9, FS_Singleton
<1> QED BY <1>1, <1>2, <1>4, CallCount

LEMMA ReferencesAreKept == ASSUME CallInv PROVE Call!ReferencesAreOfTheFirstPass
<1> SUFFICES ASSUME call.at = "done", NEW slot \in Call!Slots PROVE
        /\ \A i \in Call!Rows(slot, 0) :
             recorder.rows[i].digest # Call!NoAnswer => call.responses[slot] = recorder.rows[i].digest
        /\ call.responses[slot] \in Call!Seen(slot) \cup {Call!NoAnswer}
        /\ (slot \in Call!ToSet(recorder.nondeterministic)) = (Call!Cardinality(Call!Seen(slot)) > 1)
  BY DEF Call!ReferencesAreOfTheFirstPass
<1>1. slot \in Record /\ call.responses = recorder.references
  BY DEF CallInv, CallTypes, ReferenceInv, Call!Slots
<1>2. Cardinality(Call!Seen(slot)) > 1 <=> \E d, e \in Call!Seen(slot) : d # e
  BY SeenIsFinite, TwoOfMany DEF CallInv
<1>3. slot \in Call!ToSet(recorder.nondeterministic) <=>
        \E k \in DOMAIN recorder.nondeterministic : recorder.nondeterministic[k] = slot
  BY DEF Call!ToSet
<1>4. slot \in Call!ToSet(recorder.nondeterministic) <=> Call!Cardinality(Call!Seen(slot)) > 1
  BY <1>1, <1>2, <1>3, CallCount DEF CallInv, ReferenceInv
<1>5. (slot \in Call!ToSet(recorder.nondeterministic)) = (Call!Cardinality(Call!Seen(slot)) > 1)
  BY <1>4
<1> QED BY <1>1, <1>5 DEF CallInv, ReferenceInv

-----------------------------------------------------------------------------
(***************************************************************************)
(* Sender authentication, for any settings, any number of writers and      *)
(* requesters and any time.                                                *)
(*                                                                         *)
(* Time is the argument: a second passes without being late only while     *)
(* every watching writer waits for its next refresh.  So the file is never *)
(* older than its time of renewal by more than the seconds that were late, *)
(* and neither is what the provider saw when it last looked, one reload    *)
(* interval ago at most.                                                   *)
(***************************************************************************)

WriterStage == {"start", "written", "checked", "wait", "retry", "done", "failed", "stopped"}
WriterState == [at : WriterStage, due : Int, retry : Nat, issued : Nat, published : BOOLEAN]
File == [kind : {"none", "map", "link", "malformed"}, stamp : Nat, expires : Nat]
ProviderState == [at : {"off", "on"}, expires : Nat, stamp : Nat, next : Nat, lock : BOOLEAN]
RequestState == [at : {"idle", "reading", "headers"}, handle : File]

AuthTypes ==
    /\ config \in AuthSetups /\ now \in Nat /\ late \in Nat
    /\ file \in File /\ provider \in ProviderState
    /\ writer \in [Auth!Writers -> WriterState]
    /\ request \in [Requesters -> RequestState]
    /\ outside \in [failures : Nat, meddling : Nat, stamps : Nat]

Watches(w) == config.writers[w].watch
Reading(r) == request[r].at = "reading"
Handle(r) == request[r].handle

\* A stamp is given to one file.
StampInv ==
    /\ file.stamp <= outside.stamps /\ provider.stamp <= outside.stamps
    /\ \A r \in Requesters : Handle(r).stamp <= outside.stamps
    /\ provider.at = "on" /\ file.kind = "map" /\ file.stamp = provider.stamp
           => file.expires = provider.expires
    /\ \A r \in Requesters : Reading(r) /\ Handle(r).kind = "map" /\ file.kind = "map" /\ file.stamp = Handle(r).stamp
                                 => file.expires = Handle(r).expires

\* Maps live for ttl seconds, and are not written before the start.
LifeInv ==
    /\ file.kind = "map" => file.expires >= config.ttl
    /\ \A r \in Requesters : Handle(r).kind = "map" => Handle(r).expires >= config.ttl
    /\ provider.at = "on" => provider.expires >= config.ttl

\* One thread reads the file at a time; nobody asks before there is a map.
LockInv ==
    /\ \A r, q \in Requesters : Reading(r) /\ Reading(q) => r = q
    /\ provider.lock <=> \E r \in Requesters : Reading(r)
    /\ provider.at = "off" => \A r \in Requesters : request[r].at = "idle"

\* A map is written without delay, or the delay was counted.
IssuedInv ==
    \A w \in Auth!Writers : writer[w].at \in {"written", "checked"} =>
        writer[w].issued <= now /\ now <= writer[w].issued + late

\* With a watching writer and nobody else at the file:
Watched == (\E w \in Auth!Writers : Watches(w)) /\ outside.meddling = 0
Renewal(expires) == expires - config.lead

\* the file is there, and renewed in time but for what was late;
FileInv ==
    /\ provider.at = "on" => file.kind = "map"
    /\ \A r \in Requesters : Reading(r) => Handle(r).kind = "map"
    /\ file.kind = "map" => now <= Renewal(file.expires) + late
    /\ \A w \in Auth!Writers : Watches(w) =>
         /\ writer[w].at \in {"wait", "retry"} => writer[w].published
         /\ writer[w].published => file.kind = "map"
         /\ writer[w].at = "wait" => /\ writer[w].due <= Renewal(now + config.ttl)
                                     /\ writer[w].due <= Renewal(file.expires) + late

\* what the provider has, or is about to have, was the file when it last
\* looked.
Serves(expires) ==
    /\ provider.next <= Renewal(expires) + config.reload + late
    /\ \A r \in Requesters : request[r].at = "headers" => now < Renewal(expires) + config.reload + late
ServiceInv ==
    provider.at = "on" =>
        /\ ~provider.lock => Serves(provider.expires)
        /\ \A r \in Requesters : Reading(r) => Serves(Handle(r).expires) /\ now <= Renewal(Handle(r).expires) + late

\* A file that was there may be replaced only by those who may; then it is not
\* missing.
Published == {w \in Auth!Writers : writer[w].published /\ ~Auth!Replaces(w)}
PublishedInv ==
    Cardinality(Published) + (IF file.kind = "none" THEN 1 ELSE 0)
        <= outside.meddling + (IF config.start = "none" THEN 1 ELSE 0)

AuthInv ==
    /\ AuthTypes /\ StampInv /\ LifeInv /\ LockInv /\ IssuedInv /\ PublishedInv
    /\ Watched => FileInv /\ ServiceInv

-----------------------------------------------------------------------------
(* What the steps do                                                       *)

LEMMA Settings ==
    ASSUME config \in AuthSetups
    PROVE  /\ {config.ttl, config.lead, config.reload} \subseteq Nat /\ config.lead < config.ttl
           /\ config.reload > 0 /\ Auth!IsFiniteSet(Auth!Writers)
           /\ MaxRetry \in Nat \ {0}
BY PartsAssumption DEF Auth!SetupAssumption, Auth!Writers

\* A writer goes to state s.
Goes(w, s) == s \in WriterState /\ writer' = [writer EXCEPT ![w] = s]

LEMMA FailureState ==
    ASSUME AuthTypes, NEW w \in Auth!Writers
    PROVE  /\ Auth!AfterFailure(w) \in WriterState
           /\ Auth!AfterFailure(w).published = writer[w].published
           /\ Auth!AfterFailure(w).at \in {"retry", "failed"}
           /\ Auth!AfterFailure(w).at = "retry" => writer[w].published
<1>1. writer[w] \in WriterState /\ now \in Nat /\ MaxRetry \in Nat
  BY Settings DEF AuthTypes
<1> DEFINE again == IF 2 * writer[w].retry > MaxRetry THEN MaxRetry ELSE 2 * writer[w].retry
<1>2. again \in Nat /\ now + writer[w].retry \in Int
  BY <1>1 DEF WriterState
<1> HIDE DEF again
<1> DEFINE s == [writer[w] EXCEPT !.at = "retry", !.due = now + writer[w].retry, !.retry = again]
           f == [writer[w] EXCEPT !.at = "failed"]
<1>3. /\ s \in WriterState /\ s.published = writer[w].published /\ s.at = "retry"
      /\ f \in WriterState /\ f.published = writer[w].published /\ f.at = "failed"
  BY <1>1, <1>2 DEF WriterState, WriterStage
<1>4. Auth!AfterFailure(w) = IF config.writers[w].watch /\ writer[w].published THEN s ELSE f
  BY DEF Auth!AfterFailure, again
<1> HIDE DEF s, f
<1> QED BY <1>3, <1>4

\* Steps of a writer that leave the file alone.
QuietWrite(w, s) ==
    /\ UNCHANGED <<config, now, late, file, provider, request>>
    /\ outside' \in [failures : Nat, meddling : Nat, stamps : Nat]
    /\ outside'.meddling = outside.meddling /\ outside'.stamps = outside.stamps
    /\ Goes(w, s) /\ s.published = writer[w].published
    /\ s.at \in {"written", "checked"} =>
           s.issued = now \/ (writer[w].at \in {"written", "checked"} /\ s.issued = writer[w].issued)
    /\ s.at = "wait" => writer[w].at = "retry" /\ s.due <= now
    /\ s.at = "retry" => writer[w].published

LEMMA QuietSteps ==
    ASSUME AuthTypes, NEW w \in Auth!Writers,
           \/ Auth!Generate(w) \/ Auth!Check(w) \/ Auth!WriteFails(w) \/ Auth!Retry(w) \/ Auth!Shutdown(w)
           \/ Auth!Publish(w) /\ ~Auth!CanPublish(w)
    PROVE  \E s : QuietWrite(w, s)
<1>0. /\ writer[w] \in WriterState /\ now \in Nat /\ outside \in [failures : Nat, meddling : Nat, stamps : Nat]
      /\ DOMAIN writer = Auth!Writers
  BY DEF AuthTypes
<1> DEFINE f == Auth!AfterFailure(w)
<1>1. /\ f \in WriterState /\ f.published = writer[w].published /\ f.at \in {"retry", "failed"}
      /\ f.at = "retry" => writer[w].published
  BY FailureState
<1> HIDE DEF f
<1>2. CASE /\ writer' = [writer EXCEPT ![w] = f]
           /\ UNCHANGED <<config, now, late, file, provider, request>>
           /\ outside' \in [failures : Nat, meddling : Nat, stamps : Nat]
           /\ outside'.meddling = outside.meddling /\ outside'.stamps = outside.stamps
  BY <1>1, <1>2 DEF QuietWrite, Goes
<1>3. CASE Auth!Generate(w)
  <2> DEFINE s == [writer[w] EXCEPT !.at = "written", !.issued = now]
  <2>1. s \in WriterState /\ s.published = writer[w].published /\ s.at = "written" /\ s.issued = now
    BY <1>0 DEF WriterState, WriterStage
  <2>2. /\ writer' = [writer EXCEPT ![w] = s] \/ writer' = [writer EXCEPT ![w] = f]
        /\ UNCHANGED <<config, now, late, file, provider, request, outside>>
    BY <1>0, <1>3 DEF Auth!Generate, f
  <2> HIDE DEF s
  <2>3. CASE writer' = [writer EXCEPT ![w] = s]
    BY <1>0, <2>1, <2>2, <2>3 DEF QuietWrite, Goes
  <2> QED BY <1>0, <1>2, <2>2, <2>3
<1>4. CASE Auth!Check(w)
  <2> DEFINE s == [writer[w] EXCEPT !.at = "checked"]
  <2>1. s \in WriterState /\ s.published = writer[w].published /\ s.at = "checked" /\ s.issued = writer[w].issued
    BY <1>0 DEF WriterState, WriterStage
  <2>2. /\ writer' = [writer EXCEPT ![w] = s] \/ writer' = [writer EXCEPT ![w] = f]
        /\ UNCHANGED <<config, now, late, file, provider, request, outside>> /\ writer[w].at = "written"
    BY <1>0, <1>4 DEF Auth!Check, f
  <2> HIDE DEF s
  <2>3. CASE writer' = [writer EXCEPT ![w] = s]
    BY <1>0, <2>1, <2>2, <2>3 DEF QuietWrite, Goes
  <2> QED BY <1>0, <1>2, <2>2, <2>3
<1>5. CASE Auth!WriteFails(w)
  <2>1. /\ writer' = [writer EXCEPT ![w] = f] /\ outside' = [outside EXCEPT !.failures = @ + 1]
        /\ UNCHANGED <<config, now, late, file, provider, request>>
    BY <1>5 DEF Auth!WriteFails, f
  <2> QED BY <1>0, <1>2, <2>1
<1>6. CASE Auth!Retry(w) \/ Auth!Shutdown(w)
  <2> DEFINE s == [writer[w] EXCEPT !.at = IF Auth!Retry(w) THEN "wait" ELSE "stopped"]
  <2>1. /\ s \in WriterState /\ s.published = writer[w].published /\ s.due = writer[w].due
        /\ s.at = IF Auth!Retry(w) THEN "wait" ELSE "stopped"
    BY <1>0 DEF WriterState, WriterStage
  <2>2. writer' = [writer EXCEPT ![w] = s]
    BY <1>0, <1>6 DEF Auth!Retry, Auth!Shutdown
  <2>3. /\ UNCHANGED <<config, now, late, file, provider, request, outside>>
        /\ Auth!Retry(w) => writer[w].at = "retry" /\ writer[w].due <= now
    BY <1>6 DEF Auth!Retry, Auth!Shutdown
  <2> HIDE DEF s
  <2> QED BY <1>0, <2>1, <2>2, <2>3 DEF QuietWrite, Goes
<1>7. CASE Auth!Publish(w) /\ ~Auth!CanPublish(w)
  <2>1. /\ writer' = [writer EXCEPT ![w] = f] /\ UNCHANGED <<config, now, late, file, provider, request, outside>>
    BY <1>7 DEF Auth!Publish, f
  <2> QED BY <1>0, <1>2, <2>1
<1> QED BY <1>3, <1>4, <1>5, <1>6, <1>7

\* A map is published.
Publishes(w, s) ==
    /\ UNCHANGED <<config, now, late, provider, request>>
    /\ outside' \in [failures : Nat, meddling : Nat, stamps : Nat] /\ file' \in File
    /\ outside'.meddling = outside.meddling /\ outside'.stamps = outside.stamps + 1
    /\ writer[w].at = "checked" /\ Auth!CanPublish(w)
    /\ file'.kind = "map" /\ file'.stamp = outside.stamps + 1
    /\ file'.expires = writer[w].issued + config.ttl
    /\ Goes(w, s) /\ s.published
    /\ s.at = IF Watches(w) THEN "wait" ELSE "done"
    /\ s.due = Renewal(writer[w].issued + config.ttl)

LEMMA PublishSteps ==
    ASSUME AuthTypes, NEW w \in Auth!Writers, Auth!Publish(w), Auth!CanPublish(w)
    PROVE  \E s : Publishes(w, s)
<1>0. /\ writer[w] \in WriterState /\ outside \in [failures : Nat, meddling : Nat, stamps : Nat]
      /\ DOMAIN writer = Auth!Writers /\ config.ttl \in Nat /\ config.lead \in Nat
  BY Settings DEF AuthTypes
<1> DEFINE expires == writer[w].issued + config.ttl
           s == [writer[w] EXCEPT !.at = IF config.writers[w].watch THEN "wait" ELSE "done", !.published = TRUE,
                                  !.due = Auth!RefreshAt(expires), !.retry = 1, !.issued = 0]
<1>1. /\ writer' = [writer EXCEPT ![w] = s]
      /\ file' = [kind |-> "map", stamp |-> outside.stamps + 1, expires |-> expires]
      /\ outside' = [outside EXCEPT !.stamps = @ + 1]
      /\ UNCHANGED <<config, now, late, provider, request>> /\ writer[w].at = "checked"
  BY <1>0 DEF Auth!Publish
<1>2. expires \in Nat /\ Auth!RefreshAt(expires) = Renewal(expires) /\ Renewal(expires) \in Int
  BY <1>0 DEF WriterState, Auth!RefreshAt, Renewal
<1> HIDE DEF expires
<1>3. /\ s \in WriterState /\ s.published /\ s.due = Renewal(expires)
      /\ s.at = IF Watches(w) THEN "wait" ELSE "done"
  <2>1. s \in WriterState
    BY <1>0, <1>2 DEF WriterState, WriterStage
  <2>2. s.published = TRUE
    BY <1>0 DEF WriterState
  <2>3. s.due = Renewal(expires) /\ s.at = IF Watches(w) THEN "wait" ELSE "done"
    BY <1>0, <1>2 DEF WriterState, Watches
  <2> QED BY <2>1, <2>2, <2>3
<1> HIDE DEF s
<1>4. file' \in File
  BY <1>0, <1>1, <1>2 DEF File
<1>5. /\ outside' \in [failures : Nat, meddling : Nat, stamps : Nat]
      /\ outside'.meddling = outside.meddling /\ outside'.stamps = outside.stamps + 1
  BY <1>0, <1>1
<1>6. file'.kind = "map" /\ file'.stamp = outside.stamps + 1 /\ file'.expires = expires
  BY <1>1
<1>7. Publishes(w, s)
  BY <1>1, <1>3, <1>4, <1>5, <1>6 DEF Publishes, Goes, expires
<1> QED BY <1>7

\* A request goes on.
Asks(r, at, handle) ==
    /\ request' \in [Requesters -> RequestState]
    /\ request'[r].at = at /\ request'[r].handle = handle
    /\ \A q \in Requesters : q # r => request'[q] = request[q]

\* The provider has a map of its own, and the time of the next look at the file.
Provides(expires, stamp, next, lock) ==
    /\ provider' \in ProviderState /\ provider'.at = "on"
    /\ provider'.expires = expires /\ provider'.stamp = stamp
    /\ provider'.next = next /\ provider'.lock = lock

Quiet == UNCHANGED <<config, now, late, file, writer, outside>>

LEMMA AsksTo ==
    ASSUME request \in [Requesters -> RequestState], NEW r \in Requesters,
           NEW at \in {"idle", "reading", "headers"}, NEW handle \in File,
           request' = [request EXCEPT ![r] = [at |-> at, handle |-> handle]]
    PROVE  Asks(r, at, handle)
<1>1. [at |-> at, handle |-> handle] \in RequestState
  BY DEF RequestState
<1> QED BY <1>1 DEF Asks

LEMMA AsksAt ==
    ASSUME request \in [Requesters -> RequestState], NEW r \in Requesters,
           NEW at \in {"idle", "reading", "headers"}, request' = [request EXCEPT ![r].at = at]
    PROVE  Asks(r, at, Handle(r))
<1> DEFINE s == [request[r] EXCEPT !.at = at]
<1>1. request[r] \in RequestState /\ request' = [request EXCEPT ![r] = s]
  OBVIOUS
<1>2. s \in RequestState /\ s.at = at /\ s.handle = request[r].handle
  BY <1>1 DEF RequestState
<1> HIDE DEF s
<1> QED BY <1>1, <1>2 DEF Asks, Handle

\* A request may find somebody at the file or no look due; may look and find
\* nothing new; or start to read.
Passes(r) ==
    /\ provider' = provider /\ provider.at = "on" /\ Asks(r, "headers", Handle(r))
    /\ provider.lock \/ now < provider.next
FindsNothing(r) ==
    /\ Provides(provider.expires, provider.stamp, now + config.reload, FALSE)
    /\ provider.at = "on" /\ provider.lock = FALSE /\ Asks(r, "headers", Handle(r))
    /\ file.kind = "map" => file.stamp = provider.stamp
StartsReading(r) ==
    /\ Provides(provider.expires, provider.stamp, now + config.reload, TRUE)
    /\ provider.at = "on" /\ provider.lock = FALSE /\ Asks(r, "reading", file)

LEMMA OpenSteps ==
    ASSUME AuthTypes, NEW r \in Requesters, Auth!OpenFile(r)
    PROVE  Quiet /\ request[r].at = "idle" /\ (Passes(r) \/ FindsNothing(r) \/ StartsReading(r))
<1>0. /\ request \in [Requesters -> RequestState] /\ provider \in ProviderState /\ file \in File
      /\ now + config.reload \in Nat
  BY Settings DEF AuthTypes
<1>1. Quiet /\ request[r].at = "idle" /\ provider.at = "on"
  BY DEF Auth!OpenFile, Quiet
<1>2. CASE provider.lock \/ now < provider.next
  <2>1. request' = [request EXCEPT ![r].at = "headers"] /\ provider' = provider
    BY <1>2 DEF Auth!OpenFile
  <2> QED BY <1>0, <1>1, <1>2, <2>1, AsksAt DEF Passes
<1>3. CASE ~(provider.lock \/ now < provider.next)
  <2> DEFINE changed == file.kind \in {"map", "malformed"} /\ file.stamp # provider.stamp
  <2>1. provider' = [provider EXCEPT !.next = now + config.reload, !.lock = changed]
    BY <1>3 DEF Auth!OpenFile
  <2>2. request' = [request EXCEPT ![r] = IF changed THEN [at |-> "reading", handle |-> file]
                                                     ELSE [@ EXCEPT !.at = "headers"]]
    BY <1>3 DEF Auth!OpenFile
  <2>3. provider.lock = FALSE
    BY <1>0, <1>3 DEF ProviderState
  <2>4. CASE changed
    <3>1. changed = TRUE
      BY <2>4
    <3>2. provider' = [provider EXCEPT !.next = now + config.reload, !.lock = TRUE]
      BY <2>1, <3>1
    <3>3. request' = [request EXCEPT ![r] = [at |-> "reading", handle |-> file]]
      BY <2>2, <3>1
    <3>4. Provides(provider.expires, provider.stamp, now + config.reload, TRUE)
      BY <1>0, <1>1, <3>2 DEF Provides, ProviderState
    <3>5. Asks(r, "reading", file)
      BY <1>0, <3>3, AsksTo
    <3> QED BY <1>1, <2>3, <3>4, <3>5 DEF StartsReading
  <2>5. CASE ~changed
    <3>1. changed = FALSE
      BY <2>5
    <3>2. provider' = [provider EXCEPT !.next = now + config.reload, !.lock = FALSE]
      BY <2>1, <3>1
    <3>3. request' = [request EXCEPT ![r].at = "headers"]
      BY <2>2, <3>1
    <3>4. Provides(provider.expires, provider.stamp, now + config.reload, FALSE)
      BY <1>0, <1>1, <3>2 DEF Provides, ProviderState
    <3>5. Asks(r, "headers", Handle(r))
      BY <1>0, <3>3, AsksAt
    <3> QED BY <1>1, <2>3, <2>5, <3>4, <3>5 DEF FindsNothing
  <2> QED BY <2>4, <2>5
<1> QED BY <1>2, <1>3

LEMMA ReadSteps ==
    ASSUME AuthTypes, provider.at = "on", NEW r \in Requesters, Auth!ReadFile(r)
    PROVE  /\ Quiet /\ Reading(r) /\ Asks(r, "headers", Auth!Absent)
           /\ IF Handle(r).kind = "map"
                THEN Provides(Handle(r).expires, Handle(r).stamp, provider.next, FALSE)
                ELSE Provides(provider.expires, provider.stamp, provider.next, FALSE)
<1>0. /\ request \in [Requesters -> RequestState] /\ provider \in ProviderState /\ Handle(r) \in File
  BY DEF AuthTypes, Handle, RequestState
<1>1. /\ Quiet /\ Reading(r) /\ provider' = Auth!ReadInto(Handle(r))
      /\ request' = [request EXCEPT ![r] = [at |-> "headers", handle |-> Auth!Absent]]
  BY DEF Auth!ReadFile, Quiet, Reading, Handle
<1>2. Asks(r, "headers", Auth!Absent)
  BY <1>0, <1>1, AsksTo DEF Auth!Absent, File
<1>3. CASE Handle(r).kind = "map"
  BY <1>0, <1>1, <1>2, <1>3 DEF Auth!ReadInto, Provides, ProviderState, File
<1>4. CASE Handle(r).kind # "map"
  BY <1>0, <1>1, <1>2, <1>4 DEF Auth!ReadInto, Provides, ProviderState, File
<1> QED BY <1>1, <1>2, <1>3, <1>4

LEMMA LoadSteps ==
    ASSUME AuthTypes, Auth!Load
    PROVE  /\ Quiet /\ request' = request /\ provider.at = "off" /\ file.kind = "map"
           /\ Provides(file.expires, file.stamp, now + config.reload, FALSE)
BY Settings DEF AuthTypes, Auth!Load, Quiet, Provides, ProviderState, File

LEMMA MeddleSteps ==
    ASSUME AuthTypes, Auth!Meddle
    PROVE  /\ UNCHANGED <<config, now, late, writer, provider, request>>
           /\ outside' \in [failures : Nat, meddling : Nat, stamps : Nat] /\ file' \in File
           /\ outside'.meddling = outside.meddling + 1 /\ outside'.stamps = outside.stamps + 1
           /\ file'.kind # "map" /\ file'.stamp <= outside'.stamps
           /\ file'.kind = "none" => file.kind # "none"
<1>1. outside \in [failures : Nat, meddling : Nat, stamps : Nat]
  BY DEF AuthTypes
<1>2. outside' = [outside EXCEPT !.meddling = @ + 1, !.stamps = @ + 1]
  BY DEF Auth!Meddle
<1>3. /\ outside' \in [failures : Nat, meddling : Nat, stamps : Nat]
      /\ outside'.meddling = outside.meddling + 1 /\ outside'.stamps = outside.stamps + 1
  <2> DEFINE o == [outside EXCEPT !.meddling = @ + 1]
  <2>1. /\ o \in [failures : Nat, meddling : Nat, stamps : Nat]
        /\ o.meddling = outside.meddling + 1 /\ o.stamps = outside.stamps
    BY <1>1
  <2>2. outside' = [o EXCEPT !.stamps = outside.stamps + 1]
    BY <1>2
  <2> HIDE DEF o
  <2> QED BY <1>1, <2>1, <2>2
<1>4. \/ file' = [kind |-> "malformed", stamp |-> outside.stamps + 1, expires |-> 0]
      \/ file.kind # "none" /\ file' = [kind |-> "none", stamp |-> 0, expires |-> 0]
  BY DEF Auth!Meddle, Auth!Absent
<1>5. file' \in File /\ file'.kind # "map" /\ file'.stamp <= outside'.stamps /\ (file'.kind = "none" => file.kind # "none")
  BY <1>1, <1>3, <1>4 DEF File
<1>6. UNCHANGED <<config, now, late, writer, provider, request>>
  BY DEF Auth!Meddle
<1> QED BY <1>3, <1>5, <1>6

LEMMA TickSteps ==
    ASSUME AuthTypes, Auth!Tick
    PROVE  /\ UNCHANGED <<config, file, writer, provider, request, outside>> /\ now' = now + 1
           /\ \/ late' = late + 1
              \/ /\ late' = late
                 /\ \A r \in Requesters : request[r].at = "idle"
                 /\ \A w \in Auth!Writers : IF Watches(w) THEN writer[w].at = "wait" /\ now < writer[w].due
                                            ELSE writer[w].at \in {"done", "failed"}
BY DEF Auth!Tick, Auth!Punctual, Watches

WriterStep == \E w \in Auth!Writers : \E s : QuietWrite(w, s) \/ Publishes(w, s)
OpenStep == \E r \in Requesters : Quiet /\ request[r].at = "idle" /\ (Passes(r) \/ FindsNothing(r) \/ StartsReading(r))

LEMMA StepKinds ==
    ASSUME AuthTypes, LockInv, Auth!Next
    PROVE  \/ WriterStep \/ OpenStep \/ Auth!Load \/ Auth!Meddle \/ Auth!Tick
           \/ \E r \in Requesters : Auth!ReadFile(r) /\ provider.at = "on"
           \/ \E r \in Requesters : Quiet /\ provider' = provider /\ Asks(r, "idle", Handle(r)) /\ ~Reading(r)
<1>1. ASSUME NEW w \in Auth!Writers,
             \/ Auth!Generate(w) \/ Auth!Check(w) \/ Auth!Publish(w) \/ Auth!WriteFails(w) \/ Auth!Retry(w)
             \/ Auth!Shutdown(w)
      PROVE  WriterStep
  BY <1>1, QuietSteps, PublishSteps DEF WriterStep
<1>2. ASSUME NEW r \in Requesters, Auth!OpenFile(r) PROVE OpenStep
  BY <1>2, OpenSteps DEF OpenStep
<1>3. ASSUME NEW r \in Requesters, Auth!ReadFile(r) PROVE provider.at = "on"
  <2>1. request[r].at = "reading"
    BY <1>3 DEF Auth!ReadFile
  <2> QED BY <2>1 DEF AuthTypes, LockInv, ProviderState
<1>4. ASSUME NEW r \in Requesters, Auth!TakeHeader(r)
      PROVE  Quiet /\ provider' = provider /\ Asks(r, "idle", Handle(r)) /\ ~Reading(r)
  <2>1. /\ Quiet /\ provider' = provider /\ request[r].at = "headers"
        /\ request' = [request EXCEPT ![r].at = "idle"]
    BY <1>4 DEF Auth!TakeHeader, Quiet
  <2> QED BY <2>1, AsksAt DEF Reading, AuthTypes
<1>5. DOMAIN config.writers = Auth!Writers
  BY DEF Auth!Writers
<1> QED BY <1>1, <1>2, <1>3, <1>4, <1>5 DEF Auth!Next

-----------------------------------------------------------------------------
(* The invariant                                                           *)

\* What holds of files, handles and the provider, whoever steps.
LEMMA AuthTypesStep == ASSUME AuthTypes, LockInv, Auth!Next PROVE AuthTypes'
<1>0. /\ config \in AuthSetups /\ now \in Nat /\ late \in Nat /\ file \in File /\ provider \in ProviderState
      /\ writer \in [Auth!Writers -> WriterState] /\ request \in [Requesters -> RequestState]
      /\ outside \in [failures : Nat, meddling : Nat, stamps : Nat]
  BY DEF AuthTypes
<1>1. config' = config => Auth!Writers' = Auth!Writers
  BY DEF Auth!Writers
<1>2. CASE WriterStep
  <2>1. PICK w \in Auth!Writers : \E s : QuietWrite(w, s) \/ Publishes(w, s)
    BY <1>2 DEF WriterStep
  <2>2. PICK s : QuietWrite(w, s) \/ Publishes(w, s)
    BY <2>1
  <2>3. writer' \in [Auth!Writers -> WriterState]
    BY <1>0, <2>2 DEF QuietWrite, Publishes, Goes
  <2> QED BY <1>0, <1>1, <2>2, <2>3 DEF QuietWrite, Publishes, AuthTypes
<1>3. CASE OpenStep
  <2>1. Quiet /\ provider' \in ProviderState /\ request' \in [Requesters -> RequestState]
    BY <1>0, <1>3 DEF OpenStep, Passes, FindsNothing, StartsReading, Asks, Provides
  <2> QED BY <1>0, <1>1, <2>1 DEF Quiet, AuthTypes
<1>4. ASSUME NEW r \in Requesters, Auth!ReadFile(r), provider.at = "on" PROVE AuthTypes'
  <2>1. Quiet /\ provider' \in ProviderState /\ request' \in [Requesters -> RequestState]
    BY <1>4, ReadSteps DEF Asks, Provides
  <2> QED BY <1>0, <1>1, <2>1 DEF Quiet, AuthTypes
<1>5. ASSUME NEW r \in Requesters, Quiet, provider' = provider, Asks(r, "idle", Handle(r)) PROVE AuthTypes'
  BY <1>0, <1>1, <1>5 DEF Quiet, AuthTypes, Asks
<1>6. CASE Auth!Load
  BY <1>0, <1>1, <1>6, LoadSteps DEF Quiet, AuthTypes, Provides
<1>7. CASE Auth!Meddle
  BY <1>0, <1>1, <1>7, MeddleSteps DEF AuthTypes
<1>8. CASE Auth!Tick
  BY <1>0, <1>1, <1>8, TickSteps DEF AuthTypes
<1> QED BY <1>2, <1>3, <1>4, <1>5, <1>6, <1>7, <1>8, StepKinds

LEMMA LockInvStep == ASSUME AuthTypes, LockInv, Auth!Next PROVE LockInv'
<1>0. provider \in ProviderState /\ \A r \in Requesters : request[r] \in RequestState
  BY DEF AuthTypes
<1>1. CASE UNCHANGED <<provider, request>>
  BY <1>1 DEF LockInv, Reading
<1>2. CASE WriterStep \/ Auth!Meddle \/ Auth!Tick
  BY <1>1, <1>2, MeddleSteps, TickSteps DEF WriterStep, QuietWrite, Publishes
<1>3. CASE OpenStep
  <2>1. PICK r \in Requesters : request[r].at = "idle" /\ (Passes(r) \/ FindsNothing(r) \/ StartsReading(r))
    BY <1>3 DEF OpenStep
  <2>2. CASE Passes(r) \/ FindsNothing(r)
    <3>1. provider'.at = "on" /\ provider'.lock = provider.lock
      BY <2>2 DEF Passes, FindsNothing, Provides
    <3>2. \A q \in Requesters : Reading(q)' <=> Reading(q)
      BY <2>1, <2>2 DEF Passes, FindsNothing, Asks, Reading
    <3> QED BY <3>1, <3>2 DEF LockInv
  <2>3. CASE StartsReading(r)
    <3>1. provider'.at = "on" /\ provider'.lock = TRUE /\ ~provider.lock
      BY <2>3 DEF StartsReading, Provides
    <3>2. \A q \in Requesters : Reading(q)' <=> q = r
      BY <2>1, <2>3, <3>1 DEF StartsReading, Asks, Reading, LockInv
    <3> QED BY <3>1, <3>2 DEF LockInv
  <2> QED BY <2>1, <2>2, <2>3
<1>4. ASSUME NEW r \in Requesters, Auth!ReadFile(r), provider.at = "on" PROVE LockInv'
  <2>1. /\ provider'.at = "on" /\ provider'.lock = FALSE /\ Reading(r) /\ Asks(r, "headers", Auth!Absent)
    BY <1>4, ReadSteps DEF Provides
  <2>2. \A q \in Requesters : ~Reading(q)'
    BY <2>1 DEF Asks, Reading, LockInv
  <2> QED BY <2>1, <2>2 DEF LockInv
<1>5. ASSUME NEW r \in Requesters, provider' = provider, Asks(r, "idle", Handle(r)), ~Reading(r) PROVE LockInv'
  <2>1. \A q \in Requesters : Reading(q)' <=> Reading(q)
    BY <1>5 DEF Asks, Reading
  <2>2. \A q \in Requesters : request[q].at = "idle" => request'[q].at = "idle"
    BY <1>5 DEF Asks
  <2> QED BY <1>5, <2>1, <2>2 DEF LockInv
<1>6. CASE Auth!Load
  <2>1. request' = request /\ provider'.at = "on" /\ provider'.lock = FALSE /\ provider.at = "off"
    BY <1>6, LoadSteps DEF Provides
  <2>2. \A q \in Requesters : ~Reading(q)'
    BY <2>1 DEF Reading, LockInv
  <2> QED BY <2>1, <2>2 DEF LockInv
<1> QED BY <1>2, <1>3, <1>4, <1>5, <1>6, StepKinds

\* What a step does to files and maps, in the hands of whom they are.
FileMoves ==
    \/ file' = file
    \/ /\ file'.kind = "map" /\ outside'.stamps = outside.stamps + 1 /\ file'.stamp = outside'.stamps
       /\ file'.expires >= config.ttl /\ UNCHANGED <<provider, request>>
    \/ file'.kind # "map" /\ file'.stamp <= outside'.stamps /\ UNCHANGED <<provider, request>>
HandleMoves(r) ==
    \/ Handle(r)' = Handle(r) /\ (Reading(r)' => Reading(r))
    \/ Handle(r)' = file /\ file' = file
    \/ Handle(r)' = Auth!Absent /\ ~Reading(r)'
Adopts(f) == f.kind = "map" /\ file' = file /\ provider'.expires = f.expires /\ provider'.stamp = f.stamp
ProviderMoves ==
    \/ /\ provider'.at = provider.at /\ provider'.expires = provider.expires
       /\ provider'.stamp = provider.stamp
    \/ Adopts(file)
    \/ \E r \in Requesters : Reading(r) /\ Adopts(Handle(r))
MapsMove ==
    /\ config' = config /\ outside'.stamps >= outside.stamps
    /\ FileMoves /\ ProviderMoves /\ \A r \in Requesters : HandleMoves(r)

LEMMA MapsMoveStep == ASSUME AuthTypes, LockInv, Auth!Next PROVE MapsMove
<1>0. /\ config \in AuthSetups /\ now \in Nat /\ file \in File /\ provider \in ProviderState
      /\ outside \in [failures : Nat, meddling : Nat, stamps : Nat]
      /\ \A w \in Auth!Writers : writer[w] \in WriterState
  BY DEF AuthTypes
<1>1. CASE UNCHANGED <<provider, request>>
  <2>1. ProviderMoves /\ \A r \in Requesters : HandleMoves(r)
    BY <1>1 DEF Handle, Reading, HandleMoves, ProviderMoves
  <2>2. CASE WriterStep
    <3>1. PICK w \in Auth!Writers : \E s : QuietWrite(w, s) \/ Publishes(w, s)
      BY <2>2 DEF WriterStep
    <3>2. PICK s : QuietWrite(w, s) \/ Publishes(w, s)
      BY <3>1
    <3>3. CASE QuietWrite(w, s)
      BY <1>0, <1>1, <2>1, <3>3 DEF QuietWrite, MapsMove, FileMoves
    <3>4. CASE Publishes(w, s)
      <4>1. /\ config' = config /\ file'.kind = "map" /\ file'.stamp = outside'.stamps
            /\ outside'.stamps = outside.stamps + 1 /\ file'.expires = writer[w].issued + config.ttl
        BY <3>4 DEF Publishes
      <4>2. writer[w].issued + config.ttl >= config.ttl
        BY <1>0, Settings DEF WriterState
      <4> QED BY <1>0, <1>1, <2>1, <4>1, <4>2 DEF MapsMove, FileMoves
    <3> QED BY <3>2, <3>3, <3>4
  <2>3. CASE Auth!Meddle
    BY <1>0, <1>1, <2>1, <2>3, MeddleSteps DEF MapsMove, FileMoves
  <2>4. CASE Auth!Tick
    BY <1>0, <1>1, <2>1, <2>4, TickSteps DEF MapsMove, FileMoves
  <2>5. CASE Quiet
    BY <1>0, <1>1, <2>1, <2>5 DEF Quiet, MapsMove, FileMoves
  <2> QED BY <2>2, <2>3, <2>4, <2>5, StepKinds, OpenSteps, ReadSteps, LoadSteps DEF OpenStep
<1>2. CASE WriterStep \/ Auth!Meddle \/ Auth!Tick
  BY <1>1, <1>2, MeddleSteps, TickSteps DEF WriterStep, QuietWrite, Publishes
<1>3. CASE OpenStep
  <2>1. PICK r \in Requesters : Quiet /\ request[r].at = "idle" /\ (Passes(r) \/ FindsNothing(r) \/ StartsReading(r))
    BY <1>3 DEF OpenStep
  <2>2. ProviderMoves
    BY <2>1 DEF Passes, FindsNothing, StartsReading, Provides, ProviderMoves
  <2>3. \A q \in Requesters : HandleMoves(q)
    BY <2>1 DEF Quiet, Passes, FindsNothing, StartsReading, Asks, Handle, Reading, HandleMoves
  <2> QED BY <1>0, <2>1, <2>2, <2>3 DEF Quiet, MapsMove, FileMoves
<1>4. ASSUME NEW r \in Requesters, Auth!ReadFile(r), provider.at = "on" PROVE MapsMove
  <2>1. /\ Quiet /\ Reading(r) /\ Asks(r, "headers", Auth!Absent)
        /\ IF Handle(r).kind = "map"
             THEN Provides(Handle(r).expires, Handle(r).stamp, provider.next, FALSE)
             ELSE Provides(provider.expires, provider.stamp, provider.next, FALSE)
    BY <1>4, ReadSteps
  <2>2. ProviderMoves
    BY <1>4, <2>1 DEF Quiet, Provides, ProviderMoves, Adopts
  <2>3. \A q \in Requesters : HandleMoves(q)
    BY <2>1 DEF Asks, Handle, Reading, HandleMoves
  <2> QED BY <1>0, <2>1, <2>2, <2>3 DEF Quiet, MapsMove, FileMoves
<1>5. ASSUME NEW r \in Requesters, Quiet, provider' = provider, Asks(r, "idle", Handle(r)) PROVE MapsMove
  <2>1. \A q \in Requesters : HandleMoves(q)
    BY <1>5 DEF Asks, Handle, Reading, HandleMoves
  <2> QED BY <1>0, <1>5, <2>1 DEF Quiet, MapsMove, FileMoves, ProviderMoves
<1>6. CASE Auth!Load
  <2>1. /\ Quiet /\ request' = request /\ file.kind = "map"
        /\ provider'.expires = file.expires /\ provider'.stamp = file.stamp
    BY <1>6, LoadSteps DEF Provides
  <2>2. ProviderMoves /\ \A q \in Requesters : HandleMoves(q)
    BY <2>1 DEF Quiet, Handle, Reading, HandleMoves, ProviderMoves, Adopts
  <2> QED BY <1>0, <2>1, <2>2 DEF Quiet, MapsMove, FileMoves
<1> QED BY <1>2, <1>3, <1>4, <1>5, <1>6, StepKinds

LEMMA StampInvStep == ASSUME AuthTypes, LockInv, StampInv, MapsMove, AuthTypes' PROVE StampInv'
<1>0. /\ outside.stamps \in Nat /\ outside'.stamps \in Nat /\ file.stamp \in Nat /\ provider.stamp \in Nat
      /\ file'.stamp \in Nat /\ provider'.stamp \in Nat
      /\ \A r \in Requesters : Handle(r).stamp \in Nat /\ Handle(r)'.stamp \in Nat
  BY DEF AuthTypes, File, ProviderState, RequestState, Handle
<1>1. outside.stamps <= outside'.stamps /\ Auth!Absent.stamp = 0 /\ Auth!Absent.kind = "none"
  BY <1>0 DEF MapsMove, Auth!Absent
<1>2. file'.stamp <= outside'.stamps
  BY <1>0, <1>1 DEF MapsMove, FileMoves, StampInv
<1>3. provider'.stamp <= outside'.stamps
  BY <1>0, <1>1 DEF MapsMove, ProviderMoves, Adopts, StampInv
<1>4. \A r \in Requesters : Handle(r)'.stamp <= outside'.stamps
  BY <1>0, <1>1 DEF MapsMove, HandleMoves, StampInv
<1>5. CASE file' = file
  <2>1. provider'.at = "on" /\ file'.kind = "map" /\ file'.stamp = provider'.stamp => file'.expires = provider'.expires
    BY <1>5 DEF MapsMove, ProviderMoves, Adopts, StampInv
  <2>2. \A r \in Requesters : Reading(r)' /\ Handle(r)'.kind = "map" /\ file'.kind = "map" /\ file'.stamp = Handle(r)'.stamp
                                  => file'.expires = Handle(r)'.expires
    BY <1>1, <1>5 DEF MapsMove, HandleMoves, StampInv
  <2> QED BY <1>2, <1>3, <1>4, <2>1, <2>2 DEF StampInv
<1>6. CASE file' # file
  <2>1. /\ UNCHANGED <<provider, request>>
        /\ file'.kind = "map" => file'.stamp = outside.stamps + 1
    BY <1>6 DEF MapsMove, FileMoves
  <2>2. \A r \in Requesters : Handle(r)' = Handle(r)
    BY <2>1 DEF Handle
  <2>3. file'.kind = "map" => file'.stamp # provider'.stamp /\ \A r \in Requesters : file'.stamp # Handle(r)'.stamp
    BY <1>0, <2>1, <2>2 DEF StampInv
  <2> QED BY <1>2, <1>3, <1>4, <2>3 DEF StampInv
<1> QED BY <1>5, <1>6

LEMMA LifeInvStep == ASSUME AuthTypes, LifeInv, MapsMove PROVE LifeInv'
<1>1. config' = config /\ Auth!Absent.kind = "none"
  BY DEF MapsMove, Auth!Absent
<1>2. file'.kind = "map" => file'.expires >= config.ttl
  BY <1>1 DEF MapsMove, FileMoves, LifeInv
<1>3. \A r \in Requesters : Handle(r)'.kind = "map" => Handle(r)'.expires >= config.ttl
  BY <1>1 DEF MapsMove, HandleMoves, LifeInv
<1>4. provider'.at = "on" => provider'.expires >= config.ttl
  BY <1>1 DEF MapsMove, ProviderMoves, Adopts, LifeInv
<1> QED BY <1>1, <1>2, <1>3, <1>4 DEF LifeInv

LEMMA IssuedInvStep == ASSUME AuthTypes, LockInv, IssuedInv, Auth!Next PROVE IssuedInv'
<1>0. /\ now \in Nat /\ late \in Nat /\ \A w \in Auth!Writers : writer[w] \in WriterState
      /\ DOMAIN writer = Auth!Writers
  BY DEF AuthTypes
<1>1. config' = config /\ Auth!Writers' = Auth!Writers
  BY MapsMoveStep DEF MapsMove, Auth!Writers
<1>2. CASE WriterStep
  <2>1. PICK w \in Auth!Writers : \E s : QuietWrite(w, s) \/ Publishes(w, s)
    BY <1>2 DEF WriterStep
  <2>2. PICK s : QuietWrite(w, s) \/ Publishes(w, s)
    BY <2>1
  <2>3. now' = now /\ late' = late /\ writer' = [writer EXCEPT ![w] = s]
    BY <2>2 DEF QuietWrite, Publishes, Goes
  <2>4. s.at \in {"written", "checked"} => s.issued <= now /\ now <= s.issued + late
    <3>1. CASE QuietWrite(w, s)
      BY <1>0, <3>1 DEF QuietWrite, IssuedInv
    <3>2. CASE Publishes(w, s)
      BY <3>2 DEF Publishes
    <3> QED BY <2>2, <3>1, <3>2
  <2> QED BY <1>0, <1>1, <2>3, <2>4 DEF IssuedInv
<1>3. CASE Auth!Tick
  <2>1. writer' = writer /\ now' = now + 1
    BY <1>3, TickSteps
  <2>2. CASE late' = late + 1
    BY <1>0, <1>1, <2>1, <2>2 DEF IssuedInv, WriterState
  <2>3. CASE \A w \in Auth!Writers : writer[w].at \in {"wait", "done", "failed"}
    BY <1>1, <2>1, <2>3 DEF IssuedInv
  <2> QED BY <1>3, <2>2, <2>3, TickSteps
<1>4. CASE UNCHANGED <<now, late, writer>>
  BY <1>1, <1>4 DEF IssuedInv
<1> QED BY <1>2, <1>3, <1>4, StepKinds, ReadSteps, LoadSteps, MeddleSteps DEF OpenStep, Quiet

LEMMA AuthCount == \A S : Auth!Cardinality(S) = Cardinality(S) /\ (Auth!IsFiniteSet(S) <=> IsFiniteSet(S))
BY DEF Auth!Cardinality, Cardinality, Auth!IsFiniteSet, IsFiniteSet

LEMMA PublishedIsFinite ==
    ASSUME AuthTypes
    PROVE  IsFiniteSet(Published) /\ Cardinality(Published) \in Nat
<1>1. IsFiniteSet(Auth!Writers)
  BY Settings, AuthCount DEF AuthTypes
<1> QED BY <1>1, FS_Subset, FS_CardinalityType DEF Published

LEMMA PublishedInvStep == ASSUME AuthTypes, LockInv, PublishedInv, Auth!Next PROVE PublishedInv'
<1>0. /\ Cardinality(Published) \in Nat /\ IsFiniteSet(Published)
      /\ outside \in [failures : Nat, meddling : Nat, stamps : Nat] /\ DOMAIN writer = Auth!Writers
      /\ \A w \in Auth!Writers : writer[w] \in WriterState
  BY PublishedIsFinite DEF AuthTypes
<1>1. /\ config' = config /\ Auth!Writers' = Auth!Writers
      /\ \A w : Auth!Replaces(w)' = Auth!Replaces(w)
  BY MapsMoveStep DEF MapsMove, Auth!Writers, Auth!Replaces
<1>2. CASE WriterStep
  <2>1. PICK w \in Auth!Writers : \E s : QuietWrite(w, s) \/ Publishes(w, s)
    BY <1>2 DEF WriterStep
  <2>2. PICK s : QuietWrite(w, s) \/ Publishes(w, s)
    BY <2>1
  <2>3. writer' = [writer EXCEPT ![w] = s] /\ outside'.meddling = outside.meddling
    BY <2>2 DEF QuietWrite, Publishes, Goes
  <2>4. CASE QuietWrite(w, s)
    <3>1. file' = file /\ s.published = writer[w].published
      BY <2>4 DEF QuietWrite
    <3>2. Published' = Published
      BY <1>0, <1>1, <2>3, <3>1 DEF Published
    <3> QED BY <1>1, <2>3, <3>1, <3>2 DEF PublishedInv
  <2>5. CASE Publishes(w, s) /\ Auth!Replaces(w)
    <3>1. file'.kind # "none"
      BY <2>5 DEF Publishes
    <3>2. Published' = Published
      BY <1>0, <1>1, <2>3, <2>5 DEF Published
    <3> QED BY <1>0, <1>1, <2>3, <3>1, <3>2 DEF PublishedInv
  <2>6. CASE Publishes(w, s) /\ ~Auth!Replaces(w)
    <3>1. file'.kind # "none" /\ file.kind = "none" /\ s.published
      BY <2>6 DEF Publishes, Auth!CanPublish
    <3>2. Published' = Published \cup {w}
      BY <1>0, <1>1, <2>3, <2>6, <3>1 DEF Published
    <3>3. Cardinality(Published') <= Cardinality(Published) + 1
      <4>1. Cardinality(Published \cup {w}) = IF w \in Published THEN Cardinality(Published) ELSE Cardinality(Published) + 1
        BY <1>0, FS_AddElement
      <4> QED BY <1>0, <3>2, <4>1
    <3>4. Cardinality(Published') \in Nat
      BY <1>0, <3>2, FS_AddElement, FS_CardinalityType
    <3> QED BY <1>0, <1>1, <2>3, <3>1, <3>3, <3>4 DEF PublishedInv
  <2> QED BY <2>2, <2>4, <2>5, <2>6
<1>3. CASE Auth!Meddle
  <2>1. /\ writer' = writer /\ outside'.meddling = outside.meddling + 1
        /\ file'.kind = "none" => file.kind # "none"
    BY <1>3, MeddleSteps
  <2>2. Published' = Published
    BY <1>1, <2>1 DEF Published
  <2> QED BY <1>0, <1>1, <2>1, <2>2 DEF PublishedInv
<1>4. CASE UNCHANGED <<file, writer, outside>>
  <2>1. Published' = Published
    BY <1>1, <1>4 DEF Published
  <2> QED BY <1>1, <1>4, <2>1 DEF PublishedInv
<1> QED BY <1>2, <1>3, <1>4, StepKinds, ReadSteps, LoadSteps, TickSteps DEF OpenStep, Quiet

\* Whoever meddled with the file stays guilty.
LEMMA WatchedStep ==
    ASSUME AuthTypes, LockInv, Auth!Next, Watched'
    PROVE  Watched /\ ~Auth!Meddle /\ outside'.meddling = outside.meddling
<1>0. outside \in [failures : Nat, meddling : Nat, stamps : Nat]
  BY DEF AuthTypes
<1>1. outside'.meddling = 0 /\ \E w \in Auth!Writers : Watches(w)
  <2>1. config' = config
    BY MapsMoveStep DEF MapsMove
  <2> QED BY <2>1 DEF Watched, Watches, Auth!Writers
<1>2. ~Auth!Meddle
  BY <1>0, <1>1, MeddleSteps
<1>3. outside'.meddling = outside.meddling
  BY <1>2, StepKinds, ReadSteps, LoadSteps, TickSteps DEF WriterStep, QuietWrite, Publishes, OpenStep, Quiet
<1> QED BY <1>1, <1>2, <1>3 DEF Watched

\* The numbers that are compared.
LEMMA Times ==
    ASSUME AuthTypes
    PROVE  /\ now \in Nat /\ late \in Nat /\ config.ttl \in Nat /\ config.lead \in Nat /\ config.reload \in Nat
           /\ config.lead < config.ttl /\ config.reload > 0
           /\ file.expires \in Nat /\ provider.expires \in Nat /\ provider.next \in Nat
           /\ \A r \in Requesters : Handle(r).expires \in Nat
           /\ \A w \in Auth!Writers : writer[w].due \in Int /\ writer[w].issued \in Nat
BY Settings DEF AuthTypes, File, ProviderState, RequestState, WriterState, Handle

\* What FileInv says of a watching writer.
WaitsFor(w) ==
    /\ writer[w].at \in {"wait", "retry"} => writer[w].published
    /\ writer[w].published => file.kind = "map"
    /\ writer[w].at = "wait" => writer[w].due <= Renewal(now + config.ttl) /\ writer[w].due <= Renewal(file.expires) + late

FileIsFresh == file.kind = "map" => now <= Renewal(file.expires) + late

LEMMA WriterFileStep ==
    ASSUME AuthTypes, AuthTypes', LockInv, IssuedInv, FileIsFresh, NEW w \in Auth!Writers, NEW s,
           \A v \in Auth!Writers : Watches(v) => WaitsFor(v),
           QuietWrite(w, s) \/ Publishes(w, s)
    PROVE  FileIsFresh' /\ \A v \in Auth!Writers : Watches(v)' => WaitsFor(v)'
<1>0. /\ DOMAIN writer = Auth!Writers /\ UNCHANGED <<config, now, late>> /\ writer' = [writer EXCEPT ![w] = s]
      /\ s.due \in Int /\ file'.expires \in Nat
      /\ \A v : Watches(v)' <=> Watches(v)
  BY Times DEF AuthTypes, QuietWrite, Publishes, Goes, Watches, WriterState, File
<1>1. CASE QuietWrite(w, s)
  <2>1. file' = file /\ s.published = writer[w].published /\ FileIsFresh'
    BY <1>0, <1>1 DEF QuietWrite, FileIsFresh, Renewal
  <2>2. \A v \in Auth!Writers : v # w /\ Watches(v) => WaitsFor(v)'
    BY <1>0, <2>1 DEF WaitsFor, Renewal
  <2>3. Watches(w) => WaitsFor(w)'
    <3>1. SUFFICES ASSUME Watches(w) PROVE WaitsFor(w)'
      OBVIOUS
    <3>2. writer'[w] = s
      BY <1>0
    <3>3. s.at \in {"wait", "retry"} => writer[w].published
      BY <1>1, <3>1 DEF QuietWrite, WaitsFor
    <3>4. s.published => file.kind = "map"
      BY <2>1, <3>1 DEF WaitsFor
    <3>5. s.at = "wait" => s.due <= Renewal(now + config.ttl) /\ s.due <= Renewal(file.expires) + late
      <4>1. s.at = "wait" => s.due <= now /\ file.kind = "map"
        BY <1>1, <2>1, <3>3, <3>4 DEF QuietWrite
      <4> QED BY <1>0, <4>1, Times DEF FileIsFresh, Renewal
    <3> QED BY <1>0, <2>1, <3>2, <3>3, <3>4, <3>5 DEF WaitsFor, Renewal
  <2> QED BY <1>0, <2>1, <2>2, <2>3
<1>2. CASE Publishes(w, s)
  <2>1. /\ file'.kind = "map" /\ file'.expires = writer[w].issued + config.ttl
        /\ writer[w].issued <= now /\ now <= writer[w].issued + late
        /\ s.published /\ s.due = Renewal(writer[w].issued + config.ttl)
    BY <1>2 DEF Publishes, IssuedInv
  <2>2. FileIsFresh'
    BY <1>0, <2>1, Times DEF FileIsFresh, Renewal
  <2>3. Renewal(now + config.ttl) <= Renewal(file'.expires) + late
    BY <1>0, <2>1, Times DEF Renewal
  <2>4. \A v \in Auth!Writers : v # w /\ Watches(v) => WaitsFor(v)'
    <3>1. SUFFICES ASSUME NEW v \in Auth!Writers, v # w, Watches(v) PROVE WaitsFor(v)'
      OBVIOUS
    <3>2. writer'[v] = writer[v] /\ WaitsFor(v) /\ writer[v].due \in Int
      BY <1>0, <3>1, Times
    <3>3. writer[v].at = "wait" => writer[v].due <= Renewal(now + config.ttl) /\ writer[v].due <= Renewal(file'.expires) + late
      BY <1>0, <2>3, <3>2, Times DEF WaitsFor, Renewal
    <3> QED BY <1>0, <2>1, <3>2, <3>3 DEF WaitsFor, Renewal
  <2>5. WaitsFor(w)'
    <3>1. writer'[w] = s
      BY <1>0
    <3>2. s.due <= Renewal(now + config.ttl) /\ s.due <= Renewal(file'.expires) + late
      BY <1>0, <2>1, Times DEF Renewal
    <3> QED BY <1>0, <2>1, <3>1, <3>2 DEF WaitsFor, Renewal
  <2> QED BY <1>0, <2>2, <2>4, <2>5
<1> QED BY <1>1, <1>2

LEMMA TickFileStep ==
    ASSUME AuthTypes, FileIsFresh, Auth!Tick, \E w \in Auth!Writers : Watches(w),
           \A v \in Auth!Writers : Watches(v) => WaitsFor(v)
    PROVE  FileIsFresh' /\ \A v \in Auth!Writers : Watches(v)' => WaitsFor(v)'
<1>0. /\ UNCHANGED <<config, file, writer>> /\ now' = now + 1 /\ (late' = late \/ late' = late + 1)
      /\ \A v : Watches(v)' <=> Watches(v)
  BY TickSteps DEF Watches
<1>1. FileIsFresh'
  <2>1. CASE late' = late + 1
    BY <1>0, <2>1, Times DEF FileIsFresh, Renewal
  <2>2. CASE \A w \in Auth!Writers : Watches(w) => writer[w].at = "wait" /\ now < writer[w].due
    <3>1. PICK w \in Auth!Writers : Watches(w)
      OBVIOUS
    <3>2. now < writer[w].due /\ writer[w].due <= Renewal(file.expires) + late
      BY <2>2, <3>1 DEF WaitsFor
    <3>3. now + 1 <= Renewal(file.expires) + late
      BY <3>2, Times DEF Renewal
    <3> QED BY <1>0, <3>3, Times DEF FileIsFresh, Renewal
  <2> QED BY <2>1, <2>2, TickSteps
<1>2. ASSUME NEW v \in Auth!Writers, WaitsFor(v) PROVE WaitsFor(v)'
  BY <1>0, <1>2, Times DEF WaitsFor, Renewal
<1> QED BY <1>0, <1>1, <1>2

LEMMA FileInvStep ==
    ASSUME AuthTypes, AuthTypes', LockInv, IssuedInv, FileInv, Auth!Next, Watched, ~Auth!Meddle
    PROVE  FileInv'
<1>1. /\ FileIsFresh /\ \A v \in Auth!Writers : Watches(v) => WaitsFor(v)
      /\ \E w \in Auth!Writers : Watches(w)
  BY DEF FileInv, FileIsFresh, WaitsFor, Watched
<1>2. config' = config /\ Auth!Writers' = Auth!Writers
  BY MapsMoveStep DEF MapsMove, Auth!Writers
<1>3. FileIsFresh' /\ \A v \in Auth!Writers : Watches(v)' => WaitsFor(v)'
  <2>1. CASE WriterStep
    BY <1>1, <2>1, WriterFileStep DEF WriterStep
  <2>2. CASE Auth!Tick
    BY <1>1, <2>2, TickFileStep
  <2>3. CASE UNCHANGED <<config, now, late, file, writer>>
    BY <1>1, <2>3 DEF FileIsFresh, WaitsFor, Watches, Renewal
  <2> QED BY <2>1, <2>2, <2>3, StepKinds, ReadSteps, LoadSteps DEF OpenStep, Quiet
<1>4. /\ file' = file \/ file'.kind = "map"
      /\ provider.at = "on" => file.kind = "map"
      /\ \A r \in Requesters : Reading(r) => Handle(r).kind = "map"
  BY StepKinds, ReadSteps, LoadSteps, TickSteps DEF WriterStep, QuietWrite, Publishes, OpenStep, Quiet, FileInv
<1>5. /\ provider'.at = "on" => file'.kind = "map"
      /\ \A r \in Requesters : Reading(r)' => Handle(r)'.kind = "map"
  <2>1. CASE UNCHANGED <<provider, request>>
    BY <1>4, <2>1 DEF Reading, Handle
  <2>2. CASE OpenStep
    <3>1. PICK r \in Requesters : Quiet /\ request[r].at = "idle" /\ (Passes(r) \/ FindsNothing(r) \/ StartsReading(r))
      BY <2>2 DEF OpenStep
    <3>2. provider.at = "on" /\ file' = file
      BY <3>1 DEF Quiet, Passes, FindsNothing, StartsReading
    <3>3. Reading(r)' => Handle(r)' = file
      BY <3>1 DEF Passes, FindsNothing, StartsReading, Asks, Reading, Handle
    <3>4. \A q \in Requesters : q # r => (Reading(q)' <=> Reading(q)) /\ Handle(q)' = Handle(q)
      BY <3>1 DEF Passes, FindsNothing, StartsReading, Asks, Reading, Handle
    <3> QED BY <1>4, <3>2, <3>3, <3>4
  <2>3. ASSUME NEW r \in Requesters, NEW handle, NEW at \in {"idle", "headers"}, Quiet, Asks(r, at, handle),
               provider'.at = "on" => provider.at = "on"
        PROVE  /\ provider'.at = "on" => file'.kind = "map"
               /\ \A q \in Requesters : Reading(q)' => Handle(q)'.kind = "map"
    <3>1. file' = file /\ ~Reading(r)'
      BY <2>3 DEF Quiet, Asks, Reading
    <3>2. \A q \in Requesters : q # r => (Reading(q)' <=> Reading(q)) /\ Handle(q)' = Handle(q)
      BY <2>3 DEF Asks, Reading, Handle
    <3> QED BY <1>4, <2>3, <3>1, <3>2
  <2>4. CASE Auth!Load
    <3>1. file' = file /\ file.kind = "map" /\ request' = request
      BY <2>4, LoadSteps DEF Quiet
    <3> QED BY <1>4, <3>1 DEF Reading, Handle
  <2>5. ASSUME NEW r \in Requesters, Auth!ReadFile(r), provider.at = "on"
        PROVE  Quiet /\ Asks(r, "headers", Auth!Absent)
    BY <2>5, ReadSteps
  <2> QED BY <2>1, <2>2, <2>3, <2>4, <2>5, StepKinds, TickSteps DEF WriterStep, QuietWrite, Publishes
<1> QED BY <1>2, <1>3, <1>5 DEF FileInv, FileIsFresh, WaitsFor

LEMMA TickServiceStep ==
    ASSUME AuthTypes, ServiceInv, Auth!Tick
    PROVE  ServiceInv'
<1>0. /\ UNCHANGED <<config, file, writer, provider, request>> /\ now' = now + 1
      /\ \A r : Handle(r)' = Handle(r) /\ (Reading(r)' <=> Reading(r))
  BY TickSteps DEF Handle, Reading
<1>1. CASE late' = late + 1
  <2>1. ASSUME NEW e \in Nat, Serves(e) PROVE Serves(e)'
    BY <1>0, <1>1, <2>1, Times DEF Serves, Renewal
  <2>2. \A r \in Requesters : now <= Renewal(Handle(r).expires) + late => now' <= Renewal(Handle(r).expires) + late'
    BY <1>0, <1>1, Times DEF Renewal
  <2>3. \A r \in Requesters : Serves(Handle(r).expires) => Serves(Handle(r).expires)'
    BY <1>0, <2>1, Times DEF Serves, Renewal
  <2>4. Serves(provider.expires) => Serves(provider.expires)'
    BY <1>0, <2>1, Times DEF Serves, Renewal
  <2> QED BY <1>0, <2>2, <2>3, <2>4, Times DEF ServiceInv, Renewal
<1>2. CASE late' = late /\ \A r \in Requesters : request[r].at = "idle"
  <2>1. \A r \in Requesters : request'[r].at = "idle" /\ ~Reading(r)'
    BY <1>0, <1>2 DEF Reading
  <2> QED BY <1>0, <1>2, <2>1 DEF ServiceInv, Serves, Renewal
<1> QED BY <1>1, <1>2, TickSteps

LEMMA ServiceInvStep ==
    ASSUME AuthTypes, StampInv, LockInv, FileInv, ServiceInv, Auth!Next, ~Auth!Meddle
    PROVE  ServiceInv'
<1>1. CASE UNCHANGED <<config, now, late, provider, request>>
  BY <1>1 DEF ServiceInv, Serves, Renewal, Handle, Reading
<1>2. CASE Auth!Tick
  BY <1>2, TickServiceStep
<1>3. file.kind = "map" =>
          /\ now + config.reload <= Renewal(file.expires) + config.reload + late
          /\ now < Renewal(file.expires) + config.reload + late
          /\ now <= Renewal(file.expires) + late
  BY Times DEF FileInv, Renewal
<1>4. CASE OpenStep
  <2>1. PICK r \in Requesters : Quiet /\ request[r].at = "idle" /\ (Passes(r) \/ FindsNothing(r) \/ StartsReading(r))
    BY <1>4 DEF OpenStep
  <2>2. provider.at = "on" /\ file.kind = "map" /\ UNCHANGED <<config, now, late>>
    BY <2>1 DEF Quiet, Passes, FindsNothing, StartsReading, FileInv
  <2>3. CASE Passes(r)
    <3>1. /\ provider' = provider /\ ~Reading(r)'
          /\ \A q \in Requesters : q # r => request'[q] = request[q]
          /\ \A q \in Requesters : q # r => (Reading(q)' <=> Reading(q)) /\ Handle(q)' = Handle(q)
      BY <2>3 DEF Passes, Asks, Reading, Handle
    <3>2. ASSUME NEW e \in Nat, Serves(e), now < Renewal(e) + config.reload + late
          PROVE  provider'.next <= Renewal(e) + config.reload + late /\ \A q \in Requesters : request'[q].at = "headers" => now < Renewal(e) + config.reload + late
      BY <3>1, <3>2 DEF Serves
    <3>3. provider.lock \/ now < Renewal(provider.expires) + config.reload + late
      BY <2>2, <2>3, Times DEF Passes, ServiceInv, Serves, Renewal
    <3>4. \A q \in Requesters : Reading(q) => Serves(Handle(q).expires) /\ now <= Renewal(Handle(q).expires) + late
      BY <2>2 DEF ServiceInv
    <3>5. ~provider.lock => Serves(provider.expires)
      BY <2>2 DEF ServiceInv
    <3>6. ~provider'.lock => Serves(provider.expires)'
      BY <2>2, <3>1, <3>2, <3>3, <3>5, Times DEF Serves, Renewal
    <3>7. ASSUME NEW q \in Requesters, Reading(q)'
          PROVE  Serves(Handle(q).expires)' /\ now' <= Renewal(Handle(q).expires)' + late'
      <4>1. Reading(q) /\ Handle(q)' = Handle(q)
        BY <3>1, <3>7
      <4>2. now < Renewal(Handle(q).expires) + config.reload + late
        BY <3>4, <4>1, Times DEF Renewal
      <4> QED BY <2>2, <3>1, <3>2, <3>4, <4>1, <4>2, Times DEF Serves, Renewal
    <3> QED BY <3>6, <3>7 DEF ServiceInv, Renewal
  <2>4. CASE FindsNothing(r)
    <3>1. /\ provider'.next = now + config.reload /\ provider'.expires = provider.expires
          /\ file.expires = provider.expires
      BY <2>2, <2>4 DEF FindsNothing, Provides, StampInv
    <3>2. \A q \in Requesters : ~Reading(q)'
      BY <2>4 DEF FindsNothing, Asks, Reading, LockInv
    <3> QED BY <1>3, <2>2, <3>1, <3>2, Times DEF ServiceInv, Serves, Renewal
  <2>5. CASE StartsReading(r)
    <3>1. provider'.next = now + config.reload /\ provider'.lock = TRUE /\ Handle(r)' = file
      BY <2>5 DEF StartsReading, Provides, Asks, Handle
    <3>2. \A q \in Requesters : Reading(q)' => q = r
      BY <2>5 DEF StartsReading, Asks, Reading, LockInv
    <3>3. Serves(file.expires)' /\ now' <= Renewal(file.expires)' + late'
      BY <1>3, <2>1, <2>2, <3>1, Times DEF Serves, Renewal, Quiet
    <3> QED BY <2>1, <3>1, <3>2, <3>3 DEF ServiceInv, Quiet, Serves, Renewal
  <2> QED BY <2>1, <2>3, <2>4, <2>5
<1>5. ASSUME NEW r \in Requesters, Auth!ReadFile(r), provider.at = "on" PROVE ServiceInv'
  <2>1. /\ Reading(r) /\ Asks(r, "headers", Auth!Absent) /\ UNCHANGED <<config, now, late>>
        /\ provider'.expires = Handle(r).expires /\ provider'.next = provider.next
    BY <1>5, ReadSteps DEF Quiet, Provides, FileInv
  <2>2. Serves(Handle(r).expires) /\ now <= Renewal(Handle(r).expires) + late
    BY <1>5, <2>1 DEF ServiceInv
  <2>3. \A q \in Requesters : ~Reading(q)'
    BY <2>1 DEF Asks, Reading, LockInv
  <2>4. now < Renewal(Handle(r).expires) + config.reload + late
    BY <2>2, Times DEF Renewal
  <2> QED BY <2>1, <2>2, <2>3, <2>4 DEF ServiceInv, Serves, Renewal
<1>6. ASSUME NEW r \in Requesters, Quiet, provider' = provider, Asks(r, "idle", Handle(r)) PROVE ServiceInv'
  <2>1. /\ ~Reading(r)' /\ request'[r].at # "headers"
        /\ \A q \in Requesters : q # r => request'[q] = request[q] /\ (Reading(q)' <=> Reading(q)) /\ Handle(q)' = Handle(q)
    BY <1>6 DEF Asks, Reading, Handle
  <2>2. \A q \in Requesters : Reading(q)' => Reading(q) /\ Handle(q)' = Handle(q)
    BY <2>1
  <2>3. \A q \in Requesters : request'[q].at = "headers" => request[q].at = "headers"
    BY <2>1
  <2> QED BY <1>6, <2>2, <2>3 DEF Quiet, ServiceInv, Serves, Renewal
<1>7. CASE Auth!Load
  <2>1. /\ Quiet /\ request' = request /\ provider.at = "off" /\ file.kind = "map"
        /\ provider'.expires = file.expires /\ provider'.next = now + config.reload
    BY <1>7, LoadSteps DEF Provides
  <2>2. \A q \in Requesters : ~Reading(q)' /\ request'[q].at # "headers"
    BY <2>1 DEF LockInv, Reading
  <2> QED BY <1>3, <2>1, <2>2 DEF Quiet, ServiceInv, Serves, Renewal
<1> QED BY <1>1, <1>2, <1>4, <1>5, <1>6, <1>7, StepKinds DEF WriterStep, QuietWrite, Publishes

-----------------------------------------------------------------------------
(* The invariant as a whole                                                *)

LEMMA AuthInvInit == ASSUME Auth!Init PROVE AuthInv
<1>0. config \in AuthSetups /\ now = 0 /\ late = 0
  BY DEF Auth!Init
<1>1. /\ writer = [w \in Auth!Writers |->
                     [at |-> "start", due |-> 0, retry |-> 1, issued |-> 0, published |-> FALSE]]
      /\ provider = [at |-> "off", expires |-> 0, stamp |-> 0, next |-> 0, lock |-> FALSE]
      /\ request = [r \in Requesters |-> [at |-> "idle", handle |-> Auth!Absent]]
      /\ outside = [failures |-> 0, meddling |-> 0, stamps |-> 1]
  BY DEF Auth!Init, Auth!Writers
<1>2. config.ttl \in Nat /\ config.lead \in Nat /\ config.lead < config.ttl
  BY <1>0, Settings
<1>3. \/ config.start = "none" /\ file = [kind |-> "none", stamp |-> 0, expires |-> 0]
      \/ config.start # "none" /\ file = [kind |-> "map", stamp |-> 1, expires |-> config.ttl]
      \/ config.start # "none" /\ file = [kind |-> "link", stamp |-> 0, expires |-> 0]
  BY DEF Auth!Init, Auth!Absent
<1>4. file \in File /\ file.stamp <= 1 /\ (file.kind = "none" => config.start = "none")
      /\ (file.kind = "map" => file.expires = config.ttl)
  BY <1>2, <1>3 DEF File
<1>5. Auth!Absent \in File /\ Auth!Absent.stamp = 0 /\ Auth!Absent.kind = "none"
  BY DEF Auth!Absent, File
<1>6. AuthTypes
  BY <1>0, <1>1, <1>4, <1>5 DEF AuthTypes, WriterState, WriterStage, ProviderState, RequestState
<1>7. \A r \in Requesters : Handle(r) = Auth!Absent /\ ~Reading(r) /\ request[r].at = "idle"
  BY <1>1 DEF Handle, Reading
<1>8. /\ provider.at = "off" /\ provider.stamp = 0 /\ ~provider.lock /\ outside.stamps = 1 /\ outside.meddling = 0
      /\ \A w \in Auth!Writers : writer[w].at = "start" /\ ~writer[w].published
  BY <1>1
<1>9. StampInv
  BY <1>4, <1>5, <1>7, <1>8 DEF StampInv
<1>10. LifeInv
  BY <1>2, <1>4, <1>5, <1>7, <1>8 DEF LifeInv
<1>11. LockInv
  BY <1>7, <1>8 DEF LockInv
<1>12. IssuedInv
  BY <1>8 DEF IssuedInv
<1>13. PublishedInv
  <2>1. Published = {}
    BY <1>8 DEF Published
  <2>2. Cardinality(Published) = 0
    BY <2>1, FS_EmptySet
  <2> QED BY <1>4, <1>8, <2>2 DEF PublishedInv
<1>14. FileInv
  BY <1>0, <1>2, <1>4, <1>7, <1>8 DEF FileInv, Renewal
<1>15. ServiceInv
  BY <1>8 DEF ServiceInv
<1> QED BY <1>6, <1>9, <1>10, <1>11, <1>12, <1>13, <1>14, <1>15 DEF AuthInv

LEMMA AuthInvStep == ASSUME AuthInv, Auth!Next PROVE AuthInv'
<1>1. AuthTypes' /\ LockInv'
  BY AuthTypesStep, LockInvStep DEF AuthInv
<1>2. StampInv' /\ LifeInv'
  BY MapsMoveStep, StampInvStep, LifeInvStep, <1>1 DEF AuthInv
<1>3. IssuedInv' /\ PublishedInv'
  BY IssuedInvStep, PublishedInvStep DEF AuthInv
<1>4. ASSUME Watched' PROVE FileInv' /\ ServiceInv'
  <2>1. Watched /\ ~Auth!Meddle
    BY <1>4, WatchedStep DEF AuthInv
  <2> QED BY <1>1, <2>1, FileInvStep, ServiceInvStep DEF AuthInv
<1> QED BY <1>1, <1>2, <1>3, <1>4 DEF AuthInv

LEMMA AuthInvStutter == ASSUME AuthInv, UNCHANGED <<config, now, AuthVars>> PROVE AuthInv'
<1>0. /\ UNCHANGED <<config, now, late, file, writer, provider, request, outside>>
      /\ Auth!Writers' = Auth!Writers /\ Published' = Published
  BY DEF AuthVars, Auth!Writers, Published, Auth!Replaces
<1>1. AuthTypes' /\ LockInv' /\ StampInv' /\ LifeInv' /\ IssuedInv'
  BY <1>0 DEF AuthInv, AuthTypes, LockInv, StampInv, LifeInv, IssuedInv, Handle, Reading
<1>2. PublishedInv'
  BY <1>0 DEF AuthInv, PublishedInv
<1>3. (Watched' <=> Watched) /\ (FileInv => FileInv') /\ (ServiceInv => ServiceInv')
  BY <1>0 DEF Watched, FileInv, ServiceInv, Serves, Watches, Handle, Reading, Renewal
<1> QED BY <1>1, <1>2, <1>3 DEF AuthInv

\* Tokens are renewed in time, and nothing is clobbered.
LEMMA TokensAtAnyTime == ASSUME AuthInv PROVE Auth!TokensAreRenewed /\ Auth!NothingIsClobbered
<1>1. ASSUME AuthInv PROVE Auth!TokensAreRenewed
  <2>1. provider.at = "on" => provider.expires >= config.ttl
    BY <1>1 DEF AuthInv, LifeInv
  <2>2. ASSUME NEW w \in Auth!Writers, config.writers[w].watch, outside.meddling = 0, ~provider.lock,
               NEW r \in Requesters, request[r].at = "headers"
        PROVE  now < provider.expires - config.lead + config.reload + late
    <3>1. ServiceInv /\ LockInv /\ AuthTypes
      BY <1>1, <2>2 DEF AuthInv, Watched, Watches
    <3>2. provider.at = "on"
      BY <2>2, <3>1 DEF AuthTypes, LockInv, ProviderState
    <3> QED BY <2>2, <3>1, <3>2 DEF ServiceInv, Serves, Renewal
  <2> QED BY <2>1, <2>2 DEF Auth!TokensAreRenewed
<1>2. ASSUME AuthInv PROVE Auth!NothingIsClobbered
  <2>1. Cardinality(Published) \in Nat /\ outside \in [failures : Nat, meddling : Nat, stamps : Nat] /\ PublishedInv
    BY <1>2, PublishedIsFinite DEF AuthInv, AuthTypes
  <2>2. Auth!Cardinality({w \in Auth!Writers : writer[w].published /\ ~Auth!Replaces(w)}) = Cardinality(Published)
    BY AuthCount DEF Published
  <2>3. Cardinality(Published) <= outside.meddling + (IF config.start = "none" THEN 1 ELSE 0)
    BY <2>1 DEF PublishedInv
  <2> QED BY <2>2, <2>3 DEF Auth!NothingIsClobbered
<1> QED BY <1>1, <1>2
-----------------------------------------------------------------------------
(***************************************************************************)
(* bench send-blocks, for any input, depth and gap.                        *)
(***************************************************************************)

Lines == config.lines
LineSet == {Lines[i] : i \in DOMAIN Lines}
Block == Int \X Nat
Updates == engine.updates
UpdatesOf(k) == {i \in DOMAIN Updates : Updates[i].head[2] = k}

\* The number of the block before the input.  Numbers are consecutive.
Base == Lines[1].number - 1

\* A step of the command is about a block of a synthetic fork, or about one of
\* the input.
Submitting == replay.at \in {"payload", "forkchoice"}
Forking == replay.at = "build" \/ (Submitting /\ replay.block[2] # 0)
Replaying == replay.at \in {"mempool", "canonical"} \/ (Submitting /\ replay.block[2] = 0)
Failed == replay.at = "failed"

ReplayType ==
    [at : {"read", "mempool", "build", "canonical", "payload", "forkchoice", "done", "failed"},
    position : 0 .. Len(Lines), pending : Seq(LineSet), gap_remaining : 0 .. config.gap,
    due : Seq(LineSet), index : Nat, branch : Block \cup {Blocks!None},
    parent : {replay.parent}, fork : Nat, block : Block \cup {Blocks!None},
    forkchoice : {replay.forkchoice}, wait : {replay.wait}, txs : {replay.txs},
    submitted : Nat, prev : Block \cup {Blocks!None}, finalized : Block \cup {Blocks!None}]

BlockTypes ==
    /\ config \in BlockRuns
    /\ replay \in ReplayType
    /\ engine \in [known : {engine.known}, head : Block \cup {Blocks!None},
                   updates : Seq([head : Block, safe : Block, finalized : Block])]
    /\ Submitting => replay.block \in Block /\ replay.forkchoice \in [safe : Block, finalized : Block]

\* What was read is submitted, due, or pending, in the order of the input.
PositionInv ==
    /\ Len(replay.pending) + Len(replay.due) <= replay.position
    /\ \A i \in DOMAIN replay.pending : replay.pending[i] = Lines[replay.position - Len(replay.pending) + i]
    /\ \A i \in DOMAIN replay.due : replay.due[i] = Lines[replay.position - Len(replay.due) + i]
    /\ replay.at = "read" => replay.due = <<>> /\ replay.branch = Blocks!None
    /\ replay.at = "done" => replay.due = <<>> /\ replay.pending = <<>> /\ replay.position = Len(Lines)
    /\ Forking \/ Replaying => replay.index \in DOMAIN replay.due /\ replay.pending = <<>>
    /\ replay.submitted = replay.position - Len(replay.pending) - Len(replay.due)
                            + (IF Replaying THEN replay.index - 1 ELSE 0)
    /\ Submitting => replay.block[1] = Base + replay.position - Len(replay.due) + replay.index
                     /\ replay.block[2] \in {0, replay.fork}
    /\ Forking => replay.branch # Blocks!None
    /\ replay.branch # Blocks!None =>
         /\ replay.branch = <<Base + replay.position - Len(replay.due), 0>>
         /\ Len(replay.due) = config.depth

\* What has been submitted of the input.
CanonicalInv ==
    /\ {Updates[i].head : i \in UpdatesOf(0)} = {Blocks!Canonical(Base + k) : k \in 1 .. replay.submitted}
    /\ \A i, j \in UpdatesOf(0) : i < j => Updates[i].head[1] < Updates[j].head[1]
    /\ replay.prev = IF replay.submitted = 0 THEN Blocks!None ELSE Blocks!Canonical(Base + replay.submitted)
    /\ replay.at \in {"read", "done"} /\ replay.submitted > 0 => engine.head = replay.prev

\* What was declared safe or final is not above the last block submitted.
Marked(block, n) == block[2] = 0 /\ block[1] <= n
MarkInv ==
    /\ \A i \in DOMAIN Updates : /\ Marked(Updates[i].safe, Base + replay.submitted)
                                 /\ Marked(Updates[i].finalized, Base + replay.submitted)
    /\ Submitting => /\ Marked(replay.forkchoice.safe, Base + replay.submitted + (IF Forking THEN 0 ELSE 1))
                     /\ Marked(replay.forkchoice.finalized, Base + replay.submitted + (IF Forking THEN 0 ELSE 1))
    /\ replay.finalized # Blocks!None =>
          Marked(replay.finalized, Base + replay.submitted + (IF Submitting /\ ~Forking THEN 1 ELSE 0))

\* The updates of a fork follow one another, each one block above the last.
Built(k) == IF k = replay.fork /\ Forking THEN replay.index - 1 ELSE config.depth
IsRun(k, first, n) ==
    /\ UpdatesOf(k) = first .. first + n - 1
    /\ \A i \in UpdatesOf(k) : Updates[i].head[1] = Updates[first].head[1] + i - first
ForkInv ==
    /\ \A i \in DOMAIN Updates : Updates[i].head[2] \in 0 .. replay.fork
    /\ \A k \in 1 .. replay.fork : \E first \in 1 .. Len(Updates) + 1 : IsRun(k, first, Built(k))
    /\ Forking =>
         /\ replay.fork > 0
         /\ LET first == Len(Updates) - replay.index + 2
            IN  /\ IsRun(replay.fork, first, replay.index - 1)
                /\ replay.index > 1 => Updates[first].head[1] = replay.branch[1] + 1

\* One batch in depth + gap blocks is forked.
Remains == config.gap - replay.gap_remaining + Len(replay.pending)
BatchInv ==
    /\ config.depth = 0 => replay.fork = 0 /\ replay.gap_remaining = 0 /\ replay.pending = <<>>
    /\ config.depth > 0 =>
         \E rest \in 0 .. config.depth + config.gap - 1 :
            /\ replay.position + config.gap = replay.fork * (config.depth + config.gap) + rest
            /\ replay.position < Len(Lines) => rest = Remains
    /\ replay.gap_remaining > 0 => replay.pending = <<>>
    /\ config.depth > 0 => Len(replay.pending) < config.depth

BlockInv ==
    /\ BlockTypes /\ Blocks!FinalizedIsKept
    /\ ~Failed => PositionInv /\ CanonicalInv /\ MarkInv /\ ForkInv /\ BatchInv

-----------------------------------------------------------------------------
LEMMA BlockInputs ==
    ASSUME config \in BlockRuns
    PROVE  /\ Lines \in Seq(LineSet) /\ Len(Lines) \in Nat /\ DOMAIN Lines = 1 .. Len(Lines)
           /\ config.depth \in Nat /\ config.gap \in Nat
           /\ config.mempool => config.depth = 0
           /\ Lines # <<>> => Base \in Int
           /\ \A i \in 1 .. Len(Lines) : Lines[i].number = Base + i
<1>1. /\ Lines \in Seq(Blocks!Range(Lines)) /\ \A i \in DOMAIN Lines : Lines[i].number \in Nat
      /\ config.depth \in Nat /\ config.gap \in Nat
      /\ config.mempool => config.depth = 0
      /\ \A i \in DOMAIN Lines : Lines[i].number = Lines[1].number + i - 1
  BY PartsAssumption DEF Blocks!BlockAssumption, Lines
<1>2. Lines \in Seq(LineSet)
  BY <1>1 DEF Blocks!Range, LineSet
<1>3. Len(Lines) \in Nat /\ DOMAIN Lines = 1 .. Len(Lines)
  BY <1>2
<1>4. Lines # <<>> => Base \in Int
  BY <1>1, <1>2 DEF Base
<1>5. ASSUME NEW i \in 1 .. Len(Lines) PROVE Lines[i].number = Base + i
  <2>1. 1 \in DOMAIN Lines /\ i \in DOMAIN Lines
    BY <1>3
  <2>2. Lines[i].number = Lines[1].number + i - 1 /\ Lines[1].number \in Nat
    BY <1>1, <2>1
  <2> QED BY <2>2 DEF Base
<1> QED BY <1>1, <1>2, <1>3, <1>4, <1>5

LEMMA MinIs ==
    ASSUME NEW S \in SUBSET Int, NEW m \in S, \A n \in S : m <= n
    PROVE  Blocks!Min(S) = m
<1>1. \A x \in S : (\A y \in S : x <= y) => x = m
  OBVIOUS
<1> QED BY <1>1 DEF Blocks!Min

LEMMA BranchIs ==
    ASSUME NEW k, NEW n \in Nat, NEW first \in Int, n > 0, UpdatesOf(k) = first .. first + n - 1
    PROVE  Blocks!BranchOf(k) = Updates[first].head[1] - 1
<1>1. UpdatesOf(k) \in SUBSET Int /\ first \in UpdatesOf(k) /\ \A i \in UpdatesOf(k) : first <= i
  OBVIOUS
<1>2. Blocks!Min(UpdatesOf(k)) = first
  BY <1>1, MinIs
<1> QED BY <1>2 DEF Blocks!BranchOf, UpdatesOf, Updates

LEMMA Quotient ==
    ASSUME NEW q \in Nat, NEW d \in Nat, NEW r \in 0 .. d - 1
    PROVE  (q * d + r) \div d = q
OBVIOUS

-----------------------------------------------------------------------------
(* What the steps do                                                       *)

Steady == UNCHANGED <<config, Updates, engine.head>>

LEMMA SameUpdates ==
    ASSUME UNCHANGED <<config, Updates>>
    PROVE  /\ Lines' = Lines /\ LineSet' = LineSet /\ Base' = Base
           /\ \A k : UpdatesOf(k)' = UpdatesOf(k)
           /\ Blocks!FinalizedIsKept' <=> Blocks!FinalizedIsKept
BY DEF Lines, LineSet, Base, UpdatesOf, Updates, Blocks!FinalizedIsKept, Blocks!Descends, Blocks!BranchOf

LEMMA FailStep ==
    ASSUME BlockInv, Blocks!Fails, UNCHANGED <<config, engine>>
    PROVE  BlockInv'
<1>1. Updates' = Updates /\ BlockTypes
  BY DEF Updates, BlockInv
<1>2. replay' = [replay EXCEPT !.at = "failed"]
  BY DEF Blocks!Fails
<1>3. replay'.at = "failed" /\ Failed' /\ ~Submitting'
  BY <1>1, <1>2 DEF Failed, Submitting, BlockTypes, ReplayType
<1>4. BlockTypes'
  BY <1>1, <1>2, <1>3, SameUpdates DEF BlockTypes, ReplayType
<1>5. Blocks!FinalizedIsKept'
  BY <1>1, SameUpdates DEF BlockInv
<1> QED BY <1>3, <1>4, <1>5 DEF BlockInv

\* The command gets on with the block it is at.
Moves ==
    /\ UNCHANGED <<config, Updates, engine.head>> /\ BlockTypes'
    /\ UNCHANGED <<replay.position, replay.pending, replay.gap_remaining, replay.due, replay.index,
                   replay.branch, replay.fork, replay.submitted, replay.prev>>
    /\ Forking \/ Replaying
    /\ (Forking <=> Forking') /\ (Replaying <=> Replaying')
    /\ Submitting' =>
         /\ replay'.block = <<Base + replay.position - Len(replay.due) + replay.index,
                              IF Forking THEN replay.fork ELSE 0>>
         /\ Marked(replay'.forkchoice.safe, Base + replay.submitted + (IF Forking THEN 0 ELSE 1))
         /\ Marked(replay'.forkchoice.finalized, Base + replay.submitted + (IF Forking THEN 0 ELSE 1))
    /\ replay'.finalized # Blocks!None =>
          Marked(replay'.finalized, Base + replay.submitted + (IF Submitting' /\ ~Forking THEN 1 ELSE 0))

LEMMA MovesKeep == ASSUME BlockInv, ~Failed, Moves PROVE BlockInv'
<1>0. /\ BlockTypes /\ PositionInv /\ CanonicalInv /\ MarkInv /\ ForkInv /\ BatchInv
      /\ BlockTypes' /\ Blocks!FinalizedIsKept
  BY DEF BlockInv, Moves
<1>1. /\ Lines' = Lines /\ LineSet' = LineSet /\ Base' = Base
      /\ \A k : UpdatesOf(k)' = UpdatesOf(k)
      /\ Blocks!FinalizedIsKept'
  BY <1>0, SameUpdates DEF Moves
<1>2. replay'.at \notin {"read", "done", "failed"} /\ ~Failed'
  BY DEF Moves, Forking, Replaying, Submitting, Failed
<1>3. PositionInv'
  <2>1. Submitting' => /\ replay'.block[1] = Base + replay.position - Len(replay.due) + replay.index
                       /\ replay'.block[2] \in {0, replay.fork}
    BY DEF Moves
  <2> QED BY ZenonT(60), <1>0, <1>1, <1>2, <2>1 DEF PositionInv, Moves
<1>4. CanonicalInv'
  BY ZenonT(60), <1>0, <1>1, <1>2 DEF CanonicalInv, Moves
<1>5. MarkInv'
  BY <1>0, <1>1, <1>2 DEF MarkInv, Moves, Marked
<1>6. ForkInv'
  BY <1>0, <1>1, <1>2 DEF ForkInv, Moves, IsRun, Built
<1>7. BatchInv'
  BY <1>0, <1>1, <1>2 DEF BatchInv, Moves, Remains
<1> QED BY <1>0, <1>1, <1>3, <1>4, <1>5, <1>6, <1>7 DEF BlockInv

LEMMA CanonicalIs ==
    ASSUME NEW n \in Int
    PROVE  /\ Blocks!Canonical(n) \in Block /\ Blocks!Canonical(n)[1] = n /\ Blocks!Canonical(n)[2] = 0
           /\ Blocks!Canonical(n) # Blocks!None
           /\ \A m \in Int : n <= m => Marked(Blocks!Canonical(n), m)
BY DEF Blocks!Canonical, Block, Marked, Blocks!None

LEMMA LineIs ==
    ASSUME BlockTypes, PositionInv, replay.index \in DOMAIN replay.due
    PROVE  /\ Blocks!Line \in LineSet
           /\ Blocks!Line.number = Base + replay.position - Len(replay.due) + replay.index
           /\ Blocks!Line.number \in Int /\ Base \in Int
<1>1. /\ replay.due \in Seq(LineSet) /\ Len(replay.due) <= replay.position /\ replay.position \in 0 .. Len(Lines)
      /\ replay.pending \in Seq(LineSet) /\ config \in BlockRuns
      /\ Len(replay.pending) + Len(replay.due) <= replay.position
  BY DEF BlockTypes, ReplayType, PositionInv
<1>2. Len(Lines) \in Nat /\ Lines \in Seq(LineSet) /\ DOMAIN Lines = 1 .. Len(Lines)
  BY <1>1, BlockInputs
<1> DEFINE k == replay.position - Len(replay.due) + replay.index
<1>3. k \in 1 .. Len(Lines) /\ replay.due[replay.index] = Lines[k]
  BY SMTT(60), <1>1, <1>2 DEF PositionInv
<1>4. Lines # <<>> /\ Lines[k].number = Base + k /\ Base \in Int
  BY SMTT(60), <1>1, <1>2, <1>3, BlockInputs
<1>5. Blocks!Line \in LineSet
  BY <1>1 DEF Blocks!Line
<1>6. Blocks!Line.number = Base + k
  BY <1>3, <1>4 DEF Blocks!Line
<1>7. k = replay.position - Len(replay.due) + replay.index /\ k \in Int
  BY <1>3
<1> QED BY <1>4, <1>5, <1>6, <1>1, <1>7

LEMMA MempoolStep ==
    ASSUME BlockInv, Blocks!SubmitToMempool, ~Blocks!Fails
    PROVE  Moves
<1>0. BlockTypes /\ replay.at = "mempool" /\ ~Failed /\ PositionInv /\ MarkInv
  BY ZenonT(60) DEF BlockInv, Blocks!SubmitToMempool, Failed
<1>1. replay' = [replay EXCEPT !.at = "canonical"] /\ UNCHANGED <<config, engine>>
  BY DEF Blocks!SubmitToMempool
<1>2. Replaying /\ ~Forking /\ Replaying' /\ ~Forking' /\ ~Submitting /\ ~Submitting'
  BY <1>0, <1>1 DEF Replaying, Forking, Submitting, BlockTypes, ReplayType
<1>3. BlockTypes'
  BY <1>0, <1>1, <1>2, SameUpdates DEF BlockTypes, ReplayType, Updates
<1>4. replay'.finalized # Blocks!None => Marked(replay'.finalized, Base + replay.submitted + 0)
  BY <1>0, <1>1, <1>2 DEF MarkInv, BlockTypes, ReplayType
<1> QED BY <1>0, <1>1, <1>2, <1>3, <1>4 DEF Moves, BlockTypes, ReplayType, Updates

LEMMA BuildStep ==
    ASSUME BlockInv, Blocks!Build, ~Blocks!Fails
    PROVE  Moves
<1>0. BlockTypes /\ replay.at = "build" /\ ~Failed /\ PositionInv /\ MarkInv /\ ForkInv
  BY DEF BlockInv, Blocks!Build, Failed
<1>1. Forking /\ ~Replaying /\ ~Submitting
  BY <1>0 DEF Replaying, Forking, Submitting
<1>2. replay.index \in DOMAIN replay.due /\ replay.branch # Blocks!None /\ replay.fork > 0
      /\ replay.branch = <<Base + replay.position - Len(replay.due), 0>>
      /\ replay.pending = <<>> /\ replay.submitted = replay.position - Len(replay.due)
  <2>1. /\ replay.index \in DOMAIN replay.due /\ replay.pending = <<>> /\ replay.branch # Blocks!None
        /\ replay.branch = <<Base + replay.position - Len(replay.due), 0>>
        /\ replay.submitted = replay.position - Len(replay.pending) - Len(replay.due) + 0
    BY <1>0, <1>1 DEF PositionInv
  <2>2. replay.fork > 0
    BY <1>0, <1>1 DEF ForkInv
  <2>3. Len(replay.pending) = 0 /\ replay.position \in Int /\ Len(replay.due) \in Int
    BY <1>0, <2>1 DEF BlockTypes, ReplayType
  <2>4. replay.submitted = replay.position - Len(replay.due)
    BY <2>1, <2>3
  <2> QED BY <2>1, <2>2, <2>4
<1>3. Blocks!Line.number = Base + replay.position - Len(replay.due) + replay.index
      /\ Blocks!Line.number \in Int /\ Base \in Int
  BY <1>0, <1>2, LineIs
<1> DEFINE block == <<Blocks!Line.number, replay.fork>>
           choice == [safe |-> replay.branch, finalized |-> replay.branch]
<1>4. /\ replay' = [replay EXCEPT !.at = "payload", !.block = block, !.forkchoice = choice,
                       !.wait = replay'.wait, !.txs = replay'.txs]
      /\ UNCHANGED <<config, engine>>
  BY <1>0 DEF Blocks!Build, Blocks!Anchored, BlockTypes, ReplayType
<1>5. block \in Block /\ block[2] = replay.fork /\ replay.branch \in Block
  BY <1>0, <1>2, <1>3 DEF Block, BlockTypes, ReplayType
<1>6. choice \in [safe : Block, finalized : Block] /\ choice.safe = replay.branch /\ choice.finalized = replay.branch
  BY <1>5
<1>7. block = <<Base + replay.position - Len(replay.due) + replay.index, replay.fork>>
  BY <1>3
<1> HIDE DEF block, choice
<1>8. /\ replay'.at = "payload" /\ replay'.block = block /\ replay'.forkchoice = choice
      /\ UNCHANGED <<config, Updates, engine.head>>
      /\ UNCHANGED <<replay.position, replay.pending, replay.gap_remaining, replay.due, replay.index,
                   replay.branch, replay.fork, replay.submitted, replay.prev, replay.finalized>>
  BY ZenonT(60), <1>0, <1>4 DEF BlockTypes, ReplayType, Updates
<1>9. Forking' /\ ~Replaying' /\ Submitting'
  BY <1>2, <1>5, <1>8, <1>0 DEF Replaying, Forking, Submitting, BlockTypes, ReplayType
<1>10. BlockTypes'
  BY <1>0, <1>4, <1>5, <1>6, <1>8, SameUpdates DEF BlockTypes, ReplayType, Updates
<1>11. Base + replay.submitted \in Int /\ Base + replay.submitted = Base + replay.position - Len(replay.due)
  BY <1>0, <1>2, <1>3 DEF BlockTypes, ReplayType
<1>12. Marked(replay.branch, Base + replay.submitted)
  BY <1>2, <1>11 DEF Marked
<1>13. replay'.finalized # Blocks!None => Marked(replay'.finalized, Base + replay.submitted + 0)
  BY <1>0, <1>1, <1>8 DEF MarkInv
<1>14. Base + replay.submitted + 0 = Base + replay.submitted
  BY <1>11
<1> QED BY <1>1, <1>6, <1>7, <1>8, <1>9, <1>10, <1>12, <1>13, <1>14 DEF Moves

LEMMA SubmitStep ==
    ASSUME BlockInv, Blocks!SubmitBlock
    PROVE  Moves
<1> DEFINE line == Blocks!Line
           block == Blocks!Canonical(line.number)
           choice == Blocks!ForkchoiceOf(line)
           top == Base + replay.submitted + 1
<1>0. BlockTypes /\ replay.at = "canonical" /\ ~Failed /\ PositionInv /\ MarkInv /\ CanonicalInv
  BY DEF BlockInv, Blocks!SubmitBlock, Failed
<1>1. ~Forking /\ Replaying /\ ~Submitting
  BY <1>0 DEF Replaying, Forking, Submitting
<1>2. replay.index \in DOMAIN replay.due
      /\ replay.pending = <<>> /\ replay.submitted = replay.position - Len(replay.due) + replay.index - 1
      /\ (replay.branch # Blocks!None => replay.branch = <<Base + replay.position - Len(replay.due), 0>>)
      /\ replay.position \in Nat /\ replay.index \in Nat \ {0} /\ Len(replay.due) \in Nat /\ replay.submitted \in Nat
  <2>1. /\ replay.position \in Nat /\ replay.index \in Nat /\ replay.submitted \in Nat
        /\ Len(replay.due) \in Nat /\ DOMAIN replay.due = 1 .. Len(replay.due)
    BY <1>0, BlockInputs DEF BlockTypes, ReplayType
  <2>2. /\ replay.index \in DOMAIN replay.due /\ replay.pending = <<>>
        /\ replay.branch # Blocks!None => replay.branch = <<Base + replay.position - Len(replay.due), 0>>
    BY <1>0, <1>1 DEF PositionInv
  <2>3. replay.submitted = replay.position - 0 - Len(replay.due) + (replay.index - 1)
    BY <1>0, <1>1, <2>2 DEF PositionInv
  <2>4. replay.submitted = replay.position - Len(replay.due) + replay.index - 1
    <3>1. \A p, d, i \in Int : p - 0 - d + (i - 1) = p - d + i - 1
      OBVIOUS
    <3> QED BY <2>1, <2>3, <3>1
  <2>5. replay.index \in Nat \ {0}
    BY <2>1, <2>2
  <2> QED BY <2>1, <2>2, <2>4, <2>5
<1>3. line.number = Base + replay.position - Len(replay.due) + replay.index
      /\ line.number \in Int /\ Base \in Int
  BY <1>0, <1>2, LineIs
<1>a. line.number = top /\ top \in Int /\ top - 1 \in Int /\ Base + replay.submitted = top - 1
      /\ top - replay.index \in Int /\ Base + replay.position - Len(replay.due) = top - replay.index
  <2> DEFINE b == Base
             p == replay.position
             d == Len(replay.due)
             i == replay.index
             n == replay.submitted
  <2>1. b \in Int /\ p \in Int /\ d \in Int /\ i \in Int /\ n = p - d + i - 1
    BY <1>2, <1>3
  <2>2. top = b + n + 1
    OBVIOUS
  <2> HIDE DEF b, p, d, i, n, line, top
  <2>3. /\ b + p - d + i = top
        /\ top \in Int /\ top - 1 \in Int /\ b + n = top - 1
        /\ top - i \in Int /\ b + p - d = top - i
    BY <2>1, <2>2
  <2> QED BY <1>3, <2>3 DEF b, p, d, i, n
<1> HIDE DEF line, top
<1>4. block = <<top, 0>> /\ block \in Block /\ Marked(block, top)
  BY <1>a, CanonicalIs DEF Blocks!Canonical
<1>5. replay.prev # Blocks!None => Marked(replay.prev, top) /\ replay.prev \in Block
  <2>1. replay.prev # Blocks!None => replay.prev = Blocks!Canonical(top - 1)
    BY <1>0, <1>a DEF CanonicalInv
  <2>2. top - 1 <= top
    BY <1>a
  <2> QED BY <2>1, <2>2, <1>a, CanonicalIs
<1>6. replay.finalized # Blocks!None => Marked(replay.finalized, top) /\ replay.finalized \in Block
  <2>1. replay.finalized \in Block \cup {Blocks!None}
    BY <1>0 DEF BlockTypes, ReplayType
  <2>2. replay.finalized # Blocks!None => Marked(replay.finalized, top - 1 + 0)
    BY <1>0, <1>1, <1>a DEF MarkInv
  <2> QED BY <2>1, <2>2, <1>a DEF Marked, Block
<1>7. replay.branch # Blocks!None => Marked(replay.branch, top) /\ replay.branch \in Block
  <2>1. replay.branch # Blocks!None => replay.branch = Blocks!Canonical(top - replay.index)
    BY <1>2, <1>a DEF Blocks!Canonical
  <2>2. top - replay.index <= top
    BY <1>2, <1>a
  <2> QED BY <2>1, <2>2, <1>a, CanonicalIs
<1> HIDE DEF block
<1>8. choice \in [safe : Block, finalized : Block] /\ Marked(choice.safe, top) /\ Marked(choice.finalized, top)
  <2> DEFINE safe == IF replay.prev = Blocks!None THEN block ELSE replay.prev
             finalized == IF replay.finalized = Blocks!None THEN safe ELSE replay.finalized
  <2>1. Marked(safe, top) /\ safe \in Block /\ Marked(finalized, top) /\ finalized \in Block
    BY <1>4, <1>5, <1>6
  <2>2. choice = CASE replay.branch # Blocks!None -> [safe |-> replay.branch, finalized |-> replay.branch]
                   [] line.big -> [safe |-> block, finalized |-> block]
                   [] OTHER -> [safe |-> safe, finalized |-> finalized]
    BY DEF Blocks!ForkchoiceOf, block, Blocks!Anchored
  <2> HIDE DEF safe, finalized, choice
  <2>3. \/ choice = [safe |-> replay.branch, finalized |-> replay.branch] /\ replay.branch # Blocks!None
        \/ choice = [safe |-> block, finalized |-> block]
        \/ choice = [safe |-> safe, finalized |-> finalized]
    BY <2>2
  <2> QED BY <1>4, <1>7, <2>1, <2>3
<1> HIDE DEF choice
<1>9. /\ replay' = [replay EXCEPT !.at = "payload", !.block = block, !.forkchoice = choice,
                       !.wait = replay'.wait, !.txs = replay'.txs, !.finalized = replay'.finalized]
      /\ UNCHANGED <<config, engine>> /\ replay'.finalized \in {choice.finalized, replay.finalized}
  BY ZenonT(60), <1>0 DEF Blocks!SubmitBlock, line, block, choice, BlockTypes, ReplayType
<1>10. /\ replay'.at = "payload" /\ replay'.block = block /\ replay'.forkchoice = choice
       /\ UNCHANGED <<config, Updates, engine.head>>
       /\ UNCHANGED <<replay.position, replay.pending, replay.gap_remaining, replay.due, replay.index,
                   replay.branch, replay.fork, replay.submitted, replay.prev>>
  BY ZenonT(60), <1>0, <1>9 DEF BlockTypes, ReplayType, Updates
<1>11. ~Forking' /\ Replaying' /\ Submitting'
  BY <1>10, <1>4 DEF Replaying, Forking, Submitting
<1>12. BlockTypes'
  BY ZenonT(60), <1>0, <1>4, <1>6, <1>8, <1>9, <1>10, SameUpdates DEF BlockTypes, ReplayType, Updates
<1>13. Marked(replay'.finalized, top) \/ replay'.finalized = Blocks!None
  BY <1>6, <1>8, <1>9
<1>14. block = <<Base + replay.position - Len(replay.due) + replay.index, 0>>
  BY <1>3, <1>4, <1>a
<1>15. top = Base + replay.submitted + 1
  BY DEF top
<1> QED BY <1>1, <1>8, <1>10, <1>11, <1>12, <1>13, <1>14, <1>15 DEF Moves

LEMMA PayloadStep ==
    ASSUME BlockInv, Blocks!NewPayload, ~Blocks!Fails
    PROVE  Moves
<1>0. BlockTypes /\ replay.at = "payload" /\ ~Failed /\ PositionInv /\ MarkInv
  BY DEF BlockInv, Blocks!NewPayload, Failed
<1>1. /\ replay' = [replay EXCEPT !.at = "forkchoice"]
      /\ engine' = [engine EXCEPT !.known = engine'.known] /\ UNCHANGED config
  BY <1>0 DEF Blocks!NewPayload, BlockTypes, ReplayType
<1>2. /\ UNCHANGED <<config, Updates, engine.head>> /\ replay'.at = "forkchoice"
      /\ UNCHANGED <<replay.position, replay.pending, replay.gap_remaining, replay.due, replay.index,
                   replay.branch, replay.fork, replay.submitted, replay.prev, replay.block, replay.forkchoice, replay.finalized>>
  BY <1>0, <1>1 DEF BlockTypes, ReplayType, Updates
<1>3. (Forking <=> Forking') /\ (Replaying <=> Replaying') /\ Submitting /\ Submitting' /\ (Forking \/ Replaying)
      /\ (Forking <=> replay.block[2] # 0)
  BY <1>0, <1>2 DEF Replaying, Forking, Submitting
<1>4. BlockTypes'
  BY <1>0, <1>1, <1>2, <1>3, SameUpdates DEF BlockTypes, ReplayType, Updates
<1>5. replay.block = <<replay.block[1], replay.block[2]>>
  BY SMTT(60), <1>0, <1>3 DEF BlockTypes, ReplayType, Block
<1>6. replay'.block = <<Base + replay.position - Len(replay.due) + replay.index,
                        IF Forking THEN replay.fork ELSE 0>>
  BY <1>0, <1>2, <1>3, <1>5 DEF PositionInv
<1>7. /\ Marked(replay'.forkchoice.safe, Base + replay.submitted + (IF Forking THEN 0 ELSE 1))
      /\ Marked(replay'.forkchoice.finalized, Base + replay.submitted + (IF Forking THEN 0 ELSE 1))
      /\ replay'.finalized # Blocks!None =>
          Marked(replay'.finalized, Base + replay.submitted + (IF ~Forking THEN 1 ELSE 0))
  BY <1>0, <1>2, <1>3 DEF MarkInv
<1> QED BY <1>2, <1>3, <1>4, <1>6, <1>7 DEF Moves

\* A line is due at once, is kept for its batch, or completes it.
NextLine == Lines[replay.position + 1]
Reads ==
    /\ replay.at = "read" /\ replay.position < Len(Lines) /\ UNCHANGED <<config, engine>>
    /\ replay'.position = replay.position + 1 /\ replay'.index = 1
    /\ UNCHANGED <<replay.submitted, replay.prev, replay.finalized>>
    /\ replay'.txs = replay.txs
Takes ==
    /\ replay'.at \in {"canonical", "mempool"} /\ replay'.due = <<NextLine>>
    /\ UNCHANGED <<replay.pending, replay.branch, replay.fork>>
    /\ \/ config.depth = 0 /\ replay'.gap_remaining = replay.gap_remaining
       \/ replay.gap_remaining > 0 /\ replay'.gap_remaining = replay.gap_remaining - 1
Keeps ==
    /\ replay'.at = "read" /\ replay'.pending = Append(replay.pending, NextLine)
    /\ replay.gap_remaining = 0 /\ config.depth > 0 /\ Len(replay.pending) + 1 < config.depth
    /\ UNCHANGED <<replay.gap_remaining, replay.due, replay.branch, replay.fork>>
Forks ==
    /\ replay.gap_remaining = 0 /\ config.depth > 0 /\ Len(replay.pending) + 1 >= config.depth
    /\ replay'.at = "build" /\ replay'.due = Append(replay.pending, NextLine)
    /\ replay'.pending = <<>> /\ replay'.gap_remaining = config.gap /\ replay'.fork = replay.fork + 1
    /\ replay'.branch = Blocks!Canonical(replay'.due[1].number - 1)

LEMMA ReadTypes ==
    ASSUME BlockTypes, UNCHANGED <<config, engine>>, replay' \in ReplayType', ~Submitting'
    PROVE  BlockTypes'
BY SameUpdates DEF BlockTypes, Updates

LEMMA ReadsNext ==
    ASSUME BlockTypes, Blocks!ReadLine, ~Blocks!Fails
    PROVE  \E next, at :
             /\ replay' = [next EXCEPT !.position = replay.position + 1, !.index = 1]
             /\ config.depth > 0 => next = Blocks!Push(NextLine)
             /\ ~(config.depth > 0) => next = [replay EXCEPT !.due = <<NextLine>>, !.at = at]
             /\ at \in {"canonical", "mempool"}
<1> DEFINE line == config.lines[replay.position + 1]
           next == CASE config.depth > 0 -> Blocks!Push(line)
                     [] config.mempool -> [replay EXCEPT !.due = <<line>>, !.at = "mempool"]
                     [] OTHER -> [replay EXCEPT !.due = <<line>>, !.at = "canonical"]
           at == IF config.mempool THEN "mempool" ELSE "canonical"
<1>1. IF line.big /\ (config.depth > 0 \/ config.mempool) THEN Blocks!Fails
           ELSE replay' = [next EXCEPT !.position = replay.position + 1, !.index = 1]
  BY Zenon DEF Blocks!ReadLine
<1> HIDE DEF next, at
<1>2. replay' = [next EXCEPT !.position = replay.position + 1, !.index = 1]
  BY <1>1
<1>3. config \in BlockRuns /\ (config.mempool => ~(config.depth > 0))
  BY BlockInputs DEF BlockTypes, ReplayType
<1>4. NextLine = line
  BY DEF NextLine, Lines
<1> HIDE DEF line
<1>5. config.depth > 0 => next = Blocks!Push(NextLine)
  BY <1>3, <1>4 DEF next
<1>6. ~(config.depth > 0) => next = [replay EXCEPT !.due = <<NextLine>>, !.at = at]
  BY <1>4 DEF next, at
<1>7. at \in {"canonical", "mempool"}
  BY DEF at
<1> QED BY <1>2, <1>5, <1>6, <1>7

LEMMA ReadStep ==
    ASSUME BlockInv, Blocks!ReadLine, ~Blocks!Fails
    PROVE  Reads /\ BlockTypes' /\ (Takes \/ Keeps \/ Forks)
<1>0. BlockTypes /\ replay.at = "read" /\ replay.position < Len(Lines) /\ UNCHANGED <<config, engine>>
      /\ ~Failed /\ PositionInv /\ BatchInv
  BY DEF BlockInv, Blocks!ReadLine, Failed, Lines
<1>a. config \in BlockRuns /\ replay.pending \in Seq(LineSet) /\ replay.position \in Nat
  BY <1>0, BlockInputs DEF BlockTypes, ReplayType
<1>b. config.depth \in Nat /\ config.gap \in Nat /\ (config.mempool => config.depth = 0) /\ Lines \in Seq(LineSet)
      /\ Base \in Int /\ \A i \in 1 .. Len(Lines) : Lines[i].number = Base + i
  <2>1. Lines # <<>>
    BY <1>0, <1>a, BlockInputs
  <2> QED BY <1>a, <2>1, BlockInputs
<1>c. NextLine \in LineSet /\ NextLine = config.lines[replay.position + 1]
  BY <1>0, <1>a, <1>b DEF NextLine, LineSet, Lines
<1>d. UNCHANGED <<config, Updates>> /\ LineSet' = LineSet /\ Lines' = Lines
  BY <1>0, SameUpdates DEF Updates
<1>f. /\ <<NextLine>> \in Seq(LineSet) /\ Append(replay.pending, NextLine) \in Seq(LineSet)
      /\ replay.position + 1 \in 0 .. Len(Lines) /\ config' = config
  BY SMTT(60), <1>0, <1>a, <1>b, <1>c
<1>g. replay \in ReplayType /\ BlockTypes
  BY SMTT(60), <1>0 DEF BlockTypes
<1>e. PICK next, at :
             /\ replay' = [next EXCEPT !.position = replay.position + 1, !.index = 1]
             /\ config.depth > 0 => next = Blocks!Push(NextLine)
             /\ ~(config.depth > 0) => next = [replay EXCEPT !.due = <<NextLine>>, !.at = at]
             /\ at \in {"canonical", "mempool"}
  BY <1>0, ReadsNext
<1>1. CASE ~(config.depth > 0)
  <2>0. config.depth = 0
    BY <1>1, <1>b
  <2>1. replay' = [[replay EXCEPT !.due = <<NextLine>>, !.at = at] EXCEPT !.position = replay.position + 1, !.index = 1]
    BY <1>e, <1>1
  <2>2. Reads
    BY <1>0, <2>1 DEF Reads, BlockTypes, ReplayType
  <2>3. Takes
    BY <1>0, <1>e, <2>0, <2>1 DEF Takes, BlockTypes, ReplayType
  <2>a. replay' \in ReplayType'
    <3>1. at \in {"canonical", "mempool"}
      BY <1>e
    <3> QED BY ZenonT(60), <1>d, <1>f, <1>g, <2>1, <3>1 DEF ReplayType
  <2>b. ~Submitting'
    BY <2>3 DEF Submitting, Takes
  <2>4. BlockTypes'
    BY <1>0, <1>g, <2>a, <2>b, ReadTypes
  <2> QED BY <2>2, <2>3, <2>4
<1>2. CASE config.depth > 0
  <2>0. replay' = [Blocks!Push(NextLine) EXCEPT !.position = replay.position + 1, !.index = 1]
    BY <1>e, <1>2
  <2>1. CASE replay.gap_remaining > 0
    <3>1. Blocks!Push(NextLine) = [replay EXCEPT !.gap_remaining = @ - 1, !.due = <<NextLine>>, !.at = "canonical"]
      BY <2>1 DEF Blocks!Push
    <3>2. replay' = [[replay EXCEPT !.gap_remaining = @ - 1, !.due = <<NextLine>>, !.at = "canonical"] EXCEPT !.position = replay.position + 1, !.index = 1]
      BY <2>0, <3>1
    <3>3. Reads
      BY <1>0, <3>2 DEF Reads, BlockTypes, ReplayType
    <3>4. Takes
      BY <1>0, <2>1, <3>2 DEF Takes, BlockTypes, ReplayType
    <3>a. replay' \in ReplayType'
      <4>1. replay.gap_remaining - 1 \in 0 .. config.gap
        BY <1>b, <1>g, <2>1 DEF ReplayType
      <4> QED BY ZenonT(60), <1>d, <1>f, <1>g, <3>2, <4>1 DEF ReplayType
    <3>b. ~Submitting'
      BY <3>4 DEF Submitting, Takes
    <3>5. BlockTypes'
      BY <1>0, <1>g, <3>a, <3>b, ReadTypes
    <3> QED BY <3>3, <3>4, <3>5
  <2>2. CASE replay.gap_remaining = 0 /\ Len(replay.pending) + 1 < config.depth
    <3>1. Blocks!Push(NextLine) = [replay EXCEPT !.pending = Append(@, NextLine)]
      BY <2>2 DEF Blocks!Push
    <3>2. replay' = [[replay EXCEPT !.pending = Append(@, NextLine)] EXCEPT !.position = replay.position + 1, !.index = 1]
      BY <2>0, <3>1
    <3>3. Reads
      BY <1>0, <3>2 DEF Reads, BlockTypes, ReplayType
    <3>4. Keeps
      BY <1>0, <1>2, <2>2, <3>2 DEF Keeps, BlockTypes, ReplayType
    <3>a. replay' \in ReplayType'
      BY ZenonT(60), <1>d, <1>f, <1>g, <3>2 DEF ReplayType
    <3>b. ~Submitting'
      BY <3>4 DEF Submitting, Keeps
    <3>5. BlockTypes'
      BY <1>0, <1>g, <3>a, <3>b, ReadTypes
    <3> QED BY <3>3, <3>4, <3>5
  <2>3. CASE replay.gap_remaining = 0 /\ ~(Len(replay.pending) + 1 < config.depth)
    <3> DEFINE batch == Append(replay.pending, NextLine)
               branch == Blocks!Canonical(batch[1].number - 1)
    <3>1. /\ batch \in Seq(LineSet) /\ branch \in Block
      <4>1. batch \in Seq(LineSet) /\ Len(batch) > 0
        BY <1>a, <1>c
      <4>2. batch[1] \in LineSet
        BY <4>1
      <4>3. batch[1].number \in Int
        <5>1. DOMAIN Lines = 1 .. Len(Lines) /\ Base \in Int
          BY <1>b
        <5>2. PICK i \in 1 .. Len(Lines) : batch[1] = Lines[i]
          BY <4>2, <5>1 DEF LineSet
        <5>3. Lines[i].number = Base + i
          BY <1>b, <5>2
        <5> QED BY <5>1, <5>2, <5>3
      <4> QED BY <4>1, <4>3, CanonicalIs
    <3>2. Blocks!Push(NextLine) = [replay EXCEPT !.gap_remaining = config.gap, !.pending = <<>>, !.due = batch,
                              !.at = "build", !.branch = branch, !.parent = branch, !.fork = replay.fork + 1, !.index = 1]
      <4>1. Blocks!Push(NextLine) =
              CASE replay.gap_remaining > 0 ->
                     [replay EXCEPT !.gap_remaining = @ - 1, !.due = <<NextLine>>, !.at = "canonical"]
                [] replay.gap_remaining = 0 /\ Len(replay.pending) + 1 < config.depth ->
                     [replay EXCEPT !.pending = Append(@, NextLine)]
                [] OTHER -> [replay EXCEPT !.gap_remaining = config.gap, !.pending = <<>>, !.due = batch,
                              !.at = "build", !.branch = branch, !.parent = branch, !.fork = replay.fork + 1, !.index = 1]
        BY Zenon DEF Blocks!Push
      <4> HIDE DEF batch, branch
      <4> QED BY <4>1, <2>3
    <3> HIDE DEF batch, branch
    <3>3. replay' = [[replay EXCEPT !.gap_remaining = config.gap, !.pending = <<>>, !.due = batch,
                              !.at = "build", !.branch = branch, !.parent = branch, !.fork = replay.fork + 1, !.index = 1]
                        EXCEPT !.position = replay.position + 1, !.index = 1]
      BY <2>0, <3>2
    <3>4. Reads
      BY <1>0, <3>3 DEF Reads, BlockTypes, ReplayType
    <3>5. /\ replay'.at = "build" /\ replay'.due = batch /\ replay'.branch = branch
          /\ replay'.pending = <<>> /\ replay'.gap_remaining = config.gap /\ replay'.fork = replay.fork + 1
      BY <1>0, <3>3 DEF BlockTypes, ReplayType
    <3>6. Forks
      <4>1. Len(replay.pending) + 1 >= config.depth
        BY <1>a, <1>b, <2>3
      <4> QED BY <1>2, <2>3, <3>5, <4>1 DEF Forks, batch, branch
    <3>a. replay' \in ReplayType'
      <4>1. config.gap \in 0 .. config.gap /\ replay.fork + 1 \in Nat /\ <<>> \in Seq(LineSet)
        BY <1>b, <1>g DEF ReplayType
      <4>2. replay \in ReplayType /\ config' = config /\ Lines' = Lines /\ LineSet' = LineSet
            /\ replay.position + 1 \in 0 .. Len(Lines)
        BY <1>d, <1>f, <1>g
      <4> QED BY ZenonT(150), <3>1, <3>3, <4>1, <4>2 DEF ReplayType
    <3>b. ~Submitting'
      BY <3>5 DEF Submitting
    <3>7. BlockTypes'
      BY <1>0, <1>g, <3>a, <3>b, ReadTypes
    <3> QED BY <3>4, <3>6, <3>7
  <2>4. replay.gap_remaining \in Nat
    BY <1>0, <1>b DEF BlockTypes, ReplayType
  <2> QED BY <2>1, <2>2, <2>3, <2>4, <1>a, <1>b
<1> QED BY <1>1, <1>2

LEMMA ReadFacts ==
    ASSUME BlockInv, Reads
    PROVE  /\ BlockTypes /\ PositionInv /\ CanonicalInv /\ MarkInv /\ ForkInv /\ BatchInv
           /\ Lines' = Lines /\ LineSet' = LineSet /\ Base' = Base /\ Updates' = Updates /\ engine' = engine /\ config' = config
           /\ \A k : UpdatesOf(k)' = UpdatesOf(k)
           /\ Blocks!FinalizedIsKept'
           /\ ~Submitting /\ ~Forking /\ ~Replaying
           /\ replay.due = <<>> /\ replay.branch = Blocks!None /\ Len(replay.pending) \in Nat
           /\ replay.submitted = replay.position - Len(replay.pending)
           /\ replay.position \in Nat /\ Len(Lines) \in Nat /\ config.depth \in Nat /\ config.gap \in Nat
           /\ replay.gap_remaining \in 0 .. config.gap /\ replay.fork \in Nat /\ replay.submitted \in Nat
           /\ replay.pending \in Seq(LineSet) /\ Base \in Int
           /\ replay.position + 1 \in 1 .. Len(Lines) /\ NextLine \in LineSet
<1>1. replay.at = "read" /\ ~Failed /\ engine' = engine /\ config' = config /\ replay.position < Len(Lines)
  BY DEF Reads, Failed
<1>2. /\ BlockTypes /\ PositionInv /\ CanonicalInv /\ MarkInv /\ ForkInv /\ BatchInv
  BY <1>1 DEF BlockInv
<1>3. Updates' = Updates
  BY <1>1 DEF Updates
<1>4. /\ Lines' = Lines /\ LineSet' = LineSet /\ Base' = Base
      /\ \A k : UpdatesOf(k)' = UpdatesOf(k)
      /\ Blocks!FinalizedIsKept'
  BY <1>1, <1>3, SameUpdates DEF BlockInv
<1>5. ~Submitting /\ ~Forking /\ ~Replaying
  BY <1>1 DEF Submitting, Forking, Replaying
<1>6. replay \in ReplayType /\ config \in BlockRuns
  BY <1>2 DEF BlockTypes
<1>7. config.depth \in Nat /\ config.gap \in Nat /\ Len(Lines) \in Nat /\ Lines \in Seq(LineSet)
  BY <1>6, BlockInputs
<1>8. /\ replay.position \in Nat /\ replay.gap_remaining \in 0 .. config.gap /\ replay.fork \in Nat /\ replay.submitted \in Nat
      /\ replay.pending \in Seq(LineSet) /\ Len(replay.pending) \in Nat
  BY <1>6, <1>7 DEF ReplayType
<1>9. replay.position + 1 \in 1 .. Len(Lines) /\ NextLine \in LineSet /\ Base \in Int
  <2>1. replay.position + 1 \in 1 .. Len(Lines) /\ NextLine \in LineSet
    BY SMTT(60), <1>1, <1>7, <1>8 DEF NextLine, LineSet
  <2>2. Lines # <<>>
    BY <2>1
  <2> QED BY <1>6, <2>1, <2>2, BlockInputs
<1>10. replay.due = <<>> /\ replay.branch = Blocks!None
  BY <1>1, <1>2 DEF PositionInv
<1>11. replay.submitted = replay.position - Len(replay.pending)
  <2>1. replay.submitted = replay.position - Len(replay.pending) - Len(replay.due) + 0
    BY <1>2, <1>5 DEF PositionInv
  <2>2. Len(replay.due) = 0
    BY <1>10
  <2> QED BY <1>8, <2>1, <2>2
<1> QED BY <1>1, <1>2, <1>3, <1>4, <1>5, <1>7, <1>8, <1>9, <1>10, <1>11

LEMMA ReadNumbers ==
    ASSUME BlockInv, Reads
    PROVE  /\ replay.position \in Nat /\ Len(Lines) \in Nat /\ config.depth \in Nat /\ config.gap \in Nat
           /\ Len(replay.pending) \in Nat /\ replay.gap_remaining \in 0 .. config.gap /\ replay.fork \in Nat
           /\ replay.submitted = replay.position - Len(replay.pending)
           /\ replay.position < Len(Lines) /\ replay'.position = replay.position + 1
           /\ config' = config /\ Lines' = Lines
BY ReadFacts DEF Reads

LEMMA Product ==
    ASSUME NEW f \in Nat, NEW d \in Nat
    PROVE  f * d \in Nat /\ (f + 1) * d = f * d + d
OBVIOUS

\* What remains of the batch grows by one.
LEMMA BatchGrows ==
    ASSUME BlockInv, Reads, config.depth > 0, UNCHANGED replay.fork, Remains' = Remains + 1,
           Remains + 1 \in 0 .. config.depth + config.gap - 1,
           replay'.gap_remaining > 0 => replay'.pending = <<>>, Len(replay'.pending) < config.depth
    PROVE  BatchInv'
<1>1. PICK rest \in 0 .. config.depth + config.gap - 1 :
            /\ replay.position + config.gap = replay.fork * (config.depth + config.gap) + rest
            /\ replay.position < Len(Lines) => rest = Remains
  BY ReadFacts DEF BatchInv
<1>2. rest = Remains /\ replay'.position = replay.position + 1 /\ replay'.fork = replay.fork
      /\ config' = config /\ config.depth \in Nat /\ config.gap \in Nat /\ replay.fork \in Nat
      /\ replay.position \in Nat
  BY <1>1, ReadNumbers
<1> DEFINE product == replay.fork * (config.depth + config.gap)
<1>3. product \in Nat
  BY <1>2, Product
<1>4. replay.position + config.gap = product + rest
  BY <1>1
<1>5. product = replay'.fork * (config'.depth + config'.gap)
  BY <1>2
<1> HIDE DEF product
<1>6. replay.position + 1 + config.gap = product + (rest + 1)
  BY SMTT(60), <1>2, <1>3, <1>4
<1>7. \E other \in 0 .. config'.depth + config'.gap - 1 :
            /\ replay'.position + config'.gap = replay'.fork * (config'.depth + config'.gap) + other
            /\ replay'.position < Len(Lines') => other = Remains'
  <2>1. rest + 1 \in 0 .. config'.depth + config'.gap - 1 /\ rest + 1 = Remains'
    BY <1>2
  <2>2. replay'.position + config'.gap = replay'.fork * (config'.depth + config'.gap) + (rest + 1)
    BY <1>2, <1>5, <1>6
  <2> QED BY <2>1, <2>2
<1>8. config'.depth > 0 /\ config'.depth = config.depth
  BY <1>2
<1>9. ~(config'.depth = 0)
  BY <1>2, <1>8
<1> QED BY <1>7, <1>8, <1>9 DEF BatchInv

LEMMA TakesKeeps ==
    ASSUME BlockInv, Reads, BlockTypes', Takes
    PROVE  BlockInv'
<1>1. /\ replay'.at \in {"canonical", "mempool"} /\ replay'.due = <<NextLine>> /\ replay'.index = 1
      /\ replay'.position = replay.position + 1 /\ replay'.pending = replay.pending
      /\ UNCHANGED <<replay.branch, replay.fork, replay.submitted, replay.prev, replay.finalized>>
  BY DEF Reads, Takes
<1>2. replay.pending = <<>> /\ Len(replay.pending) = 0
  BY ReadFacts DEF Takes, BatchInv
<1>3. ~Submitting' /\ ~Forking' /\ Replaying' /\ ~Failed'
  BY <1>1 DEF Submitting, Forking, Replaying, Failed
<1>4. PositionInv'
  <2>1. Len(replay'.due) = 1 /\ DOMAIN replay'.due = {1} /\ replay'.due[1] = NextLine
    BY <1>1
  <2>2. Lines[replay'.position - Len(replay'.due) + 1] = NextLine
    <3>1. replay'.position - Len(replay'.due) + 1 = replay.position + 1
      BY <1>1, <2>1, ReadFacts
    <3> QED BY <3>1 DEF NextLine
  <2>3. replay'.submitted = replay'.position - Len(replay'.pending) - Len(replay'.due) + (replay'.index - 1)
    BY <1>1, <1>2, <2>1, ReadFacts
  <2>4. Len(replay'.pending) + Len(replay'.due) <= replay'.position /\ DOMAIN replay'.pending = {}
    BY <1>1, <1>2, <2>1, ReadFacts
  <2>5. replay'.branch = Blocks!None /\ replay'.at \notin {"read", "done"} /\ replay'.index \in DOMAIN replay'.due
    BY <1>1, <2>1, ReadFacts
  <2> QED BY SMTT(60), <1>1, <1>2, <1>3, <2>1, <2>2, <2>3, <2>4, <2>5, ReadFacts DEF PositionInv
<1>5. CanonicalInv'
  BY ZenonT(60), <1>1, ReadFacts DEF CanonicalInv
<1>6. MarkInv'
  BY <1>1, <1>3, ReadFacts DEF MarkInv, Marked
<1>7. ForkInv'
  BY <1>1, <1>3, ReadFacts DEF ForkInv, Built, IsRun
<1>8. BatchInv'
  <2>1. CASE config.depth = 0
    BY <1>1, <2>1, ReadFacts DEF BatchInv, Takes
  <2>2. CASE config.depth # 0
    <3>1. config.depth > 0 /\ replay.gap_remaining > 0 /\ replay'.gap_remaining = replay.gap_remaining - 1
      BY <2>2, ReadNumbers DEF Takes
    <3>2. Remains = config.gap - replay.gap_remaining + 0 /\ Remains' = config.gap - (replay.gap_remaining - 1) + 0
      BY <1>1, <1>2, <3>1, ReadNumbers DEF Remains
    <3>3. Remains' = Remains + 1 /\ Remains + 1 \in 0 .. config.depth + config.gap - 1
      <4>1. \A g, r, d \in Nat : r > 0 /\ r <= g /\ d > 0 =>
               g - (r - 1) + 0 = (g - r + 0) + 1 /\ (g - r + 0) + 1 \in 0 .. d + g - 1
        OBVIOUS
      <4>2. config.gap \in Nat /\ replay.gap_remaining \in Nat /\ config.depth \in Nat /\ replay.gap_remaining <= config.gap
        BY ReadNumbers
      <4> QED BY <3>1, <3>2, <4>1, <4>2
    <3>4. Len(replay'.pending) < config.depth /\ replay'.pending = <<>>
      BY <1>1, <1>2, <3>1
    <3> QED BY <1>1, <3>1, <3>3, <3>4, BatchGrows
  <2> QED BY <2>1, <2>2
<1> QED BY <1>4, <1>5, <1>6, <1>7, <1>8, ReadFacts DEF BlockInv

LEMMA KeepsKeeps ==
    ASSUME BlockInv, Reads, BlockTypes', Keeps
    PROVE  BlockInv'
<1> DEFINE old == replay.pending
           new == Append(old, NextLine)
<1>1. /\ replay'.at = "read" /\ replay'.due = <<>> /\ replay'.index = 1 /\ replay'.pending = new
      /\ replay'.position = replay.position + 1
      /\ UNCHANGED <<replay.branch, replay.fork, replay.submitted, replay.prev, replay.finalized, replay.gap_remaining>>
      /\ replay.gap_remaining = 0 /\ config.depth > 0 /\ Len(old) + 1 < config.depth
  BY ReadFacts DEF Reads, Keeps
<1>2. /\ Len(new) = Len(old) + 1 /\ DOMAIN new = 1 .. Len(old) + 1
      /\ \A i \in 1 .. Len(old) : new[i] = old[i]
      /\ new[Len(old) + 1] = NextLine
  BY ReadFacts
<1> HIDE DEF new
<1>3. ~Submitting' /\ ~Forking' /\ ~Replaying' /\ ~Failed'
  BY <1>1 DEF Submitting, Forking, Replaying, Failed
<1>4. PositionInv'
  <2>1. Len(replay'.due) = 0 /\ DOMAIN replay'.due = {} /\ replay'.position = replay.position + 1 /\ Len(replay'.pending) = Len(old) + 1
    BY <1>1, <1>2
  <2>2. ASSUME NEW i \in DOMAIN new PROVE new[i] = Lines[replay'.position - Len(new) + i]
    <3>1. replay'.position - Len(new) + i = replay.position - Len(old) + i
      <4>1. i \in Int /\ Len(old) \in Int /\ replay.position \in Int
        BY <1>2, <2>2, ReadFacts
      <4>2. PICK p \in Int, n \in Int, j \in Int : p = replay.position /\ n = Len(old) /\ j = i
        BY <4>1
      <4>3. replay'.position = p + 1 /\ Len(new) = n + 1
        BY <1>1, <1>2, <4>2
      <4>4. p + 1 - (n + 1) + j = p - n + j
        OBVIOUS
      <4> QED BY <4>2, <4>3, <4>4
    <3>2. CASE i \in 1 .. Len(old)
      <4>1. PositionInv /\ DOMAIN old = 1 .. Len(old)
        BY ReadFacts
      <4>2. old[i] = Lines[replay.position - Len(old) + i]
        BY <3>2, <4>1 DEF PositionInv
      <4> QED BY <1>2, <3>1, <3>2, <4>2
    <3>3. CASE i = Len(old) + 1
      <4>1. replay.position - Len(old) + i = replay.position + 1
        BY <3>3, ReadFacts
      <4> QED BY <1>2, <3>1, <3>3, <4>1 DEF NextLine
    <3> QED BY <1>2, <2>2, <3>2, <3>3, ReadFacts
  <2>3. Len(old) + Len(replay.due) <= replay.position /\ Len(replay.due) = 0
    BY ReadFacts DEF PositionInv
  <2>4. Len(replay'.pending) + Len(replay'.due) <= replay'.position
    BY <2>1, <2>3, ReadFacts
  <2>5. replay'.submitted = replay'.position - Len(replay'.pending) - Len(replay'.due) + 0
    BY <1>1, <2>1, ReadFacts
  <2> QED BY <1>1, <1>3, <2>1, <2>2, <2>4, <2>5, ReadFacts DEF PositionInv
<1>5. CanonicalInv'
  <2>1. engine'.head = engine.head /\ (replay.submitted > 0 => engine.head = replay.prev)
    BY ReadFacts DEF CanonicalInv, Reads
  <2>2. CanonicalInv /\ Updates' = Updates /\ Base' = Base /\ (\A k : UpdatesOf(k)' = UpdatesOf(k))
    BY ReadFacts
  <2> QED BY ZenonT(60), <1>1, <2>1, <2>2 DEF CanonicalInv
<1>6. MarkInv'
  BY <1>1, <1>3, ReadFacts DEF MarkInv, Marked
<1>7. ForkInv'
  BY <1>1, <1>3, ReadFacts DEF ForkInv, Built, IsRun
<1>8. BatchInv'
  <2>1. Remains = config.gap - 0 + Len(old) /\ Remains' = config.gap - 0 + (Len(old) + 1)
    BY <1>1, <1>2, ReadNumbers DEF Remains
  <2>2. Remains' = Remains + 1 /\ Remains + 1 \in 0 .. config.depth + config.gap - 1
    <3>1. \A g, n, d \in Nat : n + 1 < d =>
             g - 0 + (n + 1) = (g - 0 + n) + 1 /\ (g - 0 + n) + 1 \in 0 .. d + g - 1
      OBVIOUS
    <3>2. config.gap \in Nat /\ Len(old) \in Nat /\ config.depth \in Nat
      BY ReadNumbers
    <3> QED BY <1>1, <2>1, <3>1, <3>2
  <2>3. Len(replay'.pending) < config.depth /\ ~(replay'.gap_remaining > 0)
    BY <1>1, <1>2
  <2> QED BY <1>1, <2>2, <2>3, BatchGrows
<1> QED BY <1>3, <1>4, <1>5, <1>6, <1>7, <1>8, ReadFacts DEF BlockInv

LEMMA Appended ==
    ASSUME NEW S, NEW s \in Seq(S), NEW x \in S
    PROVE  /\ Len(s) \in Nat /\ DOMAIN s = 1 .. Len(s)
           /\ Append(s, x) \in Seq(S) /\ Len(Append(s, x)) = Len(s) + 1 /\ DOMAIN Append(s, x) = 1 .. Len(s) + 1
           /\ \A i \in 1 .. Len(s) : Append(s, x)[i] = s[i]
           /\ Append(s, x)[Len(s) + 1] = x
OBVIOUS

LEMMA ForksBatch ==
    ASSUME BlockInv, Reads, Forks,
           NEW p \in Nat, NEW d \in Nat, p = replay.position, d = config.depth
    PROVE  /\ Len(replay'.due) = d /\ Len(replay.pending) = d - 1 /\ d > 0
           /\ DOMAIN replay'.due = 1 .. d
           /\ \A i \in 1 .. d : replay'.due[i] = Lines[p + 1 - d + i]
           /\ replay'.branch = <<Base + p + 1 - d, 0>>
           /\ d <= p + 1
           /\ replay.submitted = p + 1 - d
<1> DEFINE old == replay.pending
           new == Append(old, NextLine)
<1>0. PICK n \in Nat : n = Len(old)
  BY ReadFacts
<1>1. n = d - 1 /\ n <= p /\ d > 0 /\ replay'.due = new /\ old \in Seq(LineSet)
  <2>1. n < d /\ n + 1 >= d
    BY <1>0, ReadFacts DEF BatchInv, Forks
  <2>2. n + 0 <= p
    BY <1>0, ReadFacts DEF PositionInv
  <2>3. old \in Seq(LineSet) /\ replay'.due = new
    BY ReadFacts DEF Forks
  <2> QED BY <2>1, <2>2, <2>3
<1>2. /\ Len(new) = n + 1 /\ DOMAIN new = 1 .. n + 1
      /\ \A i \in 1 .. n : new[i] = old[i]
      /\ new[n + 1] = NextLine
  <2>1. NextLine \in LineSet
    BY ReadFacts
  <2>2. old \in Seq(LineSet) /\ Len(old) = n
    BY <1>0, <1>1
  <2> HIDE DEF old
  <2> QED BY <2>1, <2>2, Appended
<1>3. \A i \in 1 .. n : old[i] = Lines[p - n + i]
  <2>1. DOMAIN old = 1 .. n
    <3>1. NextLine \in LineSet
      BY ReadFacts
    <3> QED BY <1>0, <1>1, <3>1, Appended
  <2>2. PositionInv
    BY ReadFacts
  <2> QED BY <1>0, <2>1, <2>2 DEF PositionInv
<1> HIDE DEF new, old
<1>4. ASSUME NEW i \in 1 .. d PROVE new[i] = Lines[p + 1 - d + i]
  <2>1. p + 1 - d + i = p - n + i
    BY SMTT(60), <1>1
  <2>2. CASE i \in 1 .. n
    BY <1>2, <1>3, <2>1, <2>2
  <2>3. CASE i = n + 1
    <3>1. p - n + i = p + 1
      BY <1>1, <2>3
    <3> QED BY <1>2, <2>1, <2>3, <3>1 DEF NextLine
  <2> QED BY <1>1, <2>2, <2>3
<1>5. 1 \in 1 .. d /\ Len(new) = d /\ DOMAIN new = 1 .. d
  BY <1>1, <1>2
<1>6. new[1].number = Base + (p + 1 - d + 1) /\ Base \in Int
  <2>1. config \in BlockRuns /\ p + 1 \in 1 .. Len(Lines) /\ Base \in Int /\ Len(Lines) \in Nat
    BY ReadFacts DEF BlockTypes
  <2>2. p + 1 - d + 1 \in 1 .. Len(Lines)
    BY SMTT(60), <1>1, <2>1
  <2> QED BY <1>4, <1>5, <2>1, <2>2, BlockInputs
<1>7. replay'.branch = <<Base + p + 1 - d, 0>>
  <2>1. replay'.branch = <<new[1].number - 1, 0>>
    BY <1>1 DEF Forks, Blocks!Canonical
  <2>2. new[1].number - 1 = Base + p + 1 - d
    <3>1. \A x \in Int : x + (p + 1 - d + 1) - 1 = x + p + 1 - d
      OBVIOUS
    <3> QED BY <1>6, <3>1
  <2> QED BY <2>1, <2>2
<1>8. replay.submitted = p + 1 - d
  <2>1. replay.submitted = p - n
    BY <1>0, ReadNumbers DEF old
  <2> QED BY <1>1, <2>1
<1>9. d <= p + 1 /\ Len(old) = d - 1
  BY <1>0, <1>1
<1> QED BY <1>1, <1>4, <1>5, <1>7, <1>8, <1>9 DEF old

LEMMA RunKept ==
    ASSUME NEW k, NEW first, NEW n, UNCHANGED <<config, Updates>>
    PROVE  IsRun(k, first, n)' <=> IsRun(k, first, n)
BY SameUpdates DEF IsRun

LEMMA ForksKeeps ==
    ASSUME BlockInv, Reads, BlockTypes', Forks
    PROVE  BlockInv'
<1>0. PICK p \in Nat, d \in Nat, g \in Nat, f \in Nat :
        p = replay.position /\ d = config.depth /\ g = config.gap /\ f = replay.fork
  BY ReadNumbers
<1>1. /\ replay'.at = "build" /\ replay'.pending = <<>> /\ replay'.index = 1
      /\ replay'.position = p + 1 /\ replay'.fork = f + 1 /\ replay'.gap_remaining = g
      /\ UNCHANGED <<replay.submitted, replay.prev, replay.finalized>>
      /\ replay.gap_remaining = 0 /\ d > 0
  BY <1>0 DEF Reads, Forks
<1>2. ~Submitting' /\ Forking' /\ ~Replaying' /\ ~Failed'
  BY <1>1 DEF Submitting, Forking, Replaying, Failed
<1>3. /\ config' = config /\ Lines' = Lines /\ Base' = Base /\ Updates' = Updates /\ Base \in Int
      /\ \A k : UpdatesOf(k)' = UpdatesOf(k)
  BY ReadFacts
<1>a. /\ Len(replay'.due) = d /\ Len(replay.pending) = d - 1
      /\ DOMAIN replay'.due = 1 .. d
      /\ \A i \in 1 .. d : replay'.due[i] = Lines[p + 1 - d + i]
      /\ replay'.branch = <<Base + p + 1 - d, 0>>
      /\ d <= p + 1
      /\ replay.submitted = p + 1 - d
  BY <1>0, ForksBatch
<1>4. PositionInv'
  <2>1. replay'.branch # Blocks!None /\ replay'.branch = <<Base + (p + 1) - d, 0>>
    BY <1>3, <1>a DEF Blocks!None
  <2>2. Len(replay'.pending) = 0 /\ DOMAIN replay'.pending = {} /\ config'.depth = d
    BY <1>0, <1>1, <1>3
  <2>3. p + 1 - 0 - d + 0 = p + 1 - d /\ 0 + d <= p + 1 /\ 1 \in 1 .. d
    BY <1>1, <1>a
  <2> QED BY <1>1, <1>2, <1>3, <1>a, <2>1, <2>2, <2>3 DEF PositionInv
<1>5. CanonicalInv'
  <2>1. CanonicalInv
    BY ReadFacts
  <2> QED BY ZenonT(60), <1>1, <1>3, <2>1 DEF CanonicalInv
<1>6. MarkInv'
  <2>1. MarkInv /\ ~Submitting
    BY ReadFacts
  <2> QED BY <1>1, <1>2, <1>3, <2>1 DEF MarkInv, Marked
<1>7. ForkInv'
  <2>1. ForkInv /\ ~Forking
    BY ReadFacts
  <2>2. DOMAIN Updates = 1 .. Len(Updates) /\ Len(Updates) \in Nat
    BY SMTT(60), ReadFacts DEF BlockTypes, Updates
  <2>m. PICK m \in Nat : m = Len(Updates)
    BY <2>2
  <2>3. \A i \in DOMAIN Updates : Updates[i].head[2] \in 0 .. f
    BY <1>0, <2>1 DEF ForkInv
  <2>4. UpdatesOf(f + 1) = {}
    BY <2>3 DEF UpdatesOf
  <2>5. IsRun(f + 1, m + 1, 0)
    <3>1. m + 1 .. m + 1 + 0 - 1 = {}
      OBVIOUS
    <3> QED BY <2>4, <3>1 DEF IsRun
  <2>6. ASSUME NEW k \in 1 .. f PROVE \E first \in 1 .. m + 1 : IsRun(k, first, d)
    <3>1. \E first \in 1 .. Len(Updates) + 1 : IsRun(k, first, Built(k))
      BY <1>0, <2>1 DEF ForkInv
    <3>2. Built(k) = d
      BY <1>0, <2>1 DEF Built
    <3> QED BY <2>m, <3>1, <3>2
  <2>7. ASSUME NEW k \in 1 .. f + 1
        PROVE  \E first \in 1 .. m + 1 : IsRun(k, first, Built(k))'
    <3>1. CASE k = f + 1
      <4>1. Built(k)' = 0
        BY <1>1, <1>2, <3>1 DEF Built
      <4>2. IsRun(f + 1, m + 1, 0)'
        BY <1>3, <2>5, RunKept
      <4> QED BY <3>1, <4>1, <4>2
    <3>2. CASE k \in 1 .. f
      <4>1. k # f + 1
        BY <3>2
      <4>2. Built(k)' = d
        BY <1>0, <1>1, <1>3, <4>1 DEF Built
      <4>3. PICK first \in 1 .. m + 1 : IsRun(k, first, d)
        BY <2>6, <3>2
      <4>4. IsRun(k, first, d)'
        BY <1>3, <4>3, RunKept
      <4> QED BY <4>2, <4>4
    <3> QED BY <3>1, <3>2
  <2>8. \A i \in DOMAIN Updates : Updates[i].head[2] \in 0 .. f + 1
    BY <2>3
  <2>9. m - 1 + 2 = m + 1 /\ 1 - 1 = 0 /\ f + 1 > 0 /\ ~(1 > 1)
    OBVIOUS
  <2>10. IsRun(f + 1, m + 1, 0)'
    BY <1>3, <2>5, RunKept
  <2>11. Len(Updates') = m /\ Updates' = Updates
    BY <1>3, <2>m
  <2>12. \A k \in 1 .. f + 1 : \E first \in 1 .. m + 1 : IsRun(k, first, Built(k))'
    BY <2>7
  <2> QED BY <1>1, <2>8, <2>9, <2>10, <2>11, <2>12 DEF ForkInv
<1>8. BatchInv'
  <2>0. PICK product \in Nat : product = f * (d + g) /\ (f + 1) * (d + g) = product + (d + g)
    BY Product
  <2>1. PICK rest \in 0 .. d + g - 1 : p + g = product + rest /\ rest = Remains
    <3>1. BatchInv /\ config.depth > 0 /\ replay.position < Len(Lines)
      BY <1>0, <1>1, ReadFacts DEF Reads
    <3> QED BY <1>0, <2>0, <3>1 DEF BatchInv
  <2>2. rest = g - 0 + (d - 1)
    BY <1>0, <1>1, <1>a, <2>1 DEF Remains
  <2>3. p + 1 + g = product + (d + g) + 0
    BY <2>1, <2>2
  <2>4. Remains' = g - g + 0
    BY <1>0, <1>1, <1>3 DEF Remains
  <2>5. Remains' = 0 /\ 0 \in 0 .. d + g - 1
    BY <1>1, <2>4
  <2>6. p + 1 + g = (f + 1) * (d + g) + 0
    BY <2>0, <2>3
  <2>7. config'.depth = d /\ config'.gap = g /\ ~(d = 0) /\ Len(replay'.pending) < d
    BY <1>0, <1>1, <1>3
  <2>8. \E other \in 0 .. config'.depth + config'.gap - 1 :
            /\ replay'.position + config'.gap = replay'.fork * (config'.depth + config'.gap) + other
            /\ replay'.position < Len(Lines') => other = Remains'
    BY <1>1, <2>5, <2>6, <2>7
  <2> QED BY <1>1, <2>7, <2>8 DEF BatchInv
<1>9. Blocks!FinalizedIsKept'
  BY ReadFacts
<1> QED BY <1>4, <1>5, <1>6, <1>7, <1>8, <1>9 DEF BlockInv

LEMMA EndStep ==
    ASSUME BlockInv, Blocks!EndOfInput
    PROVE  BlockInv'
<1>1. /\ replay.at = "read" /\ ~Failed /\ engine' = engine /\ config' = config /\ replay.position = Len(Lines)
      /\ replay' = IF replay.pending = <<>> THEN [replay EXCEPT !.at = "done"]
                   ELSE [replay EXCEPT !.due = replay.pending, !.pending = <<>>, !.at = "canonical", !.index = 1]
  BY DEF Blocks!EndOfInput, Failed, Lines
<1>2. BlockTypes /\ PositionInv /\ CanonicalInv /\ MarkInv /\ ForkInv /\ BatchInv
  BY <1>1 DEF BlockInv
<1>3. ~Submitting /\ ~Forking /\ ~Replaying /\ replay.due = <<>> /\ replay.branch = Blocks!None
  BY <1>1, <1>2 DEF Submitting, Forking, Replaying, PositionInv
<1>4. Updates' = Updates
  BY <1>1 DEF Updates
<1>5. /\ Lines' = Lines /\ LineSet' = LineSet /\ Base' = Base
      /\ \A k : UpdatesOf(k)' = UpdatesOf(k)
      /\ Blocks!FinalizedIsKept'
  BY <1>1, <1>4, SameUpdates DEF BlockInv
<1>6. replay \in ReplayType /\ config \in BlockRuns
  BY <1>2 DEF BlockTypes
<1>7. replay.pending \in Seq(LineSet) /\ replay.position \in Nat /\ Len(Lines) \in Nat /\ config.depth \in Nat
  BY <1>6, BlockInputs DEF ReplayType
<1>8. PICK p \in Nat, n \in Nat : p = replay.position /\ n = Len(replay.pending)
  BY <1>7
<1>9. n <= p /\ replay.submitted = p - n /\ DOMAIN replay.pending = 1 .. n
  <2>1. n + 0 <= p /\ replay.submitted = p - n - 0 + 0
    BY <1>2, <1>3, <1>8 DEF PositionInv
  <2>2. DOMAIN replay.pending = 1 .. n
    BY <1>7, <1>8
  <2> QED BY <2>1, <2>2
<1>10. \A i \in 1 .. n : replay.pending[i] = Lines[p - n + i]
  BY <1>2, <1>8, <1>9 DEF PositionInv
<1>11. CASE replay.pending = <<>>
  <2>1. replay' = [replay EXCEPT !.at = "done"]
    BY <1>1, <1>11
  <2>2. /\ replay'.at = "done"
        /\ UNCHANGED <<replay.position, replay.pending, replay.gap_remaining, replay.due, replay.index,
                   replay.branch, replay.fork, replay.submitted, replay.prev, replay.finalized>>
    BY <1>6, <2>1 DEF ReplayType
  <2>3. ~Submitting' /\ ~Forking' /\ ~Replaying' /\ ~Failed'
    BY <2>2 DEF Submitting, Forking, Replaying, Failed
  <2>4. BlockTypes'
    <3>1. replay' \in ReplayType'
      BY ZenonT(60), <1>1, <1>5, <1>6, <2>1 DEF ReplayType
    <3> QED BY <1>1, <1>2, <2>3, <3>1, ReadTypes
  <2>5. PositionInv'
    <3>1. replay.submitted = replay.position - Len(replay.pending) - Len(replay.due) + 0
          /\ Len(replay.pending) + Len(replay.due) <= replay.position
      BY <1>2, <1>3 DEF PositionInv
    <3>2. DOMAIN replay.pending = {} /\ DOMAIN replay.due = {}
      BY <1>3, <1>11
    <3> QED BY <1>1, <1>3, <1>5, <1>11, <2>2, <2>3, <3>1, <3>2 DEF PositionInv
  <2>6. CanonicalInv'
    <3>1. engine'.head = engine.head /\ (replay.submitted > 0 => engine.head = replay.prev)
      BY <1>1, <1>2 DEF CanonicalInv
    <3>2. CanonicalInv
      BY <1>2
    <3> QED BY <1>4, <1>5, <2>2, <3>1, <3>2 DEF CanonicalInv
  <2>7. MarkInv'
    BY <1>2, <1>3, <1>4, <1>5, <2>2, <2>3 DEF MarkInv, Marked
  <2>8. ForkInv'
    BY <1>1, <1>2, <1>3, <1>4, <1>5, <2>2, <2>3 DEF ForkInv, Built, IsRun
  <2>9. BatchInv'
    BY <1>1, <1>2, <1>5, <2>2 DEF BatchInv, Remains
  <2> QED BY <1>5, <2>4, <2>5, <2>6, <2>7, <2>8, <2>9 DEF BlockInv
<1>12. CASE replay.pending # <<>>
  <2>1. replay' = [replay EXCEPT !.due = replay.pending, !.pending = <<>>, !.at = "canonical", !.index = 1]
    BY <1>1, <1>12
  <2>2. /\ replay'.at = "canonical" /\ replay'.due = replay.pending /\ replay'.pending = <<>> /\ replay'.index = 1
        /\ UNCHANGED <<replay.position, replay.gap_remaining,
                   replay.branch, replay.fork, replay.submitted, replay.prev, replay.finalized>>
    BY <1>6, <2>1 DEF ReplayType
  <2>3. ~Submitting' /\ ~Forking' /\ Replaying' /\ ~Failed'
    BY <2>2 DEF Submitting, Forking, Replaying, Failed
  <2>4. BlockTypes'
    <3>1. <<>> \in Seq(LineSet)
      OBVIOUS
    <3>2. replay' \in ReplayType'
      <4>1. config' = config /\ Lines' = Lines /\ LineSet' = LineSet /\ replay \in ReplayType
            /\ replay.pending \in Seq(LineSet)
        BY <1>1, <1>5, <1>6, <1>7
      <4> QED BY ZenonT(60), <2>1, <3>1, <4>1 DEF ReplayType
    <3> QED BY <1>1, <1>2, <2>3, <3>2, ReadTypes
  <2>5. PositionInv'
    <3>1. Len(replay'.due) = n /\ Len(replay'.pending) = 0 /\ replay'.position = p /\ DOMAIN replay'.pending = {}
          /\ DOMAIN replay'.due = 1 .. n /\ replay'.branch = Blocks!None
      BY <1>3, <1>8, <1>9, <2>2
    <3>2. n > 0
      BY <1>7, <1>8, <1>12
    <3>3. 0 + n <= p /\ p - 0 - n + (1 - 1) = p - n /\ 1 \in 1 .. n
      BY <1>9, <3>2
    <3>4. \A i \in 1 .. n : replay'.due[i] = Lines[p - n + i]
      BY <1>10, <2>2
    <3> QED BY <1>5, <1>9, <2>2, <2>3, <3>1, <3>3, <3>4 DEF PositionInv
  <2>6. CanonicalInv'
    <3>1. engine'.head = engine.head /\ (replay.submitted > 0 => engine.head = replay.prev)
      BY <1>1, <1>2 DEF CanonicalInv
    <3>2. CanonicalInv
      BY <1>2
    <3> QED BY <1>4, <1>5, <2>2, <3>1, <3>2 DEF CanonicalInv
  <2>7. MarkInv'
    BY <1>2, <1>3, <1>4, <1>5, <2>2, <2>3 DEF MarkInv, Marked
  <2>8. ForkInv'
    BY <1>1, <1>2, <1>3, <1>4, <1>5, <2>2, <2>3 DEF ForkInv, Built, IsRun
  <2>9. BatchInv'
    <3>1. ~(replay'.position < Len(Lines')) /\ Len(replay'.pending) = 0 /\ config' = config
          /\ replay'.position = replay.position /\ replay'.fork = replay.fork
      BY <1>1, <1>5, <1>7, <2>2
    <3> QED BY <1>2, <1>7, <2>2, <3>1 DEF BatchInv
  <2> QED BY <1>5, <2>4, <2>5, <2>6, <2>7, <2>8, <2>9 DEF BlockInv
<1> QED BY <1>11, <1>12

-----------------------------------------------------------------------------
(* Another update                                                          *)

UpdateType == [head : Block, safe : Block, finalized : Block]
Sends(u) == u \in UpdateType /\ Updates' = Append(Updates, u) /\ UNCHANGED config

LEMMA SendsOne ==
    ASSUME BlockTypes, NEW u, Sends(u), NEW m \in Nat, m = Len(Updates)
    PROVE  /\ Updates' \in Seq(UpdateType) /\ DOMAIN Updates = 1 .. m /\ DOMAIN Updates' = 1 .. m + 1
           /\ Len(Updates') = m + 1
           /\ \A i \in 1 .. m : Updates'[i] = Updates[i]
           /\ Updates'[m + 1] = u
           /\ \A i \in 1 .. m : Updates[i] \in UpdateType
           /\ config' = config /\ Lines' = Lines /\ LineSet' = LineSet /\ Base' = Base
<1>1. Updates \in Seq(UpdateType) /\ u \in UpdateType /\ Updates' = Append(Updates, u) /\ config' = config
  BY DEF BlockTypes, Updates, Sends, UpdateType
<1>2. /\ Append(Updates, u) \in Seq(UpdateType) /\ DOMAIN Updates = 1 .. m /\ DOMAIN Append(Updates, u) = 1 .. m + 1
      /\ Len(Append(Updates, u)) = m + 1
      /\ \A i \in 1 .. m : Append(Updates, u)[i] = Updates[i]
      /\ Append(Updates, u)[m + 1] = u
  <2> HIDE DEF UpdateType, Updates
  <2> QED BY <1>1, Appended
<1>3. \A i \in 1 .. m : Updates[i] \in UpdateType
  <2> HIDE DEF UpdateType, Updates
  <2> QED BY <1>1, <1>2
<1>4. Lines' = Lines /\ LineSet' = LineSet /\ Base' = Base
  BY <1>1 DEF Lines, LineSet, Base
<1> QED BY <1>1, <1>2, <1>3, <1>4

LEMMA SendsOf ==
    ASSUME BlockTypes, NEW u, Sends(u), NEW m \in Nat, m = Len(Updates), NEW k
    PROVE  /\ UpdatesOf(k) \subseteq 1 .. m
           /\ u.head[2] = k => UpdatesOf(k)' = UpdatesOf(k) \cup {m + 1}
           /\ u.head[2] # k => UpdatesOf(k)' = UpdatesOf(k)
<1>1. /\ DOMAIN Updates = 1 .. m /\ DOMAIN Updates' = 1 .. m + 1
      /\ \A i \in 1 .. m : Updates'[i] = Updates[i]
      /\ Updates'[m + 1] = u
  BY SendsOne
<1>2. 1 .. m + 1 = (1 .. m) \cup {m + 1}
  OBVIOUS
<1>3. UpdatesOf(k)' = {i \in 1 .. m + 1 : Updates'[i].head[2] = k} /\ UpdatesOf(k) = {i \in 1 .. m : Updates[i].head[2] = k}
  BY <1>1 DEF UpdatesOf
<1> QED BY <1>1, <1>2, <1>3

LEMMA UpdateCount == ASSUME BlockTypes PROVE Len(Updates) \in Nat /\ Updates \in Seq(UpdateType)
<1>1. Updates \in Seq(UpdateType)
  BY DEF BlockTypes, Updates, UpdateType
<1> QED BY <1>1

LEMMA RunStays ==
    ASSUME BlockTypes, NEW u, Sends(u), NEW k, NEW first \in Int, NEW n \in Nat, u.head[2] # k, IsRun(k, first, n)
    PROVE  IsRun(k, first, n)'
<1>1. PICK m \in Nat : m = Len(Updates)
  BY UpdateCount
<1>2. UpdatesOf(k)' = UpdatesOf(k) /\ UpdatesOf(k) \subseteq 1 .. m
  BY <1>1, SendsOf
<1>3. \A i \in 1 .. m : Updates'[i] = Updates[i]
  BY <1>1, SendsOne
<1>4. UpdatesOf(k) = first .. first + n - 1 /\ \A i \in UpdatesOf(k) : Updates[i].head[1] = Updates[first].head[1] + i - first
  BY DEF IsRun
<1>5. ASSUME NEW i \in UpdatesOf(k) PROVE Updates'[i].head[1] = Updates'[first].head[1] + i - first
  <2>1. first \in UpdatesOf(k)
    BY <1>4, <1>5
  <2> QED BY <1>2, <1>3, <1>4, <2>1
<1>6. UpdatesOf(k)' = first .. first + n - 1 /\ \A i \in UpdatesOf(k)' : Updates'[i].head[1] = Updates'[first].head[1] + i - first
  BY <1>2, <1>4, <1>5
<1> QED BY <1>6 DEF IsRun

LEMMA RunGrows ==
    ASSUME BlockTypes, NEW u, Sends(u), NEW k, NEW n \in Nat, NEW first \in Int, first + n = Len(Updates) + 1, u.head[2] = k,
           IsRun(k, first, n), n > 0 => u.head[1] = Updates[first].head[1] + n
    PROVE  /\ IsRun(k, first, n + 1)'
           /\ n = 0 => Updates'[first].head[1] = u.head[1]
           /\ n > 0 => Updates'[first].head[1] = Updates[first].head[1]
<1>1. PICK m \in Nat : m = Len(Updates)
  BY UpdateCount
<1>2. UpdatesOf(k)' = UpdatesOf(k) \cup {m + 1} /\ UpdatesOf(k) \subseteq 1 .. m
  BY <1>1, SendsOf
<1>3. /\ \A i \in 1 .. m : Updates'[i] = Updates[i]
      /\ Updates'[m + 1] = u
      /\ \A i \in 1 .. m : Updates[i] \in UpdateType
      /\ u \in UpdateType
  BY <1>1, SendsOne DEF Sends
<1>4. UpdatesOf(k) = first .. m /\ \A i \in UpdatesOf(k) : Updates[i].head[1] = Updates[first].head[1] + i - first
  <2>1. first + n - 1 = m
    BY <1>1
  <2> QED BY <1>1, <2>1 DEF IsRun
<1>5. UpdatesOf(k)' = first .. m + 1
  BY <1>1, <1>2, <1>4
<1>6. CASE n = 0
  <2>1. first = m + 1 /\ m + 1 .. m + 1 = {m + 1} /\ first + (n + 1) - 1 = m + 1
    BY <1>1, <1>6
  <2>2. u.head[1] \in Int
    BY <1>3 DEF UpdateType, Block
  <2>3. u.head[1] = u.head[1] + first - first
    <3>1. \A x, y \in Int : x = x + y - y
      OBVIOUS
    <3> QED BY <2>2, <3>1
  <2>4. \A i \in UpdatesOf(k)' : Updates'[i].head[1] = Updates'[first].head[1] + i - first
    BY <1>3, <1>5, <2>1, <2>3
  <2> QED BY <1>1, <1>3, <1>5, <1>6, <2>1, <2>4 DEF IsRun
<1>7. CASE n > 0
  <2>1. first \in UpdatesOf(k) /\ first \in 1 .. m /\ first + (n + 1) - 1 = m + 1 /\ n = m + 1 - first
    BY <1>1, <1>2, <1>4, <1>7
  <2>2. Updates[first].head[1] \in Int /\ u.head[1] = Updates[first].head[1] + n
    BY <1>1, <1>3, <1>7, <2>1 DEF UpdateType, Block
  <2>3. Updates[first].head[1] + n = Updates[first].head[1] + (m + 1) - first
    BY <2>1, <2>2
  <2>4. \A i \in UpdatesOf(k)' : Updates'[i].head[1] = Updates'[first].head[1] + i - first
    BY <1>2, <1>3, <1>4, <2>1, <2>2, <2>3
  <2> QED BY SMTT(60), <1>1, <1>3, <1>5, <1>7, <2>1, <2>4 DEF IsRun
<1> QED BY <1>6, <1>7

\* What a block of a fork is a descendant of does not change as the fork grows.
LEMMA BranchStays ==
    ASSUME BlockTypes, NEW u, Sends(u), NEW k, NEW first \in Int, NEW n \in Int, IsRun(k, first, n), UpdatesOf(k) # {}
    PROVE  Blocks!BranchOf(k)' = Blocks!BranchOf(k)
<1>1. PICK m \in Nat : m = Len(Updates)
  BY UpdateCount
<1>2. /\ UpdatesOf(k) \subseteq 1 .. m
      /\ u.head[2] = k => UpdatesOf(k)' = UpdatesOf(k) \cup {m + 1}
      /\ u.head[2] # k => UpdatesOf(k)' = UpdatesOf(k)
  BY <1>1, SendsOf
<1>3. \A i \in 1 .. m : Updates'[i] = Updates[i]
  BY <1>1, SendsOne
<1>4. UpdatesOf(k) = first .. first + n - 1 /\ first \in UpdatesOf(k) /\ n > 0
  BY DEF IsRun
<1>5. Blocks!BranchOf(k) = Updates[first].head[1] - 1
  BY <1>4, BranchIs
<1>6. /\ first \in UpdatesOf(k)' /\ UpdatesOf(k)' \in SUBSET Int
      /\ \A i \in UpdatesOf(k)' : first <= i
  BY <1>2, <1>4
<1>7. \A S \in SUBSET Int : S = UpdatesOf(k)' => Blocks!Min(S) = first
  BY <1>6, MinIs
<1>8. Blocks!BranchOf(k)' = Updates'[first].head[1] - 1
  <2>1. Blocks!BranchOf(k)' = Updates'[Blocks!Min(UpdatesOf(k)')].head[1] - 1
    BY DEF Blocks!BranchOf, UpdatesOf, Updates
  <2> QED BY <1>6, <1>7, <2>1
<1>9. first \in 1 .. m
  BY <1>2, <1>4
<1> QED BY <1>3, <1>5, <1>8, <1>9

KeptAt(j, i) == /\ Blocks!Descends(Updates[j].head, Updates[i].finalized)
                /\ Blocks!Descends(Updates[j].head, Updates[i].safe)

LEMMA KeptStep ==
    ASSUME BlockTypes, ForkInv, Blocks!FinalizedIsKept, NEW u, Sends(u), NEW top \in Int,
           \A i \in DOMAIN Updates : Marked(Updates[i].safe, top) /\ Marked(Updates[i].finalized, top),
           Marked(u.safe, top), Marked(u.finalized, top),
           NEW k, u.head[2] = k, k = 0 => top <= u.head[1],
           k # 0 => top <= Blocks!BranchOf(k)' /\ Blocks!BranchOf(k)' \in Int
    PROVE  Blocks!FinalizedIsKept'
<1>1. PICK m \in Nat : m = Len(Updates)
  BY UpdateCount
<1>2. /\ DOMAIN Updates = 1 .. m /\ DOMAIN Updates' = 1 .. m + 1
      /\ \A i \in 1 .. m : Updates'[i] = Updates[i]
      /\ Updates'[m + 1] = u
      /\ \A i \in 1 .. m : Updates[i] \in UpdateType
      /\ u \in UpdateType
  BY <1>1, SendsOne DEF Sends
<1>3. ASSUME NEW l, l # 0, UpdatesOf(l) # {} PROVE Blocks!BranchOf(l)' = Blocks!BranchOf(l)
  <2>1. PICK i \in DOMAIN Updates : Updates[i].head[2] = l
    BY <1>3 DEF UpdatesOf
  <2>2. l \in 0 .. replay.fork /\ replay.fork \in Nat
    BY <2>1 DEF ForkInv, BlockTypes, ReplayType
  <2>3. l \in 1 .. replay.fork
    BY <1>3, <2>2
  <2>4. PICK first \in 1 .. m + 1 : IsRun(l, first, Built(l))
    BY <1>1, <2>3 DEF ForkInv
  <2>5. Built(l) \in Int
    <3>1. replay \in ReplayType /\ config \in BlockRuns
      BY DEF BlockTypes
    <3>2. replay.index \in Nat /\ config.depth \in Nat
      BY <3>1, BlockInputs DEF ReplayType
    <3> QED BY <3>2 DEF Built
  <2> QED BY <1>3, <2>4, <2>5, BranchStays
<1>4. ASSUME NEW j \in 1 .. m, NEW i \in 1 .. j PROVE KeptAt(j, i)'
  <2>1. Updates'[j] = Updates[j] /\ Updates'[i] = Updates[i] /\ j \in UpdatesOf(Updates[j].head[2])
    BY <1>2 DEF UpdatesOf
  <2>2. PICK l : l = Updates[j].head[2]
    OBVIOUS
  <2>3. l # 0 => Blocks!BranchOf(l)' = Blocks!BranchOf(l)
    BY <1>3, <2>1, <2>2
  <2>4. KeptAt(j, i)
    BY <1>2 DEF KeptAt, Blocks!FinalizedIsKept, Updates
  <2> QED BY <2>1, <2>2, <2>3, <2>4 DEF KeptAt, Blocks!Descends
<1>5. ASSUME NEW i \in 1 .. m + 1 PROVE KeptAt(m + 1, i)'
  <2>1. PICK x \in Block, y \in Block :
          x = Updates'[i].finalized /\ y = Updates'[i].safe /\ Marked(x, top) /\ Marked(y, top)
    <3>1. CASE i \in 1 .. m
      BY <1>2, <3>1 DEF UpdateType
    <3>2. CASE i = m + 1
      BY <1>2, <3>2 DEF UpdateType
    <3> QED BY <3>1, <3>2
  <2>3. /\ x[2] = 0 /\ x[1] <= top /\ x[1] \in Int
        /\ y[2] = 0 /\ y[1] <= top /\ y[1] \in Int /\ u.head[1] \in Int
    BY <1>2, <2>1 DEF Marked, Block, UpdateType
  <2>4. k = 0 => x[1] <= u.head[1] /\ y[1] <= u.head[1]
    BY <2>3
  <2>5. k # 0 => x[1] <= Blocks!BranchOf(k)' /\ y[1] <= Blocks!BranchOf(k)'
    BY <2>3
  <2>6. Updates'[m + 1] = u
    BY <1>2
  <2> QED BY <2>1, <2>3, <2>4, <2>5, <2>6 DEF KeptAt, Blocks!Descends
<1>6. \A j \in DOMAIN Updates' : \A i \in 1 .. j : KeptAt(j, i)'
  <2>1. ASSUME NEW j \in 1 .. m + 1, NEW i \in 1 .. j PROVE KeptAt(j, i)'
    <3>1. CASE j \in 1 .. m
      BY <1>4, <3>1
    <3>2. CASE j = m + 1
      BY <1>5, <3>2
    <3> QED BY <3>1, <3>2
  <2> QED BY <1>2, <2>1
<1> QED BY <1>6 DEF Blocks!FinalizedIsKept, KeptAt, Updates

LEMMA ForkchoiceFacts ==
    ASSUME BlockInv, Blocks!Forkchoice, ~Blocks!Fails
    PROVE  /\ BlockTypes /\ PositionInv /\ CanonicalInv /\ MarkInv /\ ForkInv /\ BatchInv /\ Blocks!FinalizedIsKept
           /\ Submitting /\ replay \in ReplayType /\ config \in BlockRuns /\ UNCHANGED config
           /\ replay.at = "forkchoice" /\ ~Failed /\ replay.pending = <<>>
           /\ \E u : Sends(u) /\ u.head = replay.block /\ u.safe = replay.forkchoice.safe
                     /\ u.finalized = replay.forkchoice.finalized /\ u.head \in Block
                     /\ engine' = [engine EXCEPT !.head = u.head, !.updates = Append(Updates, u)]
                     /\ engine'.head = u.head
           /\ \E b \in Int, p \in Nat, d \in Nat, i \in Nat, n \in Nat, f \in Nat :
                /\ b = Base /\ p = replay.position /\ d = Len(replay.due) /\ i = replay.index
                /\ n = replay.submitted /\ f = replay.fork
                /\ i \in 1 .. d /\ DOMAIN replay.due = 1 .. d /\ d <= p
                /\ replay.block[1] = b + p - d + i
                /\ n = p - d + (IF replay.block[2] = 0 THEN i - 1 ELSE 0)
<1>1. replay.at = "forkchoice" /\ ~Failed /\ Submitting
  BY DEF Blocks!Forkchoice, Failed, Submitting
<1>2. /\ BlockTypes /\ PositionInv /\ CanonicalInv /\ MarkInv /\ ForkInv /\ BatchInv /\ Blocks!FinalizedIsKept
  BY <1>1 DEF BlockInv
<1>3. replay \in ReplayType /\ config \in BlockRuns /\ UNCHANGED config
  BY <1>2 DEF BlockTypes, Blocks!Forkchoice
<1>4. Forking \/ Replaying
  BY <1>1 DEF Forking, Replaying
<1>5. replay.pending = <<>> /\ replay.index \in DOMAIN replay.due
  BY <1>2, <1>4 DEF PositionInv
<1> DEFINE u == [head |-> replay.block, safe |-> replay.forkchoice.safe, finalized |-> replay.forkchoice.finalized]
<1>6. replay.block \in Block /\ replay.forkchoice \in [safe : Block, finalized : Block]
  BY <1>1, <1>2 DEF BlockTypes
<1>7. u \in UpdateType /\ u.head = replay.block /\ u.safe = replay.forkchoice.safe
      /\ u.finalized = replay.forkchoice.finalized /\ u.head \in Block
  BY <1>6 DEF UpdateType
<1>8. engine' = [engine EXCEPT !.head = replay.block, !.updates = Append(@, u)]
  BY DEF Blocks!Forkchoice
<1> HIDE DEF u
<1>9. /\ engine' = [engine EXCEPT !.head = u.head, !.updates = Append(Updates, u)]
      /\ engine'.head = u.head /\ Updates' = Append(Updates, u)
  BY <1>2, <1>7, <1>8 DEF BlockTypes, Updates
<1>10. Sends(u)
  BY <1>3, <1>7, <1>9 DEF Sends
<1>11. replay.position \in Nat /\ Len(replay.due) \in Nat /\ replay.index \in Nat /\ replay.submitted \in Nat
       /\ replay.fork \in Nat /\ DOMAIN replay.due = 1 .. Len(replay.due)
  BY <1>3, BlockInputs DEF ReplayType
<1>12. Base \in Int
  BY <1>2, <1>5, LineIs
<1>13. PICK b \in Int, p \in Nat, d \in Nat, i \in Nat, n \in Nat, f \in Nat :
                /\ b = Base /\ p = replay.position /\ d = Len(replay.due) /\ i = replay.index
                /\ n = replay.submitted /\ f = replay.fork
  BY <1>11, <1>12
<1>14. i \in 1 .. d /\ DOMAIN replay.due = 1 .. d
  BY <1>5, <1>11, <1>13
<1>15. 0 + d <= p /\ replay.block[1] = b + p - d + i
  BY <1>1, <1>2, <1>5, <1>13 DEF PositionInv
<1>16. Replaying <=> replay.block[2] = 0
  BY <1>1 DEF Replaying
<1>17. n = p - 0 - d + (IF replay.block[2] = 0 THEN i - 1 ELSE 0)
  BY <1>2, <1>5, <1>13, <1>16 DEF PositionInv
<1>18. n = p - d + (IF replay.block[2] = 0 THEN i - 1 ELSE 0) /\ d <= p
  BY <1>15, <1>17
<1>19. \E b1 \in Int, p1 \in Nat, d1 \in Nat, i1 \in Nat, n1 \in Nat, f1 \in Nat :
                /\ b1 = Base /\ p1 = replay.position /\ d1 = Len(replay.due) /\ i1 = replay.index
                /\ n1 = replay.submitted /\ f1 = replay.fork
                /\ i1 \in 1 .. d1 /\ DOMAIN replay.due = 1 .. d1 /\ d1 <= p1
                /\ replay.block[1] = b1 + p1 - d1 + i1
                /\ n1 = p1 - d1 + (IF replay.block[2] = 0 THEN i1 - 1 ELSE 0)
  BY <1>13, <1>14, <1>15, <1>18
<1> QED BY <1>1, <1>2, <1>3, <1>5, <1>7, <1>9, <1>10, <1>19

LEMMA SentTypes ==
    ASSUME BlockTypes, NEW u, Sends(u), engine' = [engine EXCEPT !.head = u.head, !.updates = Append(Updates, u)],
           replay' \in ReplayType', ~Submitting'
    PROVE  BlockTypes'
<1>1. PICK m \in Nat : m = Len(Updates)
  BY UpdateCount
<1>2. Updates' \in Seq(UpdateType) /\ config' = config /\ u.head \in Block
  BY <1>1, SendsOne DEF Sends, UpdateType
<1>3. engine \in [known : {engine.known}, head : Block \cup {Blocks!None}, updates : Seq(UpdateType)]
  BY DEF BlockTypes, UpdateType
<1>4. engine'.known = engine.known /\ Append(Updates, u) \in Seq(UpdateType)
  BY <1>2, <1>3 DEF Sends
<1>5. engine' \in [known : {engine.known}, head : Block \cup {Blocks!None}, updates : Seq(UpdateType)]
  BY <1>2, <1>3, <1>4
<1>6. (engine \in [known : {engine.known}, head : Block \cup {Blocks!None}, updates : Seq(UpdateType)])'
  BY <1>4, <1>5
<1> QED BY <1>2, <1>6 DEF BlockTypes, UpdateType

LEMMA BranchNext ==
    ASSUME NEW k, NEW n \in Nat, NEW first \in Int, n > 0, IsRun(k, first, n)'
    PROVE  Blocks!BranchOf(k)' = Updates'[first].head[1] - 1
<1>1. /\ first \in UpdatesOf(k)' /\ UpdatesOf(k)' \in SUBSET Int
      /\ \A i \in UpdatesOf(k)' : first <= i
  BY DEF IsRun
<1>2. \A S \in SUBSET Int : S = UpdatesOf(k)' => Blocks!Min(S) = first
  BY <1>1, MinIs
<1>3. Blocks!BranchOf(k)' = Updates'[Blocks!Min(UpdatesOf(k)')].head[1] - 1
  BY DEF Blocks!BranchOf, UpdatesOf, Updates
<1> QED BY <1>1, <1>2, <1>3

LEMMA ForkBlockStep ==
    ASSUME BlockInv, Blocks!Forkchoice, ~Blocks!Fails, replay.block[2] # 0
    PROVE  BlockInv'
<1>1. /\ BlockTypes /\ PositionInv /\ CanonicalInv /\ MarkInv /\ ForkInv /\ BatchInv /\ Blocks!FinalizedIsKept
      /\ Submitting /\ replay \in ReplayType /\ config \in BlockRuns /\ UNCHANGED config
      /\ replay.pending = <<>>
  BY ZenonT(60), ForkchoiceFacts
<1>2. PICK u : /\ Sends(u) /\ u.head = replay.block /\ u.safe = replay.forkchoice.safe
               /\ u.finalized = replay.forkchoice.finalized /\ u.head \in Block
               /\ engine' = [engine EXCEPT !.head = u.head, !.updates = Append(Updates, u)]
  BY ForkchoiceFacts
<1>3. PICK b \in Int, p \in Nat, d \in Nat, i \in Nat, n \in Nat, f \in Nat :
                /\ b = Base /\ p = replay.position /\ d = Len(replay.due) /\ i = replay.index
                /\ n = replay.submitted /\ f = replay.fork
                /\ i \in 1 .. d /\ DOMAIN replay.due = 1 .. d /\ d <= p
                /\ replay.block[1] = b + p - d + i
                /\ n = p - d
  <2>1. PICK b \in Int, p \in Nat, d \in Nat, i \in Nat, n \in Nat, f \in Nat :
                /\ b = Base /\ p = replay.position /\ d = Len(replay.due) /\ i = replay.index
                /\ n = replay.submitted /\ f = replay.fork
                /\ i \in 1 .. d /\ DOMAIN replay.due = 1 .. d /\ d <= p
                /\ replay.block[1] = b + p - d + i
                /\ n = p - d + (IF replay.block[2] = 0 THEN i - 1 ELSE 0)
    BY ForkchoiceFacts
  <2>2. n = p - d
    BY <2>1
  <2> QED BY <2>1, <2>2
<1>n. i \in 1 .. d /\ d <= p /\ n = p - d
  BY <1>3
<1>4. Forking /\ ~Replaying
  BY <1>1 DEF Forking, Replaying, Submitting
<1>5. u.head[2] = f /\ u.head[1] = b + p - d + i /\ f > 0
  <2>1. replay.block[2] = f
    BY <1>1, <1>3 DEF PositionInv
  <2> QED BY <1>2, <1>3, <2>1
<1>6. replay.branch # Blocks!None /\ replay.branch = <<b + p - d, 0>> /\ d = config.depth
  BY <1>1, <1>3, <1>4 DEF PositionInv
<1>7. PICK at \in {"build", "canonical"}, j \in Nat :
        /\ replay' = [replay EXCEPT !.at = at, !.index = j, !.parent = replay.block]
        /\ (at = "build" /\ j = i + 1 /\ i < d) \/ (at = "canonical" /\ j = 1 /\ i = d)
  <2>1. replay' = [Blocks!AfterFork EXCEPT !.parent = replay.block]
    BY DEF Blocks!Forkchoice
  <2>2. CASE i < d
    <3>1. Blocks!AfterFork = [replay EXCEPT !.at = "build", !.index = i + 1]
      BY <1>3, <2>2 DEF Blocks!AfterFork
    <3>2. replay' = [replay EXCEPT !.at = "build", !.index = i + 1, !.parent = replay.block]
      BY <2>1, <3>1
    <3>3. i + 1 \in Nat /\ "build" \in {"build", "canonical"}
      OBVIOUS
    <3> QED BY <2>2, <3>2, <3>3
  <2>3. CASE ~(i < d)
    <3>1. Blocks!AfterFork = [replay EXCEPT !.at = "canonical", !.index = 1]
      BY <1>3, <2>3 DEF Blocks!AfterFork
    <3>2. replay' = [replay EXCEPT !.at = "canonical", !.index = 1, !.parent = replay.block]
      BY <2>1, <3>1
    <3>3. i = d
      BY <1>3, <2>3
    <3> QED BY <3>2, <3>3
  <2> QED BY <2>2, <2>3
<1>8. /\ replay'.at = at /\ replay'.index = j
      /\ UNCHANGED <<replay.position, replay.pending, replay.gap_remaining, replay.due,
                   replay.branch, replay.fork, replay.submitted, replay.prev, replay.finalized>>
  BY <1>1, <1>7 DEF ReplayType
<1>9. ~Submitting' /\ ~Failed' /\ (Forking' <=> at = "build") /\ (Replaying' <=> at = "canonical")
  BY <1>7, <1>8 DEF Submitting, Failed, Forking, Replaying
<1>m. PICK m \in Nat : m = Len(Updates)
  BY <1>1, UpdateCount
<1>10. /\ DOMAIN Updates = 1 .. m /\ DOMAIN Updates' = 1 .. m + 1 /\ Len(Updates') = m + 1
       /\ \A k \in 1 .. m : Updates'[k] = Updates[k]
       /\ Updates'[m + 1] = u
       /\ Lines' = Lines /\ LineSet' = LineSet /\ Base' = Base
  BY <1>1, <1>2, <1>m, SendsOne
<1>11. BlockTypes'
  <2>1. at \in {"build", "canonical"} /\ config' = config /\ Lines' = Lines /\ LineSet' = LineSet
    BY <1>1, <1>7, <1>10
  <2>2. replay' \in ReplayType'
    BY ZenonT(60), <1>1, <1>7, <2>1 DEF ReplayType
  <2> QED BY <1>1, <1>2, <1>9, <2>2, SentTypes
<1>12. PositionInv'
  <2>1. j \in 1 .. d
    BY <1>3, <1>7
  <2>2. n = p - 0 - d + (IF at = "canonical" THEN j - 1 ELSE 0) /\ 0 + d <= p
    BY SMTT(60), <1>3, <1>7
  <2>3. Len(replay.pending) = 0 /\ DOMAIN replay.pending = {}
    BY <1>1
  <2>4. \A k \in 1 .. d : replay.due[k] = Lines[p - d + k]
    BY <1>1, <1>3 DEF PositionInv
  <2>5. /\ replay'.position = p /\ Len(replay'.due) = d /\ replay'.due = replay.due /\ replay'.index = j
        /\ replay'.submitted = n /\ Base' = b /\ Lines' = Lines /\ config'.depth = d /\ DOMAIN replay.due = 1 .. d
        /\ replay'.pending = <<>> /\ Len(replay'.pending) = 0 /\ DOMAIN replay'.pending = {}
        /\ replay'.branch # Blocks!None /\ replay'.branch = <<b + p - d, 0>>
        /\ replay'.at \notin {"read", "done"}
    BY <1>1, <1>3, <1>6, <1>7, <1>8, <1>10, <2>3
  <2> QED BY <1>9, <2>1, <2>2, <2>4, <2>5 DEF PositionInv
<1>13. CanonicalInv'
  <2>1. UpdatesOf(0)' = UpdatesOf(0) /\ UpdatesOf(0) \subseteq 1 .. m
    BY <1>1, <1>2, <1>5, <1>m, SendsOf
  <2>2. \A k \in UpdatesOf(0) : Updates'[k] = Updates[k]
    BY <1>10, <2>1
  <2>3. {Updates'[k].head : k \in UpdatesOf(0)'} = {Updates[k].head : k \in UpdatesOf(0)}
    BY <2>1, <2>2
  <2>4. CanonicalInv
    BY <1>1
  <2>5. \A k, l \in UpdatesOf(0)' : k < l => Updates'[k].head[1] < Updates'[l].head[1]
    BY <2>1, <2>2, <2>4 DEF CanonicalInv
  <2>6. Base' = Base /\ replay'.submitted = replay.submitted /\ replay'.at \notin {"read", "done"} /\ replay'.prev = replay.prev
    BY <1>7, <1>8, <1>10
  <2>7. {Blocks!Canonical(Base' + k) : k \in 1 .. replay'.submitted} = {Blocks!Canonical(Base + k) : k \in 1 .. replay.submitted}
    BY <2>6
  <2>8. {Updates'[k].head : k \in UpdatesOf(0)'} = {Blocks!Canonical(Base' + k) : k \in 1 .. replay'.submitted}
    BY <2>3, <2>4, <2>7 DEF CanonicalInv
  <2>9. replay'.prev = IF replay'.submitted = 0 THEN Blocks!None ELSE Blocks!Canonical(Base' + replay'.submitted)
    BY <2>4, <2>6 DEF CanonicalInv
  <2> QED BY <2>5, <2>6, <2>8, <2>9 DEF CanonicalInv
<1>14. /\ Marked(u.safe, b + n) /\ Marked(u.finalized, b + n)
       /\ \A k \in DOMAIN Updates : Marked(Updates[k].safe, b + n) /\ Marked(Updates[k].finalized, b + n)
       /\ replay.finalized # Blocks!None => Marked(replay.finalized, b + n)
  <2>1. b + n + 0 = b + n
    OBVIOUS
  <2> QED BY <1>1, <1>2, <1>3, <1>4, <2>1 DEF MarkInv
<1>15. MarkInv'
  <2>1. \A k \in 1 .. m + 1 : Marked(Updates'[k].safe, b + n) /\ Marked(Updates'[k].finalized, b + n)
    BY <1>10, <1>14
  <2>2. b + n + 0 = b + n
    OBVIOUS
  <2>3. replay'.submitted = n /\ Base' = b /\ replay'.finalized = replay.finalized /\ DOMAIN Updates' = 1 .. m + 1
    BY <1>3, <1>8, <1>10
  <2> QED BY <1>9, <1>14, <2>1, <2>2, <2>3 DEF MarkInv, Marked
<1>16. /\ IsRun(f, m + 2 - i, i)' /\ Updates'[m + 2 - i].head[1] = b + p - d + 1
  <2>1. IsRun(f, m - i + 2, i - 1) /\ (i > 1 => Updates[m - i + 2].head[1] = replay.branch[1] + 1)
    BY <1>1, <1>3, <1>4, <1>m DEF ForkInv
  <2>2. PICK c \in Nat, first \in Int : c = i - 1 /\ first = m + 2 - i
    <3>1. i - 1 \in Nat /\ m + 2 - i \in Int
      BY <1>n
    <3> QED BY <3>1
  <2>3. m - i + 2 = first /\ first + c = m + 1 /\ i = c + 1 /\ (i > 1 <=> c > 0) /\ replay.branch[1] = b + p - d
    BY <1>6, <2>2
  <2>4. IsRun(f, first, c) /\ (c > 0 => Updates[first].head[1] = b + p - d + 1)
    BY <2>1, <2>2, <2>3
  <2>5. c > 0 => u.head[1] = Updates[first].head[1] + c
    BY <1>5, <2>3, <2>4
  <2>6. /\ IsRun(f, first, c + 1)'
        /\ c = 0 => Updates'[first].head[1] = u.head[1]
        /\ c > 0 => Updates'[first].head[1] = Updates[first].head[1]
    <3>1. first + c = Len(Updates) + 1 /\ u.head[2] = f /\ BlockTypes /\ Sends(u)
      BY <1>1, <1>2, <1>5, <1>m, <2>3
    <3> QED BY <2>4, <2>5, <3>1, RunGrows
  <2>7. Updates'[first].head[1] = b + p - d + 1
    BY <1>5, <2>3, <2>4, <2>6
  <2> QED BY <2>2, <2>3, <2>6, <2>7
<1>17. Blocks!FinalizedIsKept'
  <2>1. PICK first \in Int, top \in Int : first = m + 2 - i /\ i > 0 /\ top = b + n /\ b + p - d + 1 - 1 = top
    <3>1. m + 2 - i \in Int /\ b + n \in Int /\ i > 0 /\ b + p - d + 1 - 1 = b + n
      BY <1>n
    <3> QED BY <3>1
  <2>2. Blocks!BranchOf(f)' = Updates'[first].head[1] - 1
    <3>1. IsRun(f, first, i)'
      BY <1>16, <2>1
    <3> QED BY <2>1, <3>1, BranchNext
  <2>3. Blocks!BranchOf(f)' = top
    BY <1>16, <2>1, <2>2
  <2>4. /\ BlockTypes /\ ForkInv /\ Blocks!FinalizedIsKept /\ Sends(u) /\ u.head[2] = f /\ f # 0
        /\ \A k \in DOMAIN Updates : Marked(Updates[k].safe, top) /\ Marked(Updates[k].finalized, top)
        /\ Marked(u.safe, top) /\ Marked(u.finalized, top)
    BY <1>1, <1>2, <1>5, <1>14, <2>1
  <2> QED BY <2>3, <2>4, KeptStep
<1>18. ForkInv'
  <2>1. \A k \in 1 .. m + 1 : Updates'[k].head[2] \in 0 .. f
    <3>1. ForkInv /\ replay.fork = f
      BY <1>1, <1>3
    <3>2. \A k \in 1 .. m : Updates[k].head[2] \in 0 .. f
      BY <1>10, <3>1 DEF ForkInv
    <3>3. u.head[2] \in 0 .. f
      BY <1>5
    <3> QED BY <1>10, <3>2, <3>3
  <2>2. ASSUME NEW k \in 1 .. f PROVE \E first \in 1 .. m + 2 : IsRun(k, first, Built(k))'
    <3>1. CASE k = f
      <4>1. Built(k)' = i
        BY <1>1, <1>3, <1>6, <1>7, <1>8, <1>9, <3>1 DEF Built
      <4>2. m + 2 - i \in 1 .. m + 2
        <5>1. IsRun(f, m - i + 2, i - 1)
          BY <1>1, <1>3, <1>4, <1>m DEF ForkInv
        <5>2. UpdatesOf(f) \subseteq 1 .. m /\ UpdatesOf(f) = m - i + 2 .. m - i + 2 + (i - 1) - 1
          BY <1>1, <1>2, <1>m, <5>1, SendsOf DEF IsRun
        <5>3. i = 1 \/ m - i + 2 \in UpdatesOf(f)
          BY <1>n, <5>2
        <5> QED BY SMTT(60), <1>n, <5>2, <5>3
      <4> QED BY <1>16, <3>1, <4>1, <4>2
    <3>2. CASE k # f
      <4>1. Built(k) = d /\ Built(k)' = d
        BY <1>1, <1>3, <1>6, <1>8, <3>2 DEF Built
      <4>2. PICK first \in 1 .. m + 1 : IsRun(k, first, d)
        BY <1>1, <1>3, <1>m, <4>1 DEF ForkInv
      <4>3. IsRun(k, first, d)'
        BY SMTT(60), <1>1, <1>2, <1>5, <3>2, <4>2, RunStays
      <4>4. first \in 1 .. m + 2
        OBVIOUS
      <4> QED BY <4>1, <4>3, <4>4
    <3> QED BY <3>1, <3>2
  <2>3. Forking' => /\ IsRun(f, m + 1 - j + 2, j - 1)'
                    /\ j > 1 => Updates'[m + 1 - j + 2].head[1] = replay'.branch[1] + 1
    <3>1. Forking' => j = i + 1 /\ m + 1 - j + 2 = m + 2 - i /\ j - 1 = i
      BY <1>7, <1>9
    <3>2. replay'.branch[1] = b + p - d
      BY <1>6, <1>8
    <3> QED BY <1>16, <3>1, <3>2
  <2>4. replay'.fork = f /\ Len(Updates') + 1 = m + 2 /\ DOMAIN Updates' = 1 .. m + 1 /\ replay'.index = j /\ Len(Updates') = m + 1
    BY <1>3, <1>8, <1>10
  <2>5. \A k \in 1 .. f : \E first \in 1 .. m + 2 : IsRun(k, first, Built(k))'
    BY <2>2
  <2> QED BY <1>5, <2>1, <2>3, <2>4, <2>5 DEF ForkInv
<1>19. BatchInv'
  BY <1>1, <1>8, <1>10 DEF BatchInv, Remains
<1> QED BY <1>9, <1>11, <1>12, <1>13, <1>15, <1>17, <1>18, <1>19 DEF BlockInv

LEMMA CanonicalBlockStep ==
    ASSUME BlockInv, Blocks!Forkchoice, ~Blocks!Fails, replay.block[2] = 0
    PROVE  BlockInv'
<1>1. /\ BlockTypes /\ PositionInv /\ CanonicalInv /\ MarkInv /\ ForkInv /\ BatchInv /\ Blocks!FinalizedIsKept
      /\ Submitting /\ replay \in ReplayType /\ config \in BlockRuns /\ UNCHANGED config
      /\ replay.pending = <<>>
  BY ForkchoiceFacts
<1>2. PICK u : /\ Sends(u) /\ u.head = replay.block /\ u.safe = replay.forkchoice.safe
               /\ u.finalized = replay.forkchoice.finalized /\ u.head \in Block
               /\ engine' = [engine EXCEPT !.head = u.head, !.updates = Append(Updates, u)]
               /\ engine'.head = u.head
  BY ForkchoiceFacts
<1>3. PICK b \in Int, p \in Nat, d \in Nat, i \in Nat, n \in Nat, f \in Nat :
                /\ b = Base /\ p = replay.position /\ d = Len(replay.due) /\ i = replay.index
                /\ n = replay.submitted /\ f = replay.fork
                /\ i \in 1 .. d /\ DOMAIN replay.due = 1 .. d /\ d <= p
                /\ replay.block[1] = b + p - d + i
                /\ n = p - d + (i - 1)
  <2>1. PICK b \in Int, p \in Nat, d \in Nat, i \in Nat, n \in Nat, f \in Nat :
                /\ b = Base /\ p = replay.position /\ d = Len(replay.due) /\ i = replay.index
                /\ n = replay.submitted /\ f = replay.fork
                /\ i \in 1 .. d /\ DOMAIN replay.due = 1 .. d /\ d <= p
                /\ replay.block[1] = b + p - d + i
                /\ n = p - d + (IF replay.block[2] = 0 THEN i - 1 ELSE 0)
    BY ForkchoiceFacts
  <2>2. n = p - d + (i - 1)
    BY <2>1
  <2> QED BY <2>1, <2>2
<1>n. i \in 1 .. d /\ d <= p /\ n = p - d + (i - 1) /\ b + p - d + i = b + (n + 1) /\ b + (n + 1) \in Int /\ n + 1 \in Nat
  <2>1. i \in 1 .. d /\ d <= p /\ n = p - d + (i - 1)
    BY <1>3
  <2> QED BY <2>1
<1>4. ~Forking /\ Replaying
  BY <1>1 DEF Forking, Replaying, Submitting
<1>5. u.head = Blocks!Canonical(b + (n + 1)) /\ u.head[2] = 0 /\ u.head[1] = b + (n + 1)
  <2>1. u.head[2] = 0 /\ u.head[1] = b + (n + 1)
    BY <1>2, <1>3, <1>n
  <2>2. u.head = <<u.head[1], u.head[2]>>
    BY <1>2 DEF Block
  <2> QED BY <2>1, <2>2 DEF Blocks!Canonical
<1>6. replay.branch # Blocks!None => replay.branch = <<b + p - d, 0>> /\ d = config.depth
  BY <1>1, <1>3 DEF PositionInv
<1> DEFINE Moved(at, j, due, branch, finalized) ==
        /\ replay' = [replay EXCEPT !.at = at, !.index = j, !.due = due, !.branch = branch, !.submitted = n + 1,
                        !.prev = u.head, !.finalized = finalized]
        /\ \/ at = "canonical" /\ j = i + 1 /\ i < d /\ due = replay.due /\ branch = replay.branch
           \/ at = "read" /\ j = 1 /\ i = d /\ due = <<>> /\ branch = Blocks!None
        /\ finalized \in {replay.finalized, u.head}
<1> HIDE DEF Moved
<1>move. PICK at \in {"canonical", "read"}, j \in Nat, due \in Seq(LineSet), branch \in Block \cup {Blocks!None},
             finalized \in Block \cup {Blocks!None} : Moved(at, j, due, branch, finalized)
  <2> DEFINE finalized == IF replay.block[1] % Checkpoint = 0 THEN replay.block ELSE replay.finalized
  <2>a. finalized \in {replay.finalized, u.head} /\ finalized \in Block \cup {Blocks!None}
    BY <1>1, <1>2 DEF ReplayType
  <2>b. replay.due \in Seq(LineSet) /\ <<>> \in Seq(LineSet) /\ replay.branch \in Block \cup {Blocks!None}
        /\ replay.submitted = n /\ i + 1 \in Nat /\ replay.block = u.head
    BY SMTT(60), <1>1, <1>2, <1>3 DEF ReplayType
  <2>1. replay' = [Blocks!AfterBlock EXCEPT !.submitted = @ + 1, !.prev = replay.block,
                      !.finalized = IF replay.block[1] % Checkpoint = 0 THEN replay.block ELSE @]
    BY DEF Blocks!Forkchoice
  <2>2. CASE i < d
    <3>1. Blocks!AfterBlock = [replay EXCEPT !.at = "canonical", !.index = i + 1]
      BY <1>3, <2>2 DEF Blocks!AfterBlock
    <3>2. replay' = [replay EXCEPT !.at = "canonical", !.index = i + 1, !.due = replay.due, !.branch = replay.branch,
                        !.submitted = n + 1, !.prev = u.head, !.finalized = finalized]
      BY <1>1, <2>1, <2>b, <3>1 DEF ReplayType
    <3> HIDE DEF finalized
    <3>3. Moved("canonical", i + 1, replay.due, replay.branch, finalized)
      BY <2>a, <2>2, <3>2 DEF Moved
    <3> QED BY <2>a, <2>b, <3>3
  <2>3. CASE ~(i < d)
    <3>1. Blocks!AfterBlock = [replay EXCEPT !.at = "read", !.index = 1, !.due = <<>>, !.branch = Blocks!None]
      BY <1>3, <2>3 DEF Blocks!AfterBlock
    <3>2. replay' = [replay EXCEPT !.at = "read", !.index = 1, !.due = <<>>, !.branch = Blocks!None,
                        !.submitted = n + 1, !.prev = u.head, !.finalized = finalized]
      BY <1>1, <2>1, <2>b, <3>1 DEF ReplayType
    <3> HIDE DEF finalized
    <3>3. i = d
      BY <1>n, <2>3
    <3>4. Moved("read", 1, <<>>, Blocks!None, finalized)
      BY <2>a, <3>2, <3>3 DEF Moved
    <3> QED BY <2>a, <2>b, <3>4
  <2> QED BY <2>2, <2>3
<1>7. /\ replay' = [replay EXCEPT !.at = at, !.index = j, !.due = due, !.branch = branch, !.submitted = n + 1,
                      !.prev = u.head, !.finalized = finalized]
      /\ \/ at = "canonical" /\ j = i + 1 /\ i < d /\ due = replay.due /\ branch = replay.branch
         \/ at = "read" /\ j = 1 /\ i = d /\ due = <<>> /\ branch = Blocks!None
      /\ finalized \in {replay.finalized, u.head}
  BY <1>move DEF Moved
<1>8. /\ replay'.at = at /\ replay'.index = j /\ replay'.due = due /\ replay'.branch = branch
      /\ replay'.submitted = n + 1 /\ replay'.prev = u.head /\ replay'.finalized = finalized
      /\ UNCHANGED <<replay.position, replay.pending, replay.gap_remaining, replay.fork>>
  BY <1>1, <1>7 DEF ReplayType
<1>9. ~Submitting' /\ ~Failed' /\ ~Forking' /\ (Replaying' <=> at = "canonical")
  BY <1>7, <1>8 DEF Submitting, Failed, Forking, Replaying
<1>m. PICK m \in Nat : m = Len(Updates)
  BY <1>1, UpdateCount
<1>10. /\ DOMAIN Updates = 1 .. m /\ DOMAIN Updates' = 1 .. m + 1 /\ Len(Updates') = m + 1
       /\ \A k \in 1 .. m : Updates'[k] = Updates[k]
       /\ Updates'[m + 1] = u
       /\ Lines' = Lines /\ LineSet' = LineSet /\ Base' = Base
  BY <1>1, <1>2, <1>m, SendsOne
<1>11. BlockTypes'
  <2>1. config' = config /\ Lines' = Lines /\ LineSet' = LineSet /\ u.head \in Block \cup {Blocks!None}
    BY <1>1, <1>2, <1>10
  <2>2. replay' \in ReplayType'
    <3>1. /\ replay' = [replay EXCEPT !.at = at, !.index = j, !.due = due, !.branch = branch, !.submitted = n + 1,
                           !.prev = u.head, !.finalized = finalized]
          /\ replay \in ReplayType /\ n + 1 \in Nat
      BY <1>1, <1>7, <1>n
    <3> QED BY ZenonT(150), <2>1, <3>1 DEF ReplayType
  <2> QED BY <1>1, <1>2, <1>9, <2>2, SentTypes
<1>12. PositionInv'
  <2>a. Base' = b /\ Lines' = Lines /\ replay'.position = p /\ replay'.pending = <<>> /\ Len(replay'.pending) = 0
        /\ DOMAIN replay'.pending = {} /\ replay'.submitted = n + 1 /\ config' = config /\ at # "done"
    BY SMTT(60), <1>1, <1>3, <1>7, <1>8, <1>10
  <2>1. CASE at = "canonical"
    <3>1. j = i + 1 /\ i < d /\ due = replay.due /\ branch = replay.branch
      BY <1>7, <2>1
    <3>2. j \in 1 .. d /\ n + 1 = p - 0 - d + (j - 1) /\ 0 + d <= p
      BY <1>n, <3>1
    <3>3. \A k \in 1 .. d : replay.due[k] = Lines[p - d + k]
      BY <1>1, <1>3 DEF PositionInv
    <3>4. Len(replay'.due) = d /\ DOMAIN replay'.due = 1 .. d /\ replay'.due = replay.due
      BY <1>3, <1>8, <3>1
    <3>5. replay'.branch # Blocks!None => replay'.branch = <<b + p - d, 0>> /\ d = config.depth
      BY <1>6, <1>8, <3>1
    <3> QED BY <1>8, <1>9, <2>1, <2>a, <3>2, <3>3, <3>4, <3>5 DEF PositionInv
  <2>2. CASE at = "read"
    <3>1. i = d /\ due = <<>> /\ branch = Blocks!None
      BY <1>7, <2>2
    <3>2. n + 1 = p - 0 - 0 + 0 /\ 0 + 0 <= p
      BY <1>n, <3>1
    <3>3. replay'.due = <<>> /\ Len(replay'.due) = 0 /\ DOMAIN replay'.due = {} /\ replay'.branch = Blocks!None
      BY <1>8, <3>1
    <3> QED BY <1>8, <1>9, <2>2, <2>a, <3>2, <3>3 DEF PositionInv
  <2> QED BY <2>1, <2>2, <1>7
<1>13. CanonicalInv'
  <2>1. UpdatesOf(0)' = UpdatesOf(0) \cup {m + 1} /\ UpdatesOf(0) \subseteq 1 .. m
    <3>1. BlockTypes /\ Sends(u)
      BY <1>1, <1>2
    <3>2. ASSUME NEW k, u.head[2] = k PROVE UpdatesOf(k)' = UpdatesOf(k) \cup {m + 1} /\ UpdatesOf(k) \subseteq 1 .. m
      BY <1>m, <3>1, <3>2, SendsOf
    <3>3. u.head[2] = 0
      BY <1>5
    <3> QED BY <3>2, <3>3
  <2>2. \A k \in UpdatesOf(0) : Updates'[k] = Updates[k]
    BY <1>10, <2>1
  <2>3. {Updates'[k].head : k \in UpdatesOf(0)'} = {Updates[k].head : k \in UpdatesOf(0)} \cup {u.head}
    BY <1>10, <2>1, <2>2
  <2>4. {Updates[k].head : k \in UpdatesOf(0)} = {Blocks!Canonical(b + k) : k \in 1 .. n}
    <3>1. CanonicalInv /\ b = Base /\ n = replay.submitted
      BY <1>1, <1>3
    <3> QED BY <3>1 DEF CanonicalInv
  <2>5. {Blocks!Canonical(b + k) : k \in 1 .. n + 1} = {Blocks!Canonical(b + k) : k \in 1 .. n} \cup {u.head}
    <3>1. 1 .. n + 1 = (1 .. n) \cup {n + 1}
      OBVIOUS
    <3> QED BY <1>5, <3>1
  <2>6. \A k \in UpdatesOf(0) : Updates[k].head[1] < u.head[1] /\ k < m + 1
    <3>1. ASSUME NEW k \in UpdatesOf(0) PROVE Updates[k].head[1] < u.head[1]
      <4>1. PICK l \in 1 .. n : Updates[k].head = Blocks!Canonical(b + l)
        BY <2>4
      <4>2. b + l \in Int /\ b + l < b + (n + 1)
        OBVIOUS
      <4>3. Updates[k].head[1] = b + l
        BY <4>1, <4>2, CanonicalIs
      <4> QED BY <1>5, <4>2, <4>3
    <3> QED BY <2>1, <3>1
  <2>7. \A k, l \in UpdatesOf(0)' : k < l => Updates'[k].head[1] < Updates'[l].head[1]
    <3>1. \A k, l \in UpdatesOf(0) : k < l => Updates[k].head[1] < Updates[l].head[1]
      BY <1>1 DEF CanonicalInv
    <3>2. \A k \in UpdatesOf(0) : ~(m + 1 < k)
      BY <2>1
    <3>3. ~(m + 1 < m + 1)
      OBVIOUS
    <3> QED BY <1>10, <2>1, <2>2, <2>6, <3>1, <3>2, <3>3
  <2>8. Base' = b /\ replay'.submitted = n + 1 /\ replay'.prev = u.head /\ engine'.head = u.head /\ ~(n + 1 = 0)
    BY <1>2, <1>3, <1>8, <1>10
  <2>9. {Blocks!Canonical(Base' + k) : k \in 1 .. replay'.submitted} = {Blocks!Canonical(b + k) : k \in 1 .. n + 1}
    BY <2>8
  <2>10. {Updates'[k].head : k \in UpdatesOf(0)'} = {Blocks!Canonical(Base' + k) : k \in 1 .. replay'.submitted}
    BY <2>3, <2>4, <2>5, <2>9
  <2> QED BY <1>5, <2>7, <2>8, <2>10 DEF CanonicalInv
<1>14. /\ Marked(u.safe, b + (n + 1)) /\ Marked(u.finalized, b + (n + 1))
       /\ \A k \in DOMAIN Updates : Marked(Updates[k].safe, b + (n + 1)) /\ Marked(Updates[k].finalized, b + (n + 1))
       /\ finalized # Blocks!None => Marked(finalized, b + (n + 1))
  <2>1. b + n + 1 = b + (n + 1) /\ b + n <= b + (n + 1) /\ b + n \in Int
    OBVIOUS
  <2>2. /\ Marked(u.safe, b + (n + 1)) /\ Marked(u.finalized, b + (n + 1))
        /\ replay.finalized # Blocks!None => Marked(replay.finalized, b + (n + 1))
    BY <1>1, <1>2, <1>3, <1>4, <2>1 DEF MarkInv
  <2>3. Marked(u.head, b + (n + 1))
    BY <1>5, <1>n DEF Marked
  <2>4. \A k \in DOMAIN Updates : Marked(Updates[k].safe, b + n) /\ Marked(Updates[k].finalized, b + n)
    BY <1>1, <1>3 DEF MarkInv
  <2>5. \A x \in Block : Marked(x, b + n) => Marked(x, b + (n + 1))
    BY <2>1 DEF Marked, Block
  <2>6. \A k \in DOMAIN Updates : Updates[k].safe \in Block /\ Updates[k].finalized \in Block
    <3>1. \A k \in 1 .. m : Updates[k] \in UpdateType
      BY <1>1, <1>2, <1>m, SendsOne
    <3> QED BY <1>10, <3>1 DEF UpdateType
  <2> QED BY <1>7, <2>2, <2>3, <2>4, <2>5, <2>6
<1>15. MarkInv'
  <2>1. \A k \in 1 .. m + 1 : Marked(Updates'[k].safe, b + (n + 1)) /\ Marked(Updates'[k].finalized, b + (n + 1))
    BY <1>10, <1>14
  <2>2. b + (n + 1) + 0 = b + (n + 1)
    OBVIOUS
  <2>3. replay'.submitted = n + 1 /\ Base' = b /\ replay'.finalized = finalized /\ DOMAIN Updates' = 1 .. m + 1
    BY SMTT(60), <1>3, <1>8, <1>10
  <2> QED BY <1>9, <1>14, <2>1, <2>2, <2>3 DEF MarkInv, Marked
<1>16. Blocks!FinalizedIsKept'
  <2>1. PICK top \in Int : top = b + (n + 1)
    BY <1>n
  <2>2. /\ BlockTypes /\ ForkInv /\ Blocks!FinalizedIsKept /\ Sends(u) /\ u.head[2] = 0 /\ top <= u.head[1]
        /\ \A k \in DOMAIN Updates : Marked(Updates[k].safe, top) /\ Marked(Updates[k].finalized, top)
        /\ Marked(u.safe, top) /\ Marked(u.finalized, top)
    BY <1>1, <1>2, <1>5, <1>14, <2>1
  <2> QED BY <2>2, KeptStep
<1>17. ForkInv'
  <2>1. \A k \in 1 .. m + 1 : Updates'[k].head[2] \in 0 .. f
    <3>1. ForkInv /\ replay.fork = f
      BY <1>1, <1>3
    <3>2. \A k \in 1 .. m : Updates[k].head[2] \in 0 .. f
      BY <1>10, <3>1 DEF ForkInv
    <3> QED BY <1>5, <1>10, <3>2
  <2>a. PICK depth \in Nat : depth = config.depth
    BY <1>1, BlockInputs
  <2>2. ASSUME NEW k \in 1 .. f PROVE \E first \in 1 .. m + 2 : IsRun(k, first, Built(k))'
    <3>1. Built(k) = depth /\ Built(k)' = depth
      BY <1>1, <1>4, <1>9, <2>a DEF Built
    <3>2. PICK first \in 1 .. m + 1 : IsRun(k, first, depth)
      BY <1>1, <1>3, <1>m, <3>1 DEF ForkInv
    <3>3. u.head[2] # k /\ first \in 1 .. m + 2
      BY <1>5
    <3>4. IsRun(k, first, depth)'
      BY <1>1, <1>2, <3>2, <3>3, RunStays
    <3> QED BY <3>1, <3>3, <3>4
  <2>3. replay'.fork = f /\ Len(Updates') + 1 = m + 2 /\ DOMAIN Updates' = 1 .. m + 1
    BY <1>3, <1>8, <1>10
  <2>4. \A k \in 1 .. f : \E first \in 1 .. m + 2 : IsRun(k, first, Built(k))'
    BY <2>2
  <2> QED BY <1>9, <2>1, <2>3, <2>4 DEF ForkInv
<1>18. BatchInv'
  BY <1>1, <1>8, <1>10 DEF BatchInv, Remains
<1> QED BY <1>9, <1>11, <1>12, <1>13, <1>15, <1>16, <1>17, <1>18 DEF BlockInv

-----------------------------------------------------------------------------
(* The invariant                                                           *)

LEMMA BlockInvInit == ASSUME Blocks!Init PROVE BlockInv
<1>1. config \in BlockRuns
  BY DEF Blocks!Init
<1>2. /\ config.depth \in Nat /\ config.gap \in Nat /\ Len(Lines) \in Nat
  BY <1>1, BlockInputs
<1>3. /\ replay.at = "read" /\ replay.position = 0 /\ replay.pending = <<>> /\ replay.gap_remaining = 0
      /\ replay.due = <<>> /\ replay.index = 1 /\ replay.branch = Blocks!None /\ replay.fork = 0
      /\ replay.submitted = 0 /\ replay.prev = Blocks!None /\ replay.finalized = Blocks!None /\ Updates = <<>>
  BY DEF Blocks!Init, Updates
<1>4. BlockTypes
  <2>1. <<>> \in Seq(LineSet) /\ <<>> \in Seq([head : Block, safe : Block, finalized : Block])
    OBVIOUS
  <2>2. replay \in ReplayType
    BY <1>2, <2>1 DEF Blocks!Init, ReplayType
  <2>3. engine \in [known : {engine.known}, head : Block \cup {Blocks!None},
                    updates : Seq([head : Block, safe : Block, finalized : Block])]
    <3> DEFINE T == Seq([head : Block, safe : Block, finalized : Block])
    <3>1. <<>> \in T
      BY <2>1
    <3> HIDE DEF T
    <3>2. engine = [known |-> {}, head |-> Blocks!None, updates |-> <<>>]
      BY DEF Blocks!Init
    <3>3. engine \in [known : {engine.known}, head : Block \cup {Blocks!None}, updates : T]
      BY <3>1, <3>2
    <3> QED BY <3>3 DEF T
  <2> QED BY <1>1, <1>3, <2>2, <2>3 DEF BlockTypes, Submitting
<1>5. ~Submitting /\ ~Forking /\ ~Replaying
  BY <1>3 DEF Submitting, Forking, Replaying
<1>6. DOMAIN Updates = {} /\ Len(Updates) = 0 /\ \A k : UpdatesOf(k) = {}
  BY <1>3 DEF UpdatesOf
<1>7. Blocks!FinalizedIsKept
  BY <1>6 DEF Blocks!FinalizedIsKept, Updates
<1>8. PositionInv
  <2>1. Len(replay.pending) = 0 /\ Len(replay.due) = 0 /\ DOMAIN replay.pending = {} /\ DOMAIN replay.due = {}
    BY <1>3
  <2>2. Len(replay.pending) + Len(replay.due) <= replay.position /\ 0 = 0 - 0 - 0 + 0
    BY <1>3, <2>1
  <2> QED BY <1>3, <1>5, <2>1, <2>2 DEF PositionInv
<1>9. CanonicalInv
  BY <1>3, <1>6 DEF CanonicalInv
<1>10. MarkInv
  BY <1>3, <1>5, <1>6 DEF MarkInv
<1>11. ForkInv
  BY <1>3, <1>5, <1>6 DEF ForkInv
<1>12. BatchInv
  <2>1. Remains = config.gap - 0 + 0
    BY <1>3 DEF Remains
  <2>2. ASSUME config.depth > 0
        PROVE  \E rest \in 0 .. config.depth + config.gap - 1 :
                 /\ replay.position + config.gap = replay.fork * (config.depth + config.gap) + rest
                 /\ replay.position < Len(Lines) => rest = Remains
    <3>1. config.gap \in 0 .. config.depth + config.gap - 1 /\ Remains = config.gap
      BY <1>2, <2>1, <2>2
    <3>2. replay.position + config.gap = replay.fork * (config.depth + config.gap) + config.gap
      BY <1>2, <1>3
    <3> QED BY <3>1, <3>2
  <2> QED BY <1>2, <1>3, <2>2 DEF BatchInv
<1> QED BY <1>4, <1>7, <1>8, <1>9, <1>10, <1>11, <1>12 DEF BlockInv

LEMMA BlockInvStep == ASSUME BlockInv, Blocks!Next PROVE BlockInv'
<1>0. BlockTypes
  BY DEF BlockInv
<1>1. CASE Blocks!ReadLine
  <2>1. CASE Blocks!Fails
    BY <1>1, <2>1, FailStep DEF Blocks!ReadLine
  <2>2. CASE ~Blocks!Fails
    <3>1. Reads /\ BlockTypes' /\ (Takes \/ Keeps \/ Forks)
      BY <1>1, <2>2, ReadStep
    <3> QED BY <3>1, TakesKeeps, KeepsKeeps, ForksKeeps
  <2> QED BY <2>1, <2>2
<1>2. CASE Blocks!EndOfInput
  BY <1>2, EndStep
<1>3. CASE Blocks!SubmitToMempool
  <2>1. CASE Blocks!Fails
    BY ZenonT(60), <1>3, <2>1, FailStep DEF Blocks!SubmitToMempool
  <2>2. CASE ~Blocks!Fails
    BY ZenonT(60), <1>3, <2>2, MempoolStep, MovesKeep DEF Blocks!SubmitToMempool, Failed
  <2> QED BY <2>1, <2>2
<1>4. CASE Blocks!Build
  <2>1. CASE Blocks!Fails
    BY <1>4, <2>1, FailStep DEF Blocks!Build
  <2>2. CASE ~Blocks!Fails
    BY <1>4, <2>2, BuildStep, MovesKeep DEF Blocks!Build, Failed
  <2> QED BY <2>1, <2>2
<1>5. CASE Blocks!SubmitBlock
  BY <1>5, SubmitStep, MovesKeep DEF Blocks!SubmitBlock, Failed
<1>6. CASE Blocks!NewPayload
  <2>1. CASE Blocks!Fails
    <3>1. ~(replay' = [replay EXCEPT !.at = "forkchoice"])
      BY <1>0, <2>1 DEF Blocks!Fails, BlockTypes, ReplayType
    <3>2. UNCHANGED <<config, engine>>
      BY <1>6, <3>1 DEF Blocks!NewPayload
    <3> QED BY <2>1, <3>2, FailStep
  <2>2. CASE ~Blocks!Fails
    BY <1>6, <2>2, PayloadStep, MovesKeep DEF Blocks!NewPayload, Failed
  <2> QED BY <2>1, <2>2
<1>7. CASE Blocks!Forkchoice
  <2>1. CASE Blocks!Fails
    <3>1. replay'.at = "failed" /\ replay \in ReplayType
      BY <1>0, <2>1 DEF Blocks!Fails, BlockTypes, ReplayType
    <3>2. ~(replay' = IF replay.block[2] # 0 THEN [Blocks!AfterFork EXCEPT !.parent = replay.block]
                      ELSE [Blocks!AfterBlock EXCEPT !.submitted = @ + 1, !.prev = replay.block,
                              !.finalized = IF replay.block[1] % Checkpoint = 0 THEN replay.block ELSE @])
      <4>1. Blocks!AfterFork.at \in {"build", "canonical"} /\ Blocks!AfterBlock.at \in {"canonical", "read"}
        BY <3>1 DEF Blocks!AfterFork, Blocks!AfterBlock, ReplayType
      <4>2. [Blocks!AfterFork EXCEPT !.parent = replay.block].at = Blocks!AfterFork.at
        BY <3>1 DEF Blocks!AfterFork, ReplayType
      <4>3. [Blocks!AfterBlock EXCEPT !.submitted = @ + 1, !.prev = replay.block,
               !.finalized = IF replay.block[1] % Checkpoint = 0 THEN replay.block ELSE @].at = Blocks!AfterBlock.at
        BY <3>1 DEF Blocks!AfterBlock, ReplayType
      <4> QED BY <3>1, <4>1, <4>2, <4>3
    <3>3. UNCHANGED <<config, engine>>
      BY <1>7, <3>2 DEF Blocks!Forkchoice
    <3> QED BY <2>1, <3>3, FailStep
  <2>2. CASE ~Blocks!Fails
    BY <1>7, <2>2, ForkBlockStep, CanonicalBlockStep
  <2> QED BY <2>1, <2>2
<1> QED BY <1>1, <1>2, <1>3, <1>4, <1>5, <1>6, <1>7 DEF Blocks!Next

LEMMA BlockInvStutter == ASSUME BlockInv, UNCHANGED <<config, BlockVars>> PROVE BlockInv'
<1>0. UNCHANGED <<config, replay, engine>>
  BY DEF BlockVars
<1>1. Updates' = Updates
  BY <1>0 DEF Updates
<1>2. /\ Lines' = Lines /\ LineSet' = LineSet /\ Base' = Base
      /\ \A k : UpdatesOf(k)' = UpdatesOf(k)
      /\ Blocks!FinalizedIsKept'
  BY <1>0, <1>1, SameUpdates DEF BlockInv
<1>3. (Submitting' <=> Submitting) /\ (Forking' <=> Forking) /\ (Replaying' <=> Replaying) /\ (Failed' <=> Failed)
  BY <1>0 DEF Submitting, Forking, Replaying, Failed
<1>4. BlockTypes'
  BY <1>0, <1>2, <1>3 DEF BlockInv, BlockTypes, ReplayType
<1>5. CASE ~Failed
  <2>1. PositionInv /\ CanonicalInv /\ MarkInv /\ ForkInv /\ BatchInv
    BY <1>5 DEF BlockInv
  <2>2. PositionInv'
    BY <1>0, <1>2, <1>3, <2>1 DEF PositionInv
  <2>3. CanonicalInv'
    BY <1>0, <1>1, <1>2, <2>1 DEF CanonicalInv
  <2>4. MarkInv'
    BY <1>0, <1>1, <1>2, <1>3, <2>1 DEF MarkInv, Marked
  <2>5. ForkInv'
    BY <1>0, <1>1, <1>2, <1>3, <2>1 DEF ForkInv, Built, IsRun
  <2>6. BatchInv'
    BY <1>0, <1>2, <2>1 DEF BatchInv, Remains
  <2> QED BY <1>2, <1>4, <2>2, <2>3, <2>4, <2>5, <2>6 DEF BlockInv
<1>6. CASE Failed
  BY <1>2, <1>3, <1>4, <1>6 DEF BlockInv
<1> QED BY <1>5, <1>6

LEMMA SameCount == \A S : Blocks!Cardinality(S) = Cardinality(S)
BY DEF Blocks!Cardinality, Cardinality

\* The updates so far respect finality, and at the end the input is replayed.
LEMMA ReplayedAtTheEnd == ASSUME BlockInv PROVE Blocks!FinalizedIsKept /\ Blocks!InputIsReplayed
<1>1. ASSUME BlockInv, replay.at = "done" PROVE Blocks!InputIsReplayed
  <2>1. /\ BlockTypes /\ PositionInv /\ CanonicalInv /\ ForkInv /\ BatchInv
    BY <1>1 DEF BlockInv, Failed
  <2>2. /\ replay \in ReplayType /\ config \in BlockRuns /\ ~Forking /\ ~Replaying
    BY <1>1, <2>1 DEF BlockTypes, Forking, Replaying, Submitting
  <2>3. PICK L \in Nat, d \in Nat, g \in Nat, f \in Nat :
          L = Len(Lines) /\ d = config.depth /\ g = config.gap /\ f = replay.fork /\ DOMAIN Lines = 1 .. L
    BY <2>2, BlockInputs DEF ReplayType
  <2>4. replay.position = L /\ replay.submitted = L
    <3>1. replay.due = <<>> /\ replay.pending = <<>> /\ replay.position = L
      BY <1>1, <2>1, <2>3 DEF PositionInv
    <3>2. replay.submitted = L - 0 - 0 + 0
      BY <2>1, <2>2, <3>1 DEF PositionInv
    <3> QED BY <3>1, <3>2
  <2>5. \A i \in 1 .. L : Lines[i].number = Base + i
    BY <2>2, <2>3, BlockInputs
  <2>6. {Updates[i].head : i \in UpdatesOf(0)} = {Blocks!Canonical(Lines[i].number) : i \in DOMAIN Lines}
    <3>1. {Updates[i].head : i \in UpdatesOf(0)} = {Blocks!Canonical(Base + k) : k \in 1 .. L}
      BY <2>1, <2>4 DEF CanonicalInv
    <3>2. {Blocks!Canonical(Base + k) : k \in 1 .. L} = {Blocks!Canonical(Lines[i].number) : i \in 1 .. L}
      BY <2>5
    <3> QED BY <2>3, <3>1, <3>2
  <2>7. \A i, j \in UpdatesOf(0) : i < j => Updates[i].head[1] < Updates[j].head[1]
    BY <2>1 DEF CanonicalInv
  <2>8. Lines # <<>> => engine.head = Blocks!Canonical(Blocks!Last(Lines).number)
    <3> HAVE Lines # <<>>
    <3>1. L > 0 /\ L \in 1 .. L
      BY <2>2, <2>3, BlockInputs
    <3>2. Blocks!Last(Lines) = Lines[L]
      BY <2>3 DEF Blocks!Last
    <3>3. engine.head = Blocks!Canonical(Base + L)
      BY <1>1, <2>1, <2>4, <3>1 DEF CanonicalInv
    <3> QED BY <2>5, <3>1, <3>2, <3>3
  <2>9. ASSUME NEW k \in 1 .. f PROVE Blocks!Cardinality(UpdatesOf(k)) = d
    <3>1. PICK first \in 1 .. Len(Updates) + 1 : IsRun(k, first, d)
      BY <2>1, <2>2, <2>3 DEF ForkInv, Built
    <3>2. first \in Int
      OBVIOUS
    <3>3. Cardinality(first .. first + d - 1) = d
      BY <3>2, FS_Interval
    <3> QED BY <3>1, <3>3, SameCount DEF IsRun
  <2>10. f = IF d = 0 THEN 0 ELSE (L + g) \div (d + g)
    <3>1. CASE d = 0
      BY <2>1, <2>3, <3>1 DEF BatchInv
    <3>2. CASE d # 0
      <4>1. PICK rest \in 0 .. d + g - 1 : L + g = f * (d + g) + rest
        BY <2>1, <2>3, <2>4, <3>2 DEF BatchInv
      <4>2. d + g \in Nat
        OBVIOUS
      <4>3. (f * (d + g) + rest) \div (d + g) = f
        BY <4>2, Quotient
      <4> QED BY <3>2, <4>1, <4>3
    <3> QED BY <3>1, <3>2
  <2> QED BY <2>3, <2>6, <2>7, <2>8, <2>9, <2>10 DEF Blocks!InputIsReplayed, Lines, Updates, UpdatesOf
<1>2. ASSUME BlockInv PROVE Blocks!FinalizedIsKept /\ Blocks!InputIsReplayed
  <2>1. CASE replay.at = "done"
    BY <1>1, <1>2, <2>1 DEF BlockInv
  <2>2. CASE replay.at # "done"
    BY <1>2, <2>2 DEF BlockInv, Blocks!InputIsReplayed
  <2> QED BY <2>1, <2>2
<1> QED BY <1>2
=============================================================================
