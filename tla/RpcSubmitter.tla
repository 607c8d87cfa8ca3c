---------------------------- MODULE RpcSubmitter -----------------------------
(***************************************************************************)
(* RpcSubmitter::submit_classified_inner of bench-core (sender.rs) and the *)
(* RpcOrdering it queues in.  Every transaction in Tx is one call, running *)
(* as its own task; the calls share the order queue, the active keys and   *)
(* the RPC semaphore.                                                      *)
(*                                                                         *)
(* The deque RpcOrderingState::pending is the set "pending" ordered by     *)
(* "id": ids are taken from next_id and pushed at the back under one lock, *)
(* so deque order is id order (the wrap of next_id at 2^64 is out of       *)
(* reach).  The token bucket of acquire_permit only delays a task and is   *)
(* left out.                                                               *)
(***************************************************************************)
EXTENDS Naturals, FiniteSets

CONSTANTS Tx,             \* concurrent calls
          Key,            \* scheduling keys
          KeyChoices,     \* the <<submission_keys, inclusion_keys>> a call may carry
          MaxConcurrent   \* SenderConfig::max_concurrent, permits of the semaphore

ASSUME ConstantsAssumption ==
    /\ MaxConcurrent \in Nat \ {0}
    /\ KeyChoices \subseteq (SUBSET Key) \X (SUBSET Key)

VARIABLES next_id,      \* RpcOrderingState::next_id (from 1; 0 marks "not enqueued")
          id,           \* RpcPendingOrder::id of each call
          pending,      \* the calls whose order is in RpcOrderingState::pending
          active_keys,  \* RpcOrderingState::active_keys
          submission,   \* RpcOrderTicket::submission_keys of each call
          inclusion,    \* RpcOrderTicket / RpcInclusionRelease::inclusion_keys
          permits,      \* free permits of RpcSubmitter::semaphore
          stage,        \* where each call stands
          result        \* what the call returned, or is about to return

ordering == <<next_id, id, pending, active_keys>>
tickets == <<submission, inclusion>>
vars == <<ordering, tickets, permits, stage, result>>

Stage == { "idle",       \* not called yet
           "trying",     \* about to call try_acquire
           "parked",     \* try_acquire failed, awaiting Notify
           "granted",    \* order acquired, awaiting a permit
           "permitted",  \* holds a permit: prepare, sign, register
           "rpc",        \* eth_sendRawTransaction in flight
           "releasing",  \* permit dropped, submission keys still active
           "dropping",   \* the order ticket is about to be dropped
           "observing",  \* returned Ok, inclusion observed by a spawned task
           "settled" }   \* nothing left to do

Result == {"none", "accepted", "before_send", "rejected", "ambiguous"}

Keys(t) == submission[t] \cup inclusion[t]

\* Calls whose order has been acquired and whose ticket still releases keys.
Holders == {t \in Tx : stage[t] \in
               {"granted", "permitted", "rpc", "releasing", "dropping", "observing"}}

\* The order next_ready_order_index returns.  An order is passed over, and its
\* keys are blocked, when one of its keys is blocked already: the first order
\* that is not passed over is the first one disjoint from the active keys and
\* from every earlier order.
UnblockedIgnoringSkipped(t) == Keys(t) \cap active_keys = {}  \* fault

Unblocked(t) ==
    /\ Keys(t) \cap active_keys = {}
    /\ \A u \in pending : id[u] < id[t] => Keys(t) \cap Keys(u) = {}

NextReady(t) ==
    /\ t \in pending
    /\ Unblocked(t)
    /\ \A u \in pending : id[u] < id[t] => ~Unblocked(u)

\* Notify::notify_waiters: every parked task runs its loop again.
NotifyWaiters(st) == [u \in Tx |-> IF st[u] = "parked" THEN "trying" ELSE st[u]]

Goto(t, st) == [stage EXCEPT ![t] = st]
-----------------------------------------------------------------------------
Init ==
    /\ next_id = 1
    /\ id = [t \in Tx |-> 0]
    /\ pending = {}
    /\ active_keys = {}
    /\ submission = [t \in Tx |-> {}]
    /\ inclusion = [t \in Tx |-> {}]
    /\ permits = MaxConcurrent
    /\ stage = [t \in Tx |-> "idle"]
    /\ result = [t \in Tx |-> "none"]

\* A key in both sets keeps the stricter release policy; a transaction without
\* any key is refused before it is queued.
Enqueue(t) ==
    /\ stage[t] = "idle"
    /\ \E choice \in KeyChoices :
         LET inc == choice[2]
             sub == choice[1] \ inc
         IN  \/ /\ sub \cup inc = {}
                /\ stage' = Goto(t, "settled")
                /\ result' = [result EXCEPT ![t] = "before_send"]
                /\ UNCHANGED <<ordering, tickets, permits>>
             \/ /\ sub \cup inc # {}
                /\ submission' = [submission EXCEPT ![t] = sub]
                /\ inclusion' = [inclusion EXCEPT ![t] = inc]
                /\ id' = [id EXCEPT ![t] = next_id]
                /\ next_id' = next_id + 1
                /\ pending' = pending \cup {t}
                /\ stage' = NotifyWaiters(Goto(t, "trying"))
                /\ UNCHANGED <<active_keys, permits, result>>

\* Definitions marked "fault" put a bug into the next one; the specification
\* does not use them (see README, "Faults").
AcquireForgettingInclusion(t) ==  \* fault
    /\ stage[t] = "trying"
    /\ NextReady(t)
    /\ pending' = pending \ {t}
    /\ active_keys' = active_keys \cup submission[t]
    /\ stage' = Goto(t, "granted")
    /\ UNCHANGED <<next_id, id, tickets, permits, result>>

\* try_acquire succeeds only for the one order the scan returns, and wakes
\* nobody.
Acquire(t) ==
    /\ stage[t] = "trying"
    /\ NextReady(t)
    /\ pending' = pending \ {t}
    /\ active_keys' = active_keys \cup Keys(t)
    /\ stage' = Goto(t, "granted")
    /\ UNCHANGED <<next_id, id, tickets, permits, result>>

\* The task enabled its Notified before trying, so a notification that comes
\* after the failed attempt is not missed.
Park(t) ==
    /\ stage[t] = "trying"
    /\ ~NextReady(t)
    /\ stage' = Goto(t, "parked")
    /\ UNCHANGED <<ordering, tickets, permits, result>>

CancelPendingSilently(t) ==  \* fault
    /\ stage[t] \in {"trying", "parked"}
    /\ pending' = pending \ {t}
    /\ stage' = Goto(t, "settled")
    /\ result' = [result EXCEPT ![t] = "before_send"]
    /\ UNCHANGED <<next_id, id, active_keys, tickets, permits>>

\* The deadline passes, or the caller drops the call, before the order is
\* acquired: the ticket's Drop removes the order.
CancelPending(t) ==
    /\ stage[t] \in {"trying", "parked"}
    /\ pending' = pending \ {t}
    /\ stage' = NotifyWaiters(Goto(t, "settled"))
    /\ result' = [result EXCEPT ![t] = "before_send"]
    /\ UNCHANGED <<next_id, id, active_keys, tickets, permits>>

AcquirePermitUnbounded(t) ==  \* fault
    /\ stage[t] = "granted"
    /\ permits' = permits - 1
    /\ stage' = Goto(t, "permitted")
    /\ UNCHANGED <<ordering, tickets, result>>

AcquirePermit(t) ==
    /\ stage[t] = "granted"
    /\ permits > 0
    /\ permits' = permits - 1
    /\ stage' = Goto(t, "permitted")
    /\ UNCHANGED <<ordering, tickets, result>>

FailBeforeDispatchKeepingPermit(t) ==  \* fault
    /\ stage[t] \in {"granted", "permitted"}
    /\ result' = [result EXCEPT ![t] = "before_send"]
    /\ stage' = Goto(t, "releasing")
    /\ UNCHANGED <<ordering, tickets, permits>>

\* Deadline, missing late signer, authentication or registration failure, or a
\* dropped call, before anything was sent.
FailBeforeDispatch(t) ==
    /\ stage[t] \in {"granted", "permitted"}
    /\ permits' = IF stage[t] = "permitted" THEN permits + 1 ELSE permits
    /\ result' = [result EXCEPT ![t] = "before_send"]
    /\ stage' = Goto(t, "releasing")
    /\ UNCHANGED <<ordering, tickets>>

Dispatch(t) ==
    /\ stage[t] = "permitted"
    /\ stage' = Goto(t, "rpc")
    /\ UNCHANGED <<ordering, tickets, permits, result>>

\* The RPC answers, fails in transport, or is cut off by the deadline.  The
\* permit goes back before any key does.
RpcReturns(t) ==
    /\ stage[t] = "rpc"
    /\ \E r \in Result \ {"none"} : result' = [result EXCEPT ![t] = r]
    /\ permits' = permits + 1
    /\ stage' = Goto(t, "releasing")
    /\ UNCHANGED <<ordering, tickets>>

\* release_submission_keys on success, the first release of the ticket's Drop
\* on failure.
ReleaseSubmissionKeys(t) ==
    /\ stage[t] = "releasing"
    /\ active_keys' = active_keys \ submission[t]
    /\ submission' = [submission EXCEPT ![t] = {}]
    /\ stage' = NotifyWaiters(Goto(t, "dropping"))
    /\ UNCHANGED <<next_id, id, pending, inclusion, permits, result>>

DropTicketLeakingInclusion(t) ==  \* fault
    /\ stage[t] = "dropping"
    /\ inclusion' = IF result[t] = "accepted" THEN inclusion
                                             ELSE [inclusion EXCEPT ![t] = {}]
    /\ stage' = NotifyWaiters(Goto(t, IF inclusion'[t] = {} THEN "settled" ELSE "observing"))
    /\ UNCHANGED <<ordering, submission, permits, result>>

\* The ticket is dropped.  An accepted transaction's inclusion keys have moved
\* to the observing task; a failed one gives them up here.  Drop notifies in
\* either case.
DropTicket(t) ==
    /\ stage[t] = "dropping"
    /\ IF result[t] = "accepted" /\ inclusion[t] # {}
         THEN /\ stage' = NotifyWaiters(Goto(t, "observing"))
              /\ UNCHANGED <<active_keys, inclusion>>
         ELSE /\ stage' = NotifyWaiters(Goto(t, "settled"))
              /\ active_keys' = active_keys \ inclusion[t]
              /\ inclusion' = [inclusion EXCEPT ![t] = {}]
    /\ UNCHANGED <<next_id, id, pending, submission, permits, result>>

\* observe() returns, whatever it reports: RpcInclusionRelease is dropped.
EndObservation(t) ==
    /\ stage[t] = "observing"
    /\ active_keys' = active_keys \ inclusion[t]
    /\ inclusion' = [inclusion EXCEPT ![t] = {}]
    /\ stage' = NotifyWaiters(Goto(t, "settled"))
    /\ UNCHANGED <<next_id, id, pending, submission, permits, result>>

Next == \E t \in Tx :
    \/ Enqueue(t) \/ Acquire(t) \/ Park(t) \/ CancelPending(t)
    \/ AcquirePermit(t) \/ FailBeforeDispatch(t) \/ Dispatch(t) \/ RpcReturns(t)
    \/ ReleaseSubmissionKeys(t) \/ DropTicket(t) \/ EndObservation(t)

Spec == Init /\ [][Next]_vars

\* The runtime polls every task that can run.
LocalFairness == \A t \in Tx :
    WF_vars(Acquire(t) \/ Park(t) \/ ReleaseSubmissionKeys(t) \/ DropTicket(t))

\* tokio's semaphore serves waiters in turn; preparation and observation are
\* cut off by RECEIPT_TIMEOUT and the RPC by the deadline scenarios pass.
RemoteFairness == \A t \in Tx :
    /\ SF_vars(AcquirePermit(t))
    /\ WF_vars(Dispatch(t)) /\ WF_vars(RpcReturns(t)) /\ WF_vars(EndObservation(t))

LocalFairSpec == Spec /\ LocalFairness
FairSpec == Spec /\ LocalFairness /\ RemoteFairness
-----------------------------------------------------------------------------
(* Properties                                                              *)

\* Shape of the state.
TypeOK ==
    /\ next_id \in Nat \ {0}
    /\ id \in [Tx -> Nat]
    /\ pending \subseteq Tx
    /\ active_keys \subseteq Key
    /\ submission \in [Tx -> SUBSET Key]
    /\ inclusion \in [Tx -> SUBSET Key]
    /\ permits \in Nat
    /\ stage \in [Tx -> Stage]
    /\ result \in [Tx -> Result]

\* Two transactions that hold an acquired order never hold the same key: a
\* nonce lane has one transaction between dispatch and release.
KeyExclusion ==
    \A t, u \in Holders : t # u => Keys(t) \cap Keys(u) = {}

\* The shared set of active keys is exactly what the live tickets and
\* observations will give back: no early return leaks a key (its lane would
\* be blocked for good) and no Drop frees a key that a later transaction holds.
ActiveKeysAreOwned == active_keys = UNION {Keys(t) : t \in Holders}

\* A transaction that shares a key with an earlier one still in the queue has
\* not been dispatched.
NoOvertaking ==
    \A t \in pending, u \in Holders : id[t] < id[u] => Keys(t) \cap Keys(u) = {}

\* Every permit is either free or owned by a call between acquiring it and the
\* answer of its RPC, so a failing call never shrinks the concurrency limit.
PermitsAreOwned ==
    permits + Cardinality({t \in Tx : stage[t] \in {"permitted", "rpc"}}) = MaxConcurrent

\* Submission clients keep the promise of KeyOrdering.
Ordering == INSTANCE KeyOrdering WITH
    ticket <- id, waiting <- pending,
    holding <- Holders, keys <- [t \in Tx |-> Keys(t)]
ImplementsKeyOrdering == Ordering!Spec

\* Every queued call leaves the queue and gives everything back: nobody waits
\* for good on a key, on a permit, or on a notification nobody sends.
EveryCallSettles ==
    \A t \in Tx : stage[t] = "trying" ~> stage[t] = "settled"

\* "disjoint keys = parallel" (the header of sender.rs): a call whose keys are
\* free and wanted by nobody before it is granted without having to wait for
\* the RPC of an unrelated transaction to return.
DisjointKeysRunInParallel ==
    \A t \in Tx : (t \in pending /\ Unblocked(t)) ~> t \notin pending
=============================================================================
