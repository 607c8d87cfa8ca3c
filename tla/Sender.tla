------------------------------- MODULE Sender --------------------------------
(***************************************************************************)
(* The Sender of bench-core (sender.rs), which "bench send" feeds from one *)
(* task: send() and flush() run in the caller, each dispatched transaction *)
(* runs in a worker task (submit_tx), and workers report to the caller     *)
(* through the completion channel.  The node a worker talks to is part of  *)
(* the model: it may accept a transaction whose answer is lost, and may    *)
(* include one before its answer arrives.                                  *)
(*                                                                         *)
(* The deque Sender::pending is the set "pending" ordered by queue id.     *)
(* pump() drains the channel before every dispatch decision: here its      *)
(* other steps need an empty channel.  The rate limiter only delays pump   *)
(* and is left out, and so are metrics and receipt collection.             *)
(***************************************************************************)
EXTENDS Integers, Sequences, FiniteSets

CONSTANTS Tx,       \* transactions (a setup transaction's id is its name)
          Key,      \* scheduling keys
          Configs   \* the senders, and callers, of an instance

\* What the caller may hand in; a prerequisite of a setup transaction is a name.
GeneratedTx == [phase : {"setup", "workload"}, submission : SUBSET Key,
                inclusion : SUBSET Key, depends_on : SUBSET Tx]

ASSUME SenderAssumption ==
    \A c \in Configs :
        /\ c.max_concurrent \in Nat \ {0} /\ c.max_buffered \in Nat \ {0} /\ c.max_pending \in Nat
        /\ c.inputs \subseteq [phase : {"setup", "workload"}, submission : SUBSET Key,
                               inclusion : SUBSET Key]
        /\ c.sends \in Nat /\ c.stop_on_error \in BOOLEAN

VARIABLES
    config,             \* SenderConfig, and what its caller does: it never changes
    tx,                 \* what was handed in, keys normalised
    answer,             \* what send() returned for a transaction
    id, next_queue_id,  \* PendingTx::queue_id (0: none yet), Sender::next_queue_id
    pending,            \* Sender::pending
    active_keys,        \* Sender::active_keys
    known_setup, completed_setup, in_flight_setup, setup_failure,
    in_flight_pending, pending_failure, deferred_error,
    permits,            \* free permits of Sender::semaphore
    channel,            \* the completion channel
    call,               \* where the caller stands
    work,               \* where each transaction's worker stands
    owed,               \* keys its worker has yet to give back
    node,               \* what the chain did with it
    lost                \* history: accepted, then cancelled, caller not told yet

queue == <<config, tx, answer, id, next_queue_id, pending>>
ledger == <<active_keys, known_setup, completed_setup, in_flight_setup, setup_failure,
            in_flight_pending, pending_failure>>
vars == <<queue, ledger, deferred_error, permits, channel, call, work, owed, node, lost>>

MaxConcurrent == config.max_concurrent
MaxBuffered == config.max_buffered
MaxPending == config.max_pending      \* 0 for None
StopOnError == config.stop_on_error   \* the caller gives up at the first error, as bench send does

Work == { "new", "queued", "cancelled",
          "preparing",   \* dispatched: prepare observation, sign, register
          "rpc",         \* eth_sendRawTransaction in flight
          "failed",      \* nothing was sent, or definitely rejected; permit dropped
          "error",       \* the same, and observation could not be started
          "unsure",      \* the answer does not prove rejection; permit dropped
          "accepted",    \* answered with a hash; permit dropped
          "observing",   \* keys that go on acceptance given back, awaiting inclusion
          "observing_unsure",
          "done" }

Dispatched(t) == work[t] \notin {"new", "queued", "cancelled"}
Keys(t) == tx[t].submission \cup tx[t].inclusion
Setup(t) == tx[t].phase = "setup"
Tracked == MaxPending # 0
Observes(t) == tx[t].inclusion # {} \/ Setup(t) \/ Tracked

\* What the worker of t reports: keys, and on return the guards' completions.
Message(kind, t, keys, ok) == <<[kind |-> kind, tx |-> t, keys |-> keys, ok |-> ok]>>
ReleaseKeys(t, keys) == IF keys = {} THEN <<>> ELSE Message("release", t, keys, TRUE)
Finish(t, success, ok) ==
    (IF Setup(t) THEN Message("setup", t, {}, success) ELSE <<>>)
      \o (IF Tracked THEN Message("pending", t, {}, ok) ELSE <<>>)
-----------------------------------------------------------------------------
(* Sender::pump                                                            *)

\* The transaction next_ready_index returns.
ReadyIgnoringSkipped(t) ==  \* fault
    /\ t \in pending
    /\ Keys(t) \cap active_keys = {}
    /\ tx[t].depends_on \subseteq completed_setup

Ready(t) ==
    /\ t \in pending
    /\ Keys(t) \cap active_keys = {}
    /\ tx[t].depends_on \subseteq completed_setup
    /\ \A u \in pending : id[u] < id[t] => Keys(t) \cap Keys(u) = {}

NextReady(t) == Ready(t) /\ \A u \in pending : id[u] < id[t] => ~Ready(u)

Failure == pending_failure \/ setup_failure
SlotFree == Tracked => in_flight_pending < MaxPending
MayDispatchUnbounded(t) == ~Failure /\ SlotFree /\ NextReady(t)  \* fault

MayDispatch(t) == ~Failure /\ SlotFree /\ permits > 0 /\ NextReady(t)

\* handle_completion.
HandleAnySetup(m) ==  \* fault
    /\ active_keys' = active_keys \ m.keys
    /\ in_flight_pending' = in_flight_pending - (IF m.kind = "pending" THEN 1 ELSE 0)
    /\ pending_failure' = (pending_failure \/ (m.kind = "pending" /\ ~m.ok))
    /\ in_flight_setup' = in_flight_setup - (IF m.kind = "setup" THEN 1 ELSE 0)
    /\ completed_setup' = completed_setup \cup (IF m.kind = "setup" THEN {m.tx} ELSE {})
    /\ UNCHANGED <<known_setup, setup_failure>>

Handle(m) ==
    /\ active_keys' = active_keys \ m.keys
    /\ in_flight_pending' = in_flight_pending - (IF m.kind = "pending" THEN 1 ELSE 0)
    /\ pending_failure' = (pending_failure \/ (m.kind = "pending" /\ ~m.ok))
    /\ in_flight_setup' = in_flight_setup - (IF m.kind = "setup" THEN 1 ELSE 0)
    /\ completed_setup' = completed_setup \cup (IF m.kind = "setup" /\ m.ok THEN {m.tx} ELSE {})
    /\ setup_failure' = (setup_failure \/ (m.kind = "setup" /\ ~m.ok))
    /\ UNCHANGED known_setup

Drain ==
    /\ call.at = "pump" /\ channel # <<>>
    /\ Handle(Head(channel))
    /\ channel' = Tail(channel)
    /\ UNCHANGED <<queue, deferred_error, permits, call, work, owed, node, lost>>

Dispatch(t) ==
    /\ call.at = "pump" /\ channel = <<>>
    /\ MayDispatch(t)
    /\ pending' = pending \ {t}
    /\ active_keys' = active_keys \cup Keys(t)
    /\ permits' = permits - 1
    /\ in_flight_pending' = in_flight_pending + (IF Tracked THEN 1 ELSE 0)
    /\ in_flight_setup' = in_flight_setup + (IF Setup(t) THEN 1 ELSE 0)
    /\ work' = [work EXCEPT ![t] = "preparing"]
    /\ UNCHANGED <<config, tx, answer, id, next_queue_id, known_setup, completed_setup, setup_failure,
                   pending_failure, deferred_error, channel, call, owed, node, lost>>

\* The caller of pump() cancels everything queued.  Only a transaction that is
\* on the wire already turns the error of an older one into a deferred error.
Told(error) ==
    /\ lost' = {}
    /\ call' = [call EXCEPT !.at = IF error /\ StopOnError THEN "gone" ELSE "idle"]

CancelQueue == /\ pending' = {}
               /\ work' = [t \in Tx |-> IF t \in pending THEN "cancelled" ELSE work[t]]

PumpFailsRefusing ==  \* fault
    /\ pending' = {}
    /\ work' = [t \in Tx |-> IF t \in pending \/ (t = call.tx /\ work[t] = "new")
                               THEN "cancelled" ELSE work[t]]
    /\ \/ /\ call.ret # "flush"
          /\ answer' = [answer EXCEPT ![call.tx] = "refused"]
          /\ Told(TRUE)
          /\ UNCHANGED deferred_error
       \/ /\ call.ret = "flush"
          /\ call' = [call EXCEPT !.at = "flush", !.failed = TRUE]
          /\ lost' = lost \cup pending
          /\ UNCHANGED <<answer, deferred_error>>

PumpFails ==
    \/ /\ call.ret = "buffer" \/ (call.ret = "send" /\ call.tx \in pending)
       /\ pending' = {}
       /\ work' = [t \in Tx |-> IF t \in pending \cup {call.tx} THEN "cancelled" ELSE work[t]]
       /\ answer' = [answer EXCEPT ![call.tx] = "refused"]
       /\ Told(TRUE)
       /\ UNCHANGED deferred_error
    \/ /\ call.ret = "send" /\ call.tx \notin pending
       /\ CancelQueue
       /\ answer' = [answer EXCEPT ![call.tx] = "ok"]
       /\ deferred_error' = TRUE
       /\ call' = [call EXCEPT !.at = "idle"]
       /\ lost' = lost \cup pending
    \/ /\ call.ret = "flush"
       /\ CancelQueue
       /\ call' = [call EXCEPT !.at = "flush", !.failed = TRUE]
       /\ lost' = lost \cup pending
       /\ UNCHANGED <<answer, deferred_error>>

\* No authentication headers for the transaction that is next.
AuthFails(t) ==
    /\ call.at = "pump" /\ channel = <<>>
    /\ MayDispatch(t)
    /\ setup_failure' = Setup(t)
    /\ PumpFails
    /\ UNCHANGED <<config, tx, id, next_queue_id, active_keys, known_setup, completed_setup,
                   in_flight_setup, in_flight_pending, pending_failure, permits, channel,
                   owed, node>>

\* A worker has reported a failure.
PumpStops ==
    /\ call.at = "pump" /\ channel = <<>>
    /\ Failure
    /\ PumpFails
    /\ UNCHANGED <<config, tx, id, next_queue_id, ledger, permits, channel, owed, node>>

PumpReturns ==
    /\ call.at = "pump" /\ channel = <<>>
    /\ ~Failure /\ ~ \E t \in Tx : MayDispatch(t)
    /\ \/ /\ call.ret = "buffer"
          /\ call' = [call EXCEPT !.at = IF Cardinality(pending) < MaxBuffered THEN "buffer"
                                                                              ELSE "recv"]
          /\ UNCHANGED answer
       \/ /\ call.ret = "send"
          /\ answer' = [answer EXCEPT ![call.tx] = "ok"]
          /\ call' = [call EXCEPT !.at = "idle"]
       \/ /\ call.ret = "flush"
          /\ call' = [call EXCEPT !.at = "flush"]
          /\ UNCHANGED answer
    /\ UNCHANGED <<config, tx, id, next_queue_id, pending, ledger, deferred_error, permits, channel,
                   work, owed, node, lost>>

\* completion_rx.recv() of wait_for_buffer_capacity and flush.
Recv ==
    /\ call.at = "recv" /\ channel # <<>>
    /\ Handle(Head(channel))
    /\ channel' = Tail(channel)
    /\ call' = [call EXCEPT !.at = IF call.ret = "buffer" THEN "buffer"
                                   ELSE IF call.failed THEN "flush" ELSE "pump"]
    /\ UNCHANGED <<queue, deferred_error, permits, work, owed, node, lost>>
-----------------------------------------------------------------------------
(* Sender::send                                                            *)

\* An id that was handed in before, or one that was not.
Prerequisites(t, c) ==
    IF c.phase = "setup" THEN {{u} : u \in {t} \cup {v \in Tx : work[v] # "new"}} ELSE {}

\* A transaction in either phase, its key sets normalised.  Bounds: how many
\* the caller sends, and one prerequisite each.
HandIn(t) ==
    /\ Cardinality({u \in Tx : work[u] # "new"}) < config.sends
    /\ \E c \in config.inputs : \E d \in {{}} \cup Prerequisites(t, c) :
         tx' = [tx EXCEPT ![t] = [phase |-> c.phase, inclusion |-> c.inclusion, depends_on |-> d,
                                  submission |-> c.submission \ c.inclusion]]

CallSendIgnoringDeferred(t) ==  \* fault
    /\ call.at = "idle" /\ work[t] = "new"
    /\ HandIn(t)
    /\ call' = [call EXCEPT !.at = "buffer", !.tx = t]
    /\ UNCHANGED <<config, answer, id, next_queue_id, pending, work, lost, deferred_error,
                   ledger, permits, channel, owed, node>>

CallSend(t) ==
    /\ call.at = "idle" /\ work[t] = "new"
    /\ HandIn(t)
    /\ IF deferred_error
         THEN /\ deferred_error' = FALSE
              /\ pending' = {}
              /\ work' = [u \in Tx |-> IF u \in pending \cup {t} THEN "cancelled" ELSE work[u]]
              /\ answer' = [answer EXCEPT ![t] = "refused"]
              /\ Told(TRUE)
         ELSE /\ call' = [call EXCEPT !.at = "buffer", !.tx = t]
              /\ UNCHANGED <<answer, pending, work, lost, deferred_error>>
    /\ UNCHANGED <<config, id, next_queue_id, ledger, permits, channel, owed, node>>

BufferFull ==
    /\ call.at = "buffer" /\ Cardinality(pending) >= MaxBuffered
    /\ call' = [call EXCEPT !.at = "pump", !.ret = "buffer"]
    /\ UNCHANGED <<queue, ledger, deferred_error, permits, channel, work, owed, node, lost>>

Valid(t) ==
    /\ Keys(t) # {}
    /\ IF Setup(t) THEN tx[t].depends_on \subseteq known_setup ELSE tx[t].depends_on = {}

Enqueue(t) ==
    /\ call.at = "buffer" /\ call.tx = t /\ Cardinality(pending) < MaxBuffered
    /\ next_queue_id' = next_queue_id + 1
    /\ IF Valid(t)
         THEN /\ id' = [id EXCEPT ![t] = next_queue_id]
              /\ pending' = pending \cup {t}
              /\ known_setup' = known_setup \cup (IF Setup(t) THEN {t} ELSE {})
              /\ owed' = [owed EXCEPT ![t] = Keys(t)]
              /\ work' = [work EXCEPT ![t] = "queued"]
              /\ call' = [call EXCEPT !.at = "pump", !.ret = "send"]
              /\ UNCHANGED <<answer, lost>>
         ELSE /\ answer' = [answer EXCEPT ![t] = "refused"]
              /\ work' = [work EXCEPT ![t] = "cancelled"]
              /\ Told(TRUE)
              /\ UNCHANGED <<id, pending, known_setup, owed>>
    /\ UNCHANGED <<config, tx, active_keys, completed_setup, in_flight_setup, setup_failure,
                   in_flight_pending, pending_failure, deferred_error, permits, channel, node>>
-----------------------------------------------------------------------------
(* Sender::flush                                                           *)

CallFlush ==
    /\ call.at = "idle"
    /\ deferred_error' = FALSE
    /\ IF deferred_error
         THEN /\ CancelQueue
              /\ lost' = lost \cup pending
              /\ call' = [call EXCEPT !.at = "flush", !.failed = TRUE]
         ELSE /\ call' = [call EXCEPT !.at = "pump", !.ret = "flush", !.failed = FALSE]
              /\ UNCHANGED <<pending, work, lost>>
    /\ UNCHANGED <<config, tx, answer, id, next_queue_id, ledger, permits, channel, owed, node>>

Busy == pending # {} \/ active_keys # {} \/ in_flight_setup > 0 \/ in_flight_pending > 0

FlushWaits ==
    /\ call.at = "flush"
    /\ call' = IF Busy THEN [call EXCEPT !.at = "recv", !.ret = "flush"]
                       ELSE [call EXCEPT !.at = "reap"]
    /\ UNCHANGED <<queue, ledger, deferred_error, permits, channel, work, owed, node, lost>>

\* Every worker task is joined; flush returns its first error.
FlushReturns ==
    /\ call.at = "reap"
    /\ \A t \in Tx : Dispatched(t) => work[t] = "done"
    /\ Told(call.failed)
    /\ UNCHANGED <<queue, ledger, deferred_error, permits, channel, work, owed, node>>
-----------------------------------------------------------------------------
(* submit_tx, one worker per dispatched transaction                        *)

Caller == <<queue, ledger, deferred_error, call, lost>>

\* Observation cannot be prepared or registered ("error"), or signing fails.
FailBeforeRpc(t) ==
    /\ work[t] = "preparing"
    /\ \E w \in {"failed"} \cup (IF Observes(t) THEN {"error"} ELSE {}) :
         work' = [work EXCEPT ![t] = w]
    /\ permits' = permits + 1
    /\ UNCHANGED <<Caller, channel, owed, node>>

SubmitRpc(t) ==
    /\ work[t] = "preparing"
    /\ work' = [work EXCEPT ![t] = "rpc"]
    /\ UNCHANGED <<Caller, permits, channel, owed, node>>

\* A definite rejection comes from a node that does not have the transaction.
RpcAnswers(t) ==
    /\ work[t] = "rpc"
    /\ \/ node[t] # "absent" /\ work' = [work EXCEPT ![t] = "accepted"]
       \/ node[t] = "absent" /\ work' = [work EXCEPT ![t] = "failed"]
       \/ work' = [work EXCEPT ![t] = "unsure"]
    /\ permits' = permits + 1
    /\ UNCHANGED <<Caller, channel, owed, node>>

WorkerFailsSilently(t) ==  \* fault
    /\ work[t] \in {"failed", "error"}
    /\ channel' = channel \o ReleaseKeys(t, tx[t].submission)
                          \o Finish(t, FALSE, work[t] = "failed")
    /\ owed' = [owed EXCEPT ![t] = {}]
    /\ work' = [work EXCEPT ![t] = "done"]
    /\ UNCHANGED <<Caller, permits, node>>

WorkerFailsHoldingSlot(t) ==  \* fault
    /\ work[t] \in {"failed", "error"}
    /\ channel' = channel \o ReleaseKeys(t, owed[t])
                          \o (IF work[t] = "failed" THEN Finish(t, FALSE, TRUE) ELSE <<>>)
    /\ owed' = [owed EXCEPT ![t] = {}]
    /\ work' = [work EXCEPT ![t] = "done"]
    /\ UNCHANGED <<Caller, permits, node>>

WorkerFails(t) ==
    /\ work[t] \in {"failed", "error"}
    /\ channel' = channel \o ReleaseKeys(t, owed[t]) \o Finish(t, FALSE, work[t] = "failed")
    /\ owed' = [owed EXCEPT ![t] = {}]
    /\ work' = [work EXCEPT ![t] = "done"]
    /\ UNCHANGED <<Caller, permits, node>>

WorkerUnsureFreeingSlot(t) ==  \* fault
    /\ work[t] = "unsure"
    /\ channel' = channel \o ReleaseKeys(t, owed[t]) \o Finish(t, FALSE, TRUE)
    /\ work' = [work EXCEPT ![t] = "done"]
    /\ owed' = [owed EXCEPT ![t] = {}]
    /\ UNCHANGED <<Caller, permits, node>>

\* A lost response does not prove rejection: the slot stays taken, the keys go.
WorkerUnsure(t) ==
    /\ work[t] = "unsure"
    /\ IF Tracked
         THEN /\ channel' = channel \o ReleaseKeys(t, owed[t])
              /\ work' = [work EXCEPT ![t] = "observing_unsure"]
         ELSE /\ channel' = channel \o ReleaseKeys(t, owed[t]) \o Finish(t, FALSE, TRUE)
              /\ work' = [work EXCEPT ![t] = "done"]
    /\ owed' = [owed EXCEPT ![t] = {}]
    /\ UNCHANGED <<Caller, permits, node>>

WorkerAcceptedReleasingAll(t) ==  \* fault
    /\ work[t] = "accepted"
    /\ channel' = channel \o ReleaseKeys(t, owed[t])
    /\ owed' = [owed EXCEPT ![t] = {}]
    /\ work' = [work EXCEPT ![t] = IF Observes(t) THEN "observing" ELSE "done"]
    /\ UNCHANGED <<Caller, permits, node>>

WorkerAccepted(t) ==
    /\ work[t] = "accepted"
    /\ channel' = channel \o ReleaseKeys(t, tx[t].submission)
    /\ owed' = [owed EXCEPT ![t] = tx[t].inclusion]
    /\ work' = [work EXCEPT ![t] = IF Observes(t) THEN "observing" ELSE "done"]
    /\ UNCHANGED <<Caller, permits, node>>

\* observe(): the transaction is in a block or expired, or observation gives up.
WorkerObserves(t) ==
    /\ work[t] \in {"observing", "observing_unsure"}
    /\ \E resolved \in BOOLEAN :
         /\ resolved => node[t] \in {"included", "failed"}
         /\ LET success == resolved /\ node[t] = "included" /\ work[t] = "observing"
            IN  channel' = channel \o ReleaseKeys(t, owed[t]) \o Finish(t, success, resolved)
    /\ owed' = [owed EXCEPT ![t] = {}]
    /\ work' = [work EXCEPT ![t] = "done"]
    /\ UNCHANGED <<Caller, permits, node>>
-----------------------------------------------------------------------------
(* The chain                                                               *)

NodeAccepts(t) ==
    /\ node[t] = "absent"
    /\ work[t] \in {"rpc", "unsure", "observing_unsure"}
    /\ node' = [node EXCEPT ![t] = "pool"]
    /\ UNCHANGED <<Caller, permits, channel, work, owed>>

\* Out of the pool: included with success, or else reverted or expired.  What
\* nobody observes stays there.
NodeResolves(t) ==
    /\ node[t] = "pool" /\ Observes(t)
    /\ \E n \in {"included", "failed"} : node' = [node EXCEPT ![t] = n]
    /\ UNCHANGED <<Caller, permits, channel, work, owed>>
-----------------------------------------------------------------------------
Init ==
    /\ config \in Configs
    /\ tx = [t \in Tx |-> [phase |-> "workload", submission |-> {}, inclusion |-> {},
                           depends_on |-> {}]]
    /\ answer = [t \in Tx |-> "none"]
    /\ id = [t \in Tx |-> 0] /\ next_queue_id = 1
    /\ pending = {} /\ active_keys = {}
    /\ known_setup = {} /\ completed_setup = {} /\ in_flight_setup = 0 /\ setup_failure = FALSE
    /\ in_flight_pending = 0 /\ pending_failure = FALSE /\ deferred_error = FALSE
    /\ permits = MaxConcurrent
    /\ channel = <<>>
    /\ call \in [at : {"idle"}, ret : {"send"}, tx : Tx, failed : {FALSE}]
    /\ work = [t \in Tx |-> "new"]
    /\ owed = [t \in Tx |-> {}]
    /\ node = [t \in Tx |-> "absent"]
    /\ lost = {}

Pump == Drain \/ PumpStops \/ PumpReturns \/ \E t \in Tx : Dispatch(t) \/ AuthFails(t)
CallerStep == Pump \/ Recv \/ BufferFull \/ FlushWaits \/ FlushReturns \/ \E t \in Tx : Enqueue(t)
LocalStep(t) == FailBeforeRpc(t) \/ SubmitRpc(t) \/ WorkerFails(t) \/ WorkerUnsure(t)
                  \/ WorkerAccepted(t)

Next == \/ CallerStep \/ CallFlush
        \/ \E t \in Tx : \/ CallSend(t) \/ LocalStep(t) \/ RpcAnswers(t) \/ WorkerObserves(t)
                         \/ NodeAccepts(t) \/ NodeResolves(t)

Spec == Init /\ [][Next]_vars

\* The caller's task and the workers run, the node answers every request, and
\* observation ends at RECEIPT_TIMEOUT at the latest.
FairSpec ==
    /\ Spec /\ WF_vars(CallerStep)
    /\ \A t \in Tx : WF_vars(LocalStep(t)) /\ WF_vars(RpcAnswers(t)) /\ WF_vars(WorkerObserves(t))
-----------------------------------------------------------------------------
(* Properties                                                              *)

Messages == [kind : {"release", "setup", "pending"}, tx : Tx, keys : SUBSET Key, ok : BOOLEAN]

\* The state is well typed; no counter of the sender goes below zero and no
\* more permits come back than were handed out.
TypeOK ==
    /\ config \in Configs
    /\ tx \in [Tx -> GeneratedTx]
    /\ answer \in [Tx -> {"none", "ok", "refused"}]
    /\ id \in [Tx -> Nat] /\ next_queue_id \in Nat \ {0}
    /\ pending \in SUBSET Tx /\ active_keys \in SUBSET Key
    /\ known_setup \in SUBSET Tx /\ completed_setup \in SUBSET Tx
    /\ in_flight_setup \in Nat /\ in_flight_pending \in Nat
    /\ {setup_failure, pending_failure, deferred_error} \subseteq BOOLEAN
    /\ permits \in 0 .. MaxConcurrent
    /\ channel \in Seq(Messages)
    /\ call \in [at : {"idle", "buffer", "pump", "recv", "flush", "reap", "gone"},
                 ret : {"buffer", "send", "flush"}, tx : Tx, failed : BOOLEAN]
    /\ work \in [Tx -> Work]
    /\ owed \in [Tx -> SUBSET Key]
    /\ node \in [Tx -> {"absent", "pool", "included", "failed"}]
    /\ lost \in SUBSET Tx

\* The keys t really needs for itself, whatever the caller's bookkeeping says:
\* all of them until the node has answered, then those kept until inclusion.
Needs(t) == CASE work[t] \in {"preparing", "rpc"} -> Keys(t)
              [] work[t] \in {"accepted", "observing"} -> tx[t].inclusion
              [] OTHER -> {}

\* send() promises "transactions that share any key are sent sequentially":
\* a transaction is on its way to the node only when every earlier one that
\* shares a key has left the queue and got as far as that key demands, which
\* is accepted for a submission key and observed for an inclusion key.
LaneOrder ==
    \A t, u \in Tx : Dispatched(u) /\ 0 < id[t] /\ id[t] < id[u] =>
        /\ Needs(t) \cap Keys(u) = {}
        /\ t \in pending => Keys(t) \cap Keys(u) = {}

\* Keys of t that its worker still has, or that are on their way back.
Outstanding(t) ==
    owed[t] \cup UNION {channel[i].keys : i \in {j \in DOMAIN channel : channel[j].tx = t}}

\* The caller's active_keys is what dispatched transactions will give back, so
\* flush, which waits for it to become empty, waits for something real.
ActiveKeysAreOwned == active_keys = UNION {Outstanding(t) : t \in {u \in Tx : Dispatched(u)}}

Unresolved == {t \in Tx : Dispatched(t) /\ work[t] # "done"}
Queued(kind) == Cardinality({i \in DOMAIN channel : channel[i].kind = kind})

\* Every slot of in_flight_pending and in_flight_setup belongs to a worker
\* that has yet to report, or to a report the caller has yet to read; and
\* with_max_pending holds what it promises: at no moment are more of this
\* sender's transactions in the node's pool, lost answers included.
SlotsAccounted ==
    /\ in_flight_pending = Queued("pending") + (IF Tracked THEN Cardinality(Unresolved) ELSE 0)
    /\ in_flight_setup = Queued("setup") + Cardinality({t \in Unresolved : Setup(t)})
    /\ Tracked => Cardinality({t \in Tx : node[t] = "pool"}) <= MaxPending

\* A setup transaction is dispatched only when all its prerequisites were
\* included in a block and did not revert.
SetupAfterDependencies ==
    \A t \in Tx : Dispatched(t) => \A d \in tx[t].depends_on : node[d] = "included"

\* When send() returns an error the caller may safely retry the transaction:
\* it never was, nor will be, handed to a worker.
RefusedNeverSent == \A t \in Tx : answer[t] = "refused" => ~Dispatched(t)

\* "A missing nonce cannot be skipped": while the caller has not been told
\* that an accepted transaction was cancelled, nothing later shares its keys.
NoSkippedNonce ==
    \A t, u \in Tx : u \in lost /\ Dispatched(t) /\ id[u] < id[t] => Keys(t) \cap Keys(u) = {}

\* What callers are told holds.
AnswersHold == RefusedNeverSent /\ NoSkippedNonce

\* Sender gives the ordering promise: a step of the caller or of a worker is a
\* step of KeyOrdering or leaves it alone.
Ordering == INSTANCE KeyOrdering WITH
    ticket <- id,
    waiting <- pending,
    holding <- {t \in Tx : Dispatched(t) /\ Outstanding(t) # {}},
    keys <- [t \in Tx |-> Outstanding(t)]

ImplementsKeyOrdering == Ordering!Spec

\* Every send() and every flush() returns: no lost report, unreachable
\* prerequisite or full buffer keeps the caller waiting for ever.
CallsReturn == (call.at # "idle") ~> (call.at \in {"idle", "gone"})
=============================================================================
