------------------------------- MODULE BenchSend -------------------------------
(***************************************************************************)
(* bench send (bench-cli/src/send.rs and preparation.rs): setup, an        *)
(* optional warm-up, the measured interval and the report, over a stream   *)
(* of transactions and the nodes of a network.                             *)
(*                                                                         *)
(* The Sender is what its callers see of it: a buffer in the order of      *)
(* send, dispatch under the lanes' keys, and flush.  Transactions are      *)
(* named by their position in the input.                                   *)
(***************************************************************************)
EXTENDS SetupOrder

CONSTANT SendRuns   \* inputs and arguments

\* An input transaction is [phase, id, depends_on, keys]; nodes[1] answers the
\* aggregate queries; gives_up says that what the command needs may fail for good.
SendAssumption == \A c \in SendRuns :
    /\ {c.validators, c.warmup, c.duration, c.delay, c.skip_setup, c.drain, c.receipts, c.gives_up} \subseteq BOOLEAN
    /\ c.validators => c.duration /\ ~c.warmup
    /\ c.nodes # <<>> /\ c.max_blocks \in Nat

VARIABLES
    config,    \* it never changes
    bench,     \* where the command is, what it has read and recorded
    traffic,   \* the Sender: its buffer, and what became of each transaction
    network,   \* blocks, and per node its pool, head and Finish checkpoint
    report     \* what the report holds at the end

vars == <<config, bench, traffic, network, report>>

Input == config.input
Nodes == ToSet(config.nodes)
Query == config.nodes[1]
Setup == {i \in DOMAIN Input : Input[i].phase = "setup"}
HasWarmup == config.warmup \/ config.validators
HasTail == config.validators /\ config.delay

None == 0
Ended == bench.at \in {"done", "failed"}
Goes(at) == bench' = [bench EXCEPT !.at = at]
Fails == Goes("failed")
HeadOf(node) == network.head[node]
-----------------------------------------------------------------------------
(* Reading the input                                                       *)

Skipped == IF config.skip_setup THEN Setup ELSE {}

\* run_setup_phase reads up to the first workload transaction, and send_setup
\* orders the whole batch or refuses it.
ReadSetup ==
    LET read == bench.position + 1
        batch == SelectSeq([i \in 1 .. bench.position |-> i], LAMBDA i : i \notin Skipped)
        order == SetupSubmissionOrder([k \in DOMAIN batch |-> Input[batch[k]]])
        queue == [k \in DOMAIN order |-> batch[order[k]]]
    IN  /\ bench.at = "setup"
        /\ CASE read \in Setup ->
                  bench' = [bench EXCEPT !.position = read] /\ UNCHANGED traffic
             [] read \notin Setup /\ Len(queue) < Len(batch) -> Fails /\ UNCHANGED traffic
             [] OTHER ->
                  /\ bench' = [bench EXCEPT !.at = "finish setup",
                                 !.position = IF read \in DOMAIN Input THEN read ELSE @,
                                 !.next = IF read \in DOMAIN Input THEN read ELSE None]
                  /\ traffic' = [traffic EXCEPT !.queue = queue, !.accepted = queue]
        /\ UNCHANGED <<config, network, report>>

Idle == traffic.queue = <<>> /\ traffic.active = {}

\* finish_setup_phase: flush, and no setup transaction may have failed.
FinishSetup ==
    /\ bench.at = "finish setup" /\ Idle
    /\ IF traffic.failed # {} THEN Fails ELSE Goes("start block")
    /\ UNCHANGED <<config, traffic, network, report>>

Reading == {"warm up", "ramp up", "measurement", "tail"}
Timed == bench.at = "tail" \/ (bench.at = "measurement" /\ config.duration)

\* fault: the end of the measurement is not looked up before the tail
AfterUnbounded(at) == CASE at = "measurement" -> IF HasTail THEN "tail" ELSE "flush"
                        [] at = "tail" -> "flush"
                        [] at = "warm up" -> IF config.validators THEN "reset" ELSE "measurement"
                        [] at = "ramp up" -> "restart block"

After(at) == CASE at = "measurement" -> IF HasTail THEN "tail block" ELSE "flush"
               [] at = "tail" -> "flush"
               [] at = "warm up" -> IF config.validators THEN "reset" ELSE "measurement"
               [] at = "ramp up" -> "restart block"

\* next_workload_tx: the transaction handed over from the phase before, or
\* the next of the input.  A timed loop looks at its deadline before reading;
\* the end of the input is only fine without one, or after it.
Read ==
    LET read == IF bench.next # None THEN bench.next ELSE bench.position + 1
    IN  /\ bench.at \in Reading /\ bench.tx = None /\ ~(Timed /\ bench.expired)
        /\ CASE read \in Setup -> Fails
             [] read \in DOMAIN Input \ Setup ->
                  bench' = [bench EXCEPT !.tx = read, !.next = None, !.position = Max({@, read})]
             [] read \notin DOMAIN Input ->
                  IF bench.at = "measurement" /\ ~Timed THEN Goes(After(bench.at)) ELSE Fails
        /\ UNCHANGED <<config, traffic, network, report>>

\* A transaction that was read before the deadline and comes after it is
\* dropped, as is one handed over to a loop that does not start.
DeadlineReached ==
    /\ Timed /\ bench.expired
    /\ bench' = [bench EXCEPT !.at = After(@), !.tx = None, !.next = None]
    /\ UNCHANGED <<config, traffic, network, report>>

Send ==
    /\ bench.at \in Reading /\ bench.tx # None /\ ~(Timed /\ bench.expired)
    /\ bench' = [bench EXCEPT !.tx = None]
    /\ traffic' = [traffic EXCEPT !.queue = Append(@, bench.tx), !.accepted = Append(@, bench.tx)]
    /\ UNCHANGED <<config, network, report>>
-----------------------------------------------------------------------------
(* Preparation                                                             *)

NoInterval(at) == IF at = "warm up" THEN ~HasWarmup ELSE ~config.delay

\* set_metrics: what is dispatched from now on is measured.
BeginMeasuring == [bench EXCEPT !.at = "measurement", !.label = "measured",
                                !.time = "measured", !.expired = FALSE]

EnterForgetting(at) ==  \* fault
    CASE at = "measurement" -> BeginMeasuring
      [] NoInterval(at) /\ at = "warm up" -> [BeginMeasuring EXCEPT !.next = None]
      [] NoInterval(at) /\ at = "ramp up" -> [bench EXCEPT !.at = After("ramp up")]
      [] OTHER -> [bench EXCEPT !.at = at, !.label = at]

\* A phase without a duration is left at once, and returns what it was given.
Enter(at) ==
    CASE at = "measurement" -> BeginMeasuring
      [] NoInterval(at) /\ at = "warm up" -> BeginMeasuring
      [] NoInterval(at) /\ at = "ramp up" -> [bench EXCEPT !.at = After("ramp up")]
      [] OTHER -> [bench EXCEPT !.at = at, !.label = at]

\* get_block_number before the workload, with the proposers' baseline.
StartBlock ==
    /\ bench.at = "start block"
    /\ bench' = [Enter("warm up") EXCEPT !.first = HeadOf(Query), !.baseline = Len(network.blocks)]
    /\ UNCHANGED <<config, traffic, network, report>>

\* warm_up returns between two transactions when its time is up.
WarmUpEnds ==
    /\ bench.at = "ramp up" \/ (bench.at = "warm up" /\ config.warmup)
    /\ bench.tx = None /\ bench.next = None
    /\ bench' = IF bench.at = "warm up" THEN Enter("measurement") ELSE [bench EXCEPT !.at = After(@)]
    /\ UNCHANGED <<config, traffic, network, report>>

\* wait_for_proposers: every validator has proposed since the baseline.
ProposersSeen ==
    /\ bench.at = "warm up" /\ config.validators /\ bench.tx = None /\ bench.next = None
    /\ \A v \in Nodes : \E b \in bench.baseline + 1 .. Len(network.blocks) :
         network.blocks[b].proposer = v
    /\ Goes("reset")
    /\ UNCHANGED <<config, traffic, network, report>>

\* sender.flush, then debug_clearTxpool at every validator, in any order.
ClearPool(v) ==
    /\ bench.at = "reset" /\ Idle /\ v \notin bench.cleared
    /\ network' = [network EXCEPT !.pool[v] = {}]
    /\ bench' = [bench EXCEPT !.cleared = @ \cup {v},
                              !.at = IF bench.cleared \cup {v} = Nodes THEN "poll" ELSE @]
    /\ UNCHANGED <<config, traffic, report>>

AllEmpty == \A v \in Nodes : network.pool[v] = {}
NoTarget == -1

TargetAtOnce(empties) == Max({HeadOf(v) : v \in Nodes})  \* fault

TargetOfSlowest(empties) == \* fault
    IF AllEmpty /\ empties >= 3 THEN Min({HeadOf(v) : v \in Nodes}) ELSE NoTarget

\* The target is fixed by the third poll in a row that finds all pools empty.
Target(empties) ==
    CASE ~AllEmpty -> NoTarget
      [] AllEmpty /\ empties >= 3 /\ bench.target = NoTarget -> Max({HeadOf(v) : v \in Nodes})
      [] OTHER -> bench.target

\* One round of reset_after_warmup's polls.
PollReset ==
    LET empties == IF AllEmpty THEN Min({3, bench.empties + 1}) ELSE 0
        target == Target(empties)
    IN  /\ bench.at = "poll"
        /\ bench' = IF target # NoTarget /\ \A v \in Nodes : network.finish[v] >= target
                      THEN Enter("ramp up")
                      ELSE [bench EXCEPT !.empties = empties, !.target = target]
        /\ UNCHANGED <<config, traffic, network, report>>

RestartBlock ==
    /\ bench.at = "restart block"
    /\ bench' = [Enter("measurement") EXCEPT !.first = HeadOf(Query)]
    /\ UNCHANGED <<config, traffic, network, report>>
-----------------------------------------------------------------------------
(* Measurement, and what comes after                                       *)

\* Blocks carry the wall-clock time; the end of the measurement is its
\* start plus the duration, whenever the loop notices.
TimePasses ==
    /\ Timed /\ ~bench.expired
    /\ bench' = [bench EXCEPT !.expired = TRUE, !.time = "after"]
    /\ UNCHANGED <<config, traffic, network, report>>

\* Other metrics and no receipts; then the boundary, then the tail.
TailBlock ==
    /\ bench.at = "tail block"
    /\ bench' = IF bench.label = "measured" THEN [bench EXCEPT !.label = "tail"]
                ELSE [bench EXCEPT !.at = "tail", !.last = HeadOf(Query), !.expired = FALSE]
    /\ UNCHANGED <<config, traffic, network, report>>

Measured == {i \in DOMAIN Input : traffic.label[i] = "measured"}

Flush ==
    /\ bench.at = "flush" /\ Idle
    /\ IF HasWarmup /\ Measured = {} THEN Fails ELSE Goes(IF config.drain THEN "drain" ELSE "end block")
    /\ UNCHANGED <<config, traffic, network, report>>

\* wait_for_pool_drain: three readings of zero in a row.
PollDrain ==
    /\ bench.at = "drain"
    /\ LET zeros == IF network.pool[Query] = {} THEN bench.zeros + 1 ELSE 0
       IN  bench' = [bench EXCEPT !.zeros = zeros, !.at = IF zeros = 3 THEN "end block" ELSE @]
    /\ UNCHANGED <<config, traffic, network, report>>

EndBlock ==
    /\ bench.at = "end block"
    /\ bench' = [bench EXCEPT !.at = "report", !.last = IF HasTail THEN @ ELSE HeadOf(Query)]
    /\ UNCHANGED <<config, traffic, network, report>>

Times == {"before", "measured", "after"}

\* fault: what comes after the measurement stays in the report
InReportUncut(b) == HasWarmup => network.blocks[b].time # "before"

InReport(b) == LET time == network.blocks[b].time
               IN  (HasWarmup => time # "before") /\ (HasTail => time # "after")

\* collect_block_stats, the two cuts by timestamp, trim_trailing_empty_blocks.
ReportedBlocks ==
    LET kept == {b \in bench.first + 1 .. bench.last : InReport(b)}
    IN  {b \in kept : \E c \in kept : c >= b /\ network.blocks[c].txs # {}}

\* BlockReceiptCollector::finish takes the receipts of the whole range; only
\* those of reported blocks are kept.
MakeReport ==
    /\ bench.at = "report" /\ Goes("done")
    /\ report' = [blocks |-> ReportedBlocks,
                  records |-> IF ~config.receipts THEN {}
                              ELSE UNION {network.blocks[b].txs : b \in ReportedBlocks}]
    /\ UNCHANGED <<config, traffic, network>>

\* A line that cannot be parsed, a timeout, or an RPC that fails for good
\* ends the command at once; what it had read last is not looked at again.
GiveUp == config.gives_up /\ ~Ended /\ bench.tx = None /\ Fails /\ UNCHANGED <<config, traffic, network, report>>
-----------------------------------------------------------------------------
(* The Sender's workers                                                    *)

LaneIsFree(i) ==
    /\ \A j \in traffic.active : Input[j].keys \cap Input[i].keys = {}
    /\ \A k \in DOMAIN traffic.queue : traffic.queue[k] = i =>
         \A j \in 1 .. k - 1 : Input[traffic.queue[j]].keys \cap Input[i].keys = {}
    /\ \A j \in Setup : Input[j].id \in Input[i].depends_on => j \in traffic.done

\* Only inside send and flush.  It is accounted to the metrics of that moment;
\* a node takes it into its pool or refuses it.
Dispatch(i) ==
    /\ bench.at \in Reading \cup {"finish setup", "reset", "flush"}
    /\ i \in ToSet(traffic.queue) /\ LaneIsFree(i)
    /\ \/ \E v \in Nodes : /\ network' = [network EXCEPT !.pool[v] = @ \cup {i}]
                           /\ traffic' = [traffic EXCEPT !.queue = Remove(@, i),
                                 !.active = @ \cup {i}, !.label[i] = bench.label]
       \/ /\ traffic' = [traffic EXCEPT !.queue = Remove(@, i), !.done = @ \cup {i},
                                        !.failed = IF i \in Setup THEN @ \cup {i} ELSE @,
                                        !.label[i] = bench.label]
          /\ UNCHANGED network
    /\ UNCHANGED <<config, bench, report>>

OnChain(node) == UNION {network.blocks[b].txs : b \in 1 .. HeadOf(node)}

\* Submission is enough for the workload, setup waits for its receipt.
Settle(i) ==
    /\ ~Ended /\ i \in traffic.active /\ (i \in Setup => i \in OnChain(Query))
    /\ \E failed \in SUBSET ({i} \cap Setup) :
         traffic' = [traffic EXCEPT !.active = @ \ {i}, !.done = @ \cup {i}, !.failed = @ \cup failed]
    /\ UNCHANGED <<config, bench, network, report>>
-----------------------------------------------------------------------------
(* The network                                                             *)

\* A node at the head proposes transactions of its pool.
Propose(v) ==
    /\ ~Ended /\ HeadOf(v) = Len(network.blocks) /\ Len(network.blocks) < config.max_blocks
    /\ \E txs \in SUBSET network.pool[v] :
         network' = [network EXCEPT
           !.blocks = Append(@, [txs |-> txs, proposer |-> v, time |-> bench.time]),
           !.head[v] = @ + 1, !.pool[v] = @ \ txs]
    /\ UNCHANGED <<config, bench, traffic, report>>

Follow(v) ==
    /\ ~Ended /\ HeadOf(v) < Len(network.blocks)
    /\ network' = [network EXCEPT !.head[v] = @ + 1, !.pool[v] = @ \ network.blocks[HeadOf(v) + 1].txs]
    /\ UNCHANGED <<config, bench, traffic, report>>

Gossip(v, w) ==
    /\ ~Ended /\ \E i \in network.pool[v] \ (network.pool[w] \cup OnChain(w)) :
         network' = [network EXCEPT !.pool[w] = @ \cup {i}]
    /\ UNCHANGED <<config, bench, traffic, report>>

\* The stage Finish catches up with the head; only the reset looks at it.
Persist(v) ==
    /\ bench.at = "poll" /\ network.finish[v] < HeadOf(v)
    /\ network' = [network EXCEPT !.finish[v] = HeadOf(v)]
    /\ UNCHANGED <<config, bench, traffic, report>>
-----------------------------------------------------------------------------
Init ==
    /\ config \in SendRuns
    /\ bench = [at |-> "setup", position |-> 0, next |-> None, tx |-> None, label |-> "setup",
                time |-> "before", expired |-> FALSE, first |-> 0, last |-> 0, baseline |-> 0,
                cleared |-> {}, empties |-> 0, target |-> NoTarget, zeros |-> 0]
    /\ traffic = [queue |-> <<>>, active |-> {}, done |-> {}, failed |-> {}, accepted |-> <<>>,
                  label |-> [i \in DOMAIN Input |-> "none"]]
    /\ network = [blocks |-> <<>>, pool |-> [v \in Nodes |-> {}], head |-> [v \in Nodes |-> 0],
                  finish |-> [v \in Nodes |-> 0]]
    /\ report = [blocks |-> {}, records |-> {}]

Command ==
    \/ ReadSetup \/ FinishSetup \/ Read \/ DeadlineReached \/ Send \/ StartBlock \/ WarmUpEnds
    \/ ProposersSeen \/ (\E v \in Nodes : ClearPool(v)) \/ PollReset \/ RestartBlock
    \/ TailBlock \/ Flush \/ PollDrain \/ EndBlock \/ MakeReport

Network == \E v \in Nodes : Propose(v) \/ Follow(v) \/ Persist(v) \/ \E w \in Nodes : Gossip(v, w)

Next == Command \/ TimePasses \/ GiveUp \/ Network \/ \E i \in DOMAIN Input : Dispatch(i) \/ Settle(i)
Spec == Init /\ [][Next]_vars
-----------------------------------------------------------------------------
TypeOK ==
    /\ bench.at \in Reading \cup {"setup", "finish setup", "start block", "reset", "poll",
         "restart block", "tail block", "flush", "drain", "end block", "report", "done", "failed"}
    /\ bench.time \in Times /\ bench.position \in 0 .. Len(Input)
    /\ traffic.active \cup traffic.done \subseteq DOMAIN Input
    /\ \A v \in Nodes : network.finish[v] <= HeadOf(v) /\ HeadOf(v) <= Len(network.blocks)

Lost == (1 .. bench.position) \ (ToSet(traffic.accepted) \cup Skipped \cup {bench.next, bench.tx} \cup Setup)

\* send_workload_from_source drops at most the transaction in its hand when a
\* deadline passes; everything else of the workload reaches the Sender, in
\* the order of the input, whatever phases hand it over.
InputIsSentInOrder ==
    LET workload == SelectSeq(traffic.accepted, LAMBDA i : i \notin Setup)
    IN  /\ \A k \in 1 .. Len(workload) - 1 : workload[k] < workload[k + 1]
        /\ bench.at # "failed" =>
             Cardinality(Lost) <= CASE bench.time # "after" -> 0
                                    [] bench.time = "after" /\ ~(bench.label = "tail") -> 1
                                    [] OTHER -> 2

\* Nothing of the setup, of a warm-up that was reset, or of the tail is in
\* the report; and what was dispatched to be measured and was waited for is.
\* With a tail the time decides: what was mined before the measurement was
\* over is in the report, and what was mined after it is not.
ReportIsMeasured ==
    bench.at = "done" =>
      LET txs == UNION {network.blocks[b].txs : b \in report.blocks}
          labels == {traffic.label[i] : i \in txs}
          mined == UNION {network.blocks[b].txs : b \in
                     {d \in 1 .. HeadOf(Query) : HasTail => network.blocks[d].time # "after"}}
      IN  /\ "setup" \notin labels /\ "tail" \notin labels
          /\ config.validators => "warm up" \notin labels
          /\ txs \subseteq mined
          /\ (config.drain \/ HasTail) /\ Len(config.nodes) = 1 => Measured \cap mined \subseteq txs
          /\ config.receipts => report.records = txs

\* Before anything is measured every validator has persisted the warm-up.
WarmUpIsPersisted ==
    config.validators /\ bench.label = "measured" =>
      \A b \in DOMAIN network.blocks :
        (\E i \in network.blocks[b].txs : traffic.label[i] = "warm up") =>
          \A v \in Nodes : network.finish[v] >= b
=============================================================================
