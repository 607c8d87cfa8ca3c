----------------------------- MODULE BenchTools -----------------------------
(***************************************************************************)
(* The bench command line (bench-cli) and what its commands use of         *)
(* bench-core, each part a module of its own.  They hand finished values   *)
(* to one another and share no state (the receipt tracker is used by the   *)
(* Sender, the token map by every request), so a behaviour is one of a     *)
(* single part and the variables of the others stay idle.                  *)
(*                                                                         *)
(*   "send"      bench send: setup, warm-up, measurement, drain            *)
(*   "call"      bench call: priming, open loop, drain                     *)
(*   "scan"      the digest of a JSON-RPC response as its chunks arrive    *)
(*   "blocks"    bench send-blocks: payloads, forkchoice, reorganisations  *)
(*   "auth"      the sender token map, its writers and its readers         *)
(*   "receipts"  the receipt collector                                     *)
(*   "stats"     block receipts and statistics at the end of bench send    *)
(*   "metrics"   scrapers, forwarder, aggregation and reporters            *)
(*   "rate"      the rate limiter                                          *)
(*   "tracker"   the receipt tracker of the Sender                         *)
(***************************************************************************)
EXTENDS BenchParts

CONSTANTS
    SendRuns, Responses, Measurements, PipelineRuns, Scrapes, Limits,    \* what each part is given
    MaxKeyLen, MaxErrorCapture, Fetches, QueueSize, MaxRequest, Unit, Window,
    BlocksPerScan,                                            \* constants of the code
    Askers, Tx, Reg, Expiries,                                \* who takes part
    MaxClock, MaxTicks, MaxRuns, MaxHeight, MaxRollbacks      \* bounds

VARIABLES
    part,
    bench, traffic, network, report,                                         \* send
    scan, answer,                                                            \* scan
    node, collection, block_report,                                          \* stats
    counters, store, scrapers, forwarder, command, published,                \* metrics
    limiter, askers, granted,                                                \* rate
    running, preparing, ready, pending, run, scanner, stage, subscribed,
    interest, result, submitted, chain, expires_at, rollbacks                \* tracker

SendVars == <<bench, traffic, network, report>>
ScanVars == <<scan, answer>>
StatsVars == <<node, collection, block_report>>
MetricsVars == <<counters, store, scrapers, forwarder, command, published>>
RateVars == <<limiter, askers, granted>>
TrackerVars == <<running, preparing, ready, pending, run, scanner, stage, subscribed, interest,
                 result, submitted, chain, expires_at, rollbacks>>
vars == <<part, config, now, SendVars, CallVars, ScanVars, BlockVars, AuthVars, ReceiptVars,
          StatsVars, MetricsVars, RateVars, TrackerVars>>

Send == INSTANCE BenchSend
Scan == INSTANCE ResponseScan
Stats == INSTANCE BlockReports WITH report <- block_report
Metrics == INSTANCE MetricsPipeline WITH collector <- counters, MaxTime <- MaxClock
Rate == INSTANCE RateLimiter WITH MaxTime <- MaxTicks
Tracker == INSTANCE ReceiptTracker

\* What the code takes for granted of its inputs.
ASSUME BenchAssumption == Send!SendAssumption /\ Scan!ScanAssumption
-----------------------------------------------------------------------------
Idle(variable) == variable = "idle"

Init ==
    /\ part \in {"send", "call", "scan", "blocks", "auth", "receipts", "stats", "metrics",
                 "rate", "tracker"}
    /\ part = "tracker" => Idle(config)
    /\ part \notin {"auth", "receipts", "rate"} => Idle(now)
    /\ IF part = "send" THEN Send!Init
       ELSE Idle(bench) /\ Idle(traffic) /\ Idle(network) /\ Idle(report)
    /\ IF part = "call" THEN Call!Init ELSE Idle(call) /\ Idle(flying) /\ Idle(recorder)
    /\ IF part = "scan" THEN Scan!Init ELSE Idle(scan) /\ Idle(answer)
    /\ IF part = "blocks" THEN Blocks!Init ELSE Idle(replay) /\ Idle(engine) /\ Idle(mempool)
    /\ IF part = "auth" THEN Auth!Init
       ELSE Idle(late) /\ Idle(file) /\ Idle(writer) /\ Idle(provider) /\ Idle(request) /\ Idle(outside)
    /\ IF part = "receipts" THEN Receipts!Init
       ELSE Idle(included) /\ Idle(errors) /\ Idle(caller) /\ Idle(collector) /\ Idle(task)
    /\ IF part = "stats" THEN Stats!Init ELSE Idle(node) /\ Idle(collection) /\ Idle(block_report)
    /\ IF part = "metrics" THEN Metrics!Init
       ELSE /\ Idle(counters) /\ Idle(store) /\ Idle(scrapers) /\ Idle(forwarder)
            /\ Idle(command) /\ Idle(published)
    /\ IF part = "rate" THEN Rate!Init ELSE Idle(limiter) /\ Idle(askers) /\ Idle(granted)
    /\ IF part = "tracker" THEN Tracker!Init
       ELSE /\ Idle(running) /\ Idle(preparing) /\ Idle(ready) /\ Idle(pending) /\ Idle(run)
            /\ Idle(scanner) /\ Idle(stage) /\ Idle(subscribed) /\ Idle(interest)
            /\ Idle(result) /\ Idle(submitted) /\ Idle(chain) /\ Idle(expires_at) /\ Idle(rollbacks)

\* Only the variables of part p may change.
Only(p) ==
    /\ part = p /\ UNCHANGED part
    /\ IF p = "tracker" THEN UNCHANGED config ELSE TRUE
    /\ IF p \in {"auth", "receipts", "rate"} THEN TRUE ELSE UNCHANGED now
    /\ IF p = "send" THEN TRUE ELSE UNCHANGED SendVars
    /\ IF p = "call" THEN TRUE ELSE UNCHANGED CallVars
    /\ IF p = "scan" THEN TRUE ELSE UNCHANGED ScanVars
    /\ IF p = "blocks" THEN TRUE ELSE UNCHANGED BlockVars
    /\ IF p = "auth" THEN TRUE ELSE UNCHANGED AuthVars
    /\ IF p = "receipts" THEN TRUE ELSE UNCHANGED ReceiptVars
    /\ IF p = "stats" THEN TRUE ELSE UNCHANGED StatsVars
    /\ IF p = "metrics" THEN TRUE ELSE UNCHANGED MetricsVars
    /\ IF p = "rate" THEN TRUE ELSE UNCHANGED RateVars
    /\ IF p = "tracker" THEN TRUE ELSE UNCHANGED TrackerVars

Next ==
    \/ Only("send") /\ Send!Next
    \/ Only("call") /\ Call!Next
    \/ Only("scan") /\ Scan!Next
    \/ Only("blocks") /\ Blocks!Next
    \/ Only("auth") /\ Auth!Next
    \/ Only("receipts") /\ Receipts!Next
    \/ Only("stats") /\ Stats!Next
    \/ Only("metrics") /\ Metrics!Next
    \/ Only("rate") /\ Rate!Next
    \/ Only("tracker") /\ Tracker!Next

Spec == Init /\ [][Next]_vars
-----------------------------------------------------------------------------
\* The runtime polls every task, time goes on, the metric stores answer or time
\* out, a sender that is left to run settles its transactions, and an endpoint
\* that the tracker asks again and again answers each of a scan's requests now
\* and then; the receipt collector's lookups need not be answered.  A stop flag
\* is looked at whenever its task waits, however often ticks come.  Since a
\* behaviour is of one part, a weak fairness condition may name an action of
\* each part: it is then that of the part which runs.
FairSpec ==
    /\ Spec
    /\ WF_vars(\/ Only("receipts") /\ Receipts!Tick
               \/ Only("metrics") /\ Metrics!Aggregation)
    /\ WF_vars(\/ Only("receipts") /\ (Receipts!Close \/ Receipts!Receive \/ Receipts!Stop)
               \/ Only("metrics") /\ Metrics!Forwarding)
    /\ WF_vars(\/ Only("receipts") /\ \E i \in DOMAIN config.tracked : Receipts!Join(i) \/ Receipts!TimeOut(i)
               \/ Only("metrics") /\ Metrics!Commanding)
    /\ \A kind \in {"sent", "success", "failed"} : WF_vars(Only("metrics") /\ Metrics!Record(kind))
    /\ \A s \in 1 .. 2 : WF_vars(Only("metrics") /\ s \in Metrics!Sources /\ Metrics!Scraping(s))
    /\ \A r \in Reg : WF_vars(Only("tracker") /\ Tracker!Own(r))
    /\ \A n \in 1 .. MaxRuns :
         /\ WF_vars(Only("tracker") /\ Tracker!StopIfIdle(n))
         /\ WF_vars(Only("tracker") /\ Tracker!Expire(n))
         /\ WF_vars(Only("tracker") /\ Tracker!BlockMissing(n))
         /\ SF_vars(Only("tracker") /\ Tracker!Baseline(n))
         /\ SF_vars(Only("tracker") /\ Tracker!ReadHead(n))
         /\ SF_vars(Only("tracker") /\ Tracker!FetchBlock(n))
         /\ SF_vars(Only("tracker") /\ Tracker!FetchReceipts(n))
-----------------------------------------------------------------------------
\* Type invariant.
TypeOK ==
    CASE part = "send" -> Send!TypeOK
      [] part = "call" -> Call!TypeOK
      [] part = "scan" -> Scan!TypeOK
      [] part = "blocks" -> Blocks!TypeOK
      [] part = "auth" -> Auth!TypeOK
      [] part = "receipts" -> Receipts!TypeOK
      [] part = "stats" -> Stats!TypeOK
      [] part = "metrics" -> Metrics!TypeOK
      [] part = "rate" -> Rate!TypeOK
      [] part = "tracker" -> Tracker!TypeOK

\* bench send: each key's transactions go out in the order of the input, the
\* report is about measured transactions, the warm-up is persisted on every
\* node before the measurement starts (send.rs, preparation.rs), and what the
\* report says of blocks is of the blocks of one chain (receipt_metrics.rs,
\* composition.rs, inclusion_latency.rs).
MeasurementIsClean ==
    /\ part = "send" => Send!InputIsSentInOrder /\ Send!ReportIsMeasured /\ Send!WarmUpIsPersisted
    /\ part = "stats" => Stats!NoFalseMismatch /\ Stats!CompositionIsOfTheBlocks

\* bench call: every request is counted once, also those in flight at the end,
\* and answers are compared with the first pass (call.rs).
CallsAddUp == part = "call" => Call!EveryRequestIsAccounted /\ Call!ReferencesAreOfTheFirstPass

\* bench send-blocks: the engine is never asked to leave a block it was told is
\* final, and the whole input is replayed (send_blocks.rs).
BlocksAreReplayed == part = "blocks" => Blocks!FinalizedIsKept /\ Blocks!InputIsReplayed

\* The token map is renewed before it expires, readers keep a whole one, and
\* no writer destroys what it may not replace (auth.rs, auth_token_map.rs).
TokensStayValid == part = "auth" => Auth!TokensAreRenewed /\ Auth!NothingIsClobbered

\* The receipt collector: all that was registered before the end is in the
\* collection, or its time was over (receipt_metrics.rs).
ReceiptsAreCollected == part = "receipts" => Receipts!AcceptedAreCollected

\* Metrics: what was forwarded is archived too, archives and uploads are whole
\* and in order, a run is visible when all of it is, and the series of the
\* report match its counters (metrics.rs, prometheus_reporter.rs, reporter.rs).
MetricsAreWhole ==
    part = "metrics" =>
        /\ Metrics!ForwardedIsArchived /\ Metrics!ArchiveIsWhole /\ Metrics!UploadIsInOrder
        /\ Metrics!VisibleRunsAreWhole /\ Metrics!SeriesMatchCounters

\* What the commands are built from: the limiter's rate is an upper bound at
\* every moment, and is reached when somebody always wants a token (sender.rs);
\* the digest that is compared is of the answer's result or error alone,
\* however the response is cut into chunks (bench-core/src/call.rs).
HelpersAreExact ==
    /\ part = "rate" => Rate!RateIsHeld /\ Rate!RateIsReached
    /\ part = "scan" => Scan!DigestIsOfTheAnswer

\* Everything with tasks of its own comes to its end: the collector's finish
\* returns, also when the node never answers; a reporting pipeline drains; a
\* waiter whose transaction is in a block hears of it or leaves, and a scan
\* cursor that a rollback left ahead of the head rejoins it.
NothingIsOwed ==
    /\ part = "receipts" => (caller.finish => collector.done)
    /\ part = "metrics" => command.pc = "done"
    /\ part = "tracker" => ~\E r \in Reg : Tracker!Unheard(r)
    /\ part = "tracker" => ~\E n \in 1 .. MaxRuns : Tracker!Ahead(n)
EveryPartEnds == []<>NothingIsOwed
=============================================================================
