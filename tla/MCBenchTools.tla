--------------------------- MODULE MCBenchTools ---------------------------
(***************************************************************************)
(* Instances of BenchTools for TLC: for every part the inputs that take it *)
(* through all its branches.                                               *)
(***************************************************************************)
EXTENDS BenchTools, TLC

-----------------------------------------------------------------------------
(* Inputs of bench send (BenchSend). *)

SendTx(phase, id, depends_on, keys) == [phase |-> phase, id |-> id, depends_on |-> depends_on, keys |-> keys]
Work(keys) == SendTx("workload", "w", {}, keys)

SendSetup == <<SendTx("setup", "s1", {"s2"}, {"a"}), SendTx("setup", "s2", {}, {"b"})>>

SendPlain ==
    [input |-> SendSetup \o <<Work({"a"}), Work({"b"}), Work({"a"})>>, nodes |-> <<"n">>,
     validators |-> FALSE, warmup |-> FALSE, duration |-> FALSE, delay |-> FALSE, skip_setup |-> FALSE,
     drain |-> TRUE, receipts |-> TRUE, gives_up |-> TRUE, max_blocks |-> 4]

SendWarm == [SendPlain EXCEPT !.input = <<Work({"a"}), Work({"a"})>>, !.warmup = TRUE,
                              !.duration = TRUE, !.max_blocks = 3]

\* The measured interval ends while workload is still being read.
SendCutOff == [SendPlain EXCEPT !.skip_setup = TRUE, !.duration = TRUE, !.drain = FALSE, !.max_blocks = 2]

SendBad == {[SendPlain EXCEPT !.input = <<SendTx("setup", "s1", {"s1"}, {"a"}), Work({"a"})>>],
            [SendPlain EXCEPT !.input = <<Work({"a"})>> \o SendSetup]}

\* Two validators have to propose before the reset; with one, three blocks hold
\* a warm-up, a measurement that is cut by its time, and a tail.
SendValidators == [SendPlain EXCEPT !.input = <<Work({"a"}), Work({"a"})>>, !.nodes = <<"n", "m">>,
                                    !.validators = TRUE, !.duration = TRUE, !.drain = FALSE, !.max_blocks = 3]

SendTail == [SendValidators EXCEPT !.input = <<Work({"a"}), Work({"a"}), Work({"a"})>>, !.nodes = <<"n">>,
                                   !.delay = TRUE, !.gives_up = FALSE]

MCSendRuns == {SendPlain, SendWarm, SendCutOff, [SendPlain EXCEPT !.input = SendSetup],
               SendValidators, SendTail} \cup SendBad

-----------------------------------------------------------------------------
(* Inputs of bench call (BenchCall). *)

CallLine(method, params, label) == [method |-> method, params |-> params, label |-> label]
CallLines == <<CallLine("eth_call", <<"call with fees">>, "a"), CallLine("trace_block", <<"7">>, "none")>>

CallMeasure ==
    [lines |-> CallLines, methods |-> {}, block_tag |-> TRUE, strip_fees |-> TRUE, measure |-> TRUE,
     rate |-> TRUE, requests |-> 1, max_issued |-> 1, max_concurrent |-> 1, passes |-> 1, concurrency |-> 2,
     digests |-> {"x", "y"}, max_fail_rate_pct |-> 10]

MCCallRuns ==
    {[CallMeasure EXCEPT !.requests = 2, !.passes = 0],
     [CallMeasure EXCEPT !.requests = -1, !.max_issued = 2, !.measure = FALSE],
     [CallMeasure EXCEPT !.lines = <<CallLines[1], CallLine("trace_call", <<"call", "x", "8">>, "b")>>,
                         !.methods = {"eth_call"}, !.passes = 2],
     CallMeasure,
     [CallMeasure EXCEPT !.rate = FALSE, !.passes = 2, !.concurrency = 3, !.methods = {"trace_block"}],
     [CallMeasure EXCEPT !.methods = {"trace_transaction"}],
     [CallMeasure EXCEPT !.lines = <<CallLine("eth_sendTransaction", <<>>, "none")>>],
     [CallMeasure EXCEPT !.lines = <<CallLine("trace_call", <<>>, "none")>>, !.passes = 0],
     [CallMeasure EXCEPT !.lines = <<CallLine("eth_call", <<>>, "invalid")>>]}

-----------------------------------------------------------------------------
(* Inputs of response digests (ResponseScan). *)

Quoted(bytes) == <<"\"">> \o bytes \o <<"\"">>
KeyAnd(key, value) == Quoted(<<key>>) \o <<":">> \o value
ScanValues == {<<"1">>, <<"1", "1">>, Quoted(<<"x", "\\", "\"", "}">>),
               <<"{">> \o KeyAnd("result", <<"1">>) \o <<"}">>, <<"[", " ", "{", "}", ",", "1", "]">>}
ScanMember(key, value) == [key |-> key, value |-> value]
ScanOthers == {ScanMember(<<"id">>, <<"1">>), ScanMember(<<"re", "sult", "x">>, <<"1">>),
               ScanMember(<<"\\", "\"">>, Quoted(<<>>))}

MCResponses ==
    {[members |-> members, gap |-> gap, cut |-> cut] :
       members \in {<<ScanMember(<<"result">>, v)>> : v \in ScanValues}
              \cup {<<o, ScanMember(<<"result">>, v)>> : o \in ScanOthers, v \in ScanValues}
              \cup {<<ScanMember(<<"error">>, v), ScanMember(<<"result">>, <<"1">>)>> : v \in ScanValues}
              \cup {<<ScanMember(<<"result">>, <<"1">>), ScanMember(<<"result">>, v)>> : v \in ScanValues}
              \cup {<<o>> : o \in ScanOthers},
       gap \in {<<>>, <<" ">>}, cut \in {0, 1, 2}}

-----------------------------------------------------------------------------
(* Inputs of bench send-blocks (SendBlocks). *)

BlockTxs == <<[blob |-> FALSE, selected |-> TRUE], [blob |-> TRUE, selected |-> TRUE],
              [blob |-> FALSE, selected |-> FALSE], [blob |-> FALSE, selected |-> TRUE]>>
BlockLines(n, big) == [i \in 1 .. n |-> [number |-> i + 2, big |-> big, txs |-> BlockTxs]]

MCBlockRuns ==
    {[lines |-> BlockLines(n, FALSE), depth |-> depth, gap |-> gap, every |-> n % 3, mempool |-> FALSE] :
       n \in 0 .. 8, depth \in 0 .. 3, gap \in 0 .. 2}
      \cup {[lines |-> BlockLines(3, big), depth |-> 0, gap |-> 0, every |-> 1, mempool |-> pooled] :
              big \in BOOLEAN, pooled \in BOOLEAN}
      \cup {[lines |-> BlockLines(2, TRUE), depth |-> 1, gap |-> 0, every |-> 1, mempool |-> FALSE]}

-----------------------------------------------------------------------------
(* Inputs of sender authentication (AuthTokens): a watcher, with a one-shot *)
(* writer that replaces its map or alone, and writers that may not replace  *)
(* anything.                                                                *)

AuthWriter(watch, force) == [watch |-> watch, force |-> force]
AuthSetting(writers, lead, reload, start) ==
    [writers |-> writers, ttl |-> 3, lead |-> lead, reload |-> reload, start |-> start]

MCAuthSetups ==
    {AuthSetting(<<AuthWriter(TRUE, FALSE)>>, 1, 2, "map"),
     AuthSetting(<<AuthWriter(TRUE, FALSE)>>, 1, 1, "link"),
     AuthSetting(<<AuthWriter(TRUE, FALSE), AuthWriter(FALSE, TRUE)>>, 1, 1, "none"),
     AuthSetting(<<AuthWriter(FALSE, FALSE), AuthWriter(FALSE, FALSE)>>, 1, 1, "none"),
     AuthSetting(<<AuthWriter(FALSE, FALSE), AuthWriter(FALSE, TRUE)>>, 1, 1, "map")}

-----------------------------------------------------------------------------
(* Inputs of the receipt collector (ReceiptCollector). *)

Labelled(hash, inst) == [hash |-> hash, instance |-> inst]
MCCollections ==
    {[tracked |-> <<Labelled("a", 1), Labelled("a", 2), Labelled("b", 1)>>, workers |-> 1],
     [tracked |-> <<Labelled("a", 1), Labelled("b", 1), Labelled("a", 1)>>, workers |-> 2]}

-----------------------------------------------------------------------------
(* Inputs of block reports (BlockReports). *)

StatsTx(hash, gas) == [hash |-> hash, gas |-> gas, success |-> hash # "t3", price |-> 2]
Submission(hash, input, time) == [hash |-> hash, input |-> input, instance |-> 0, submitted |-> time]
StatsBlock(stamp, txs) == [stamp |-> stamp, txs |-> txs]

(* Four blocks with a system transaction, one before the measurement and an
   empty one after it; a transaction with two labels and one with none; a
   fork in which transactions have moved, and one that is shorter. *)
Stable == <<StatsBlock(1, <<StatsTx("s1", 0), StatsTx("t0", 2)>>),
            StatsBlock(3, <<StatsTx("t1", 1), StatsTx("t2", 2)>>),
            StatsBlock(4, <<StatsTx("t3", 1)>>), StatsBlock(5, <<StatsTx("s2", 0)>>)>>
Moved == <<Stable[1], StatsBlock(3, <<StatsTx("t1", 1)>>),
           StatsBlock(4, <<StatsTx("t2", 2), StatsTx("t3", 1)>>), Stable[4]>>
Shorter == SubSeq(Moved, 1, 3)
Registered == <<Submission("t1", "a", 1), Submission("t1", "b", 2), Submission("t1", "a", 3), Submission("t2", "b", 2),
                Submission("t4", "a", 2)>>
Measurement(forks, first, last) ==
  [first |-> first, last |-> last, forks |-> forks, registered |-> Registered,
   from |-> 2, until |-> 9]

MCMeasurements == {Measurement(<<Stable, Moved, Shorter>>, 1, 4), Measurement(<<Stable>>, 3, 2)}

-----------------------------------------------------------------------------
(* Inputs of the metrics pipeline (MetricsPipeline). *)

Pipeline(s, ticks, f, reporters, final, n, w) ==
  [scrapers |-> s, ticks |-> ticks, forward |-> f, reporters |-> reporters,
   final |-> final, txs |-> n, batch |-> 2, workers |-> w, latencies |-> n = 1]

(* Two scrapers that forward; a send-blocks that ends with a snapshot; a send
   that only publishes at the end; one with no scraper. *)
MCPipelines == {Pipeline(2, 1, TRUE, <<>>, FALSE, 0, 1),
                Pipeline(1, 1, TRUE, <<"json", "remote">>, TRUE, 0, 2),
                Pipeline(1, 2, FALSE, <<"remote", "clickhouse">>, FALSE, 0, 2),
                Pipeline(0, 0, FALSE, <<"json">>, FALSE, 2, 0)}

MCScrapes == {<<2, 0, 1>>, <<1, 2, 3>>}

-----------------------------------------------------------------------------
(* Inputs of the rate limiter (RateLimiter): slower and faster than a token *)
(* a tick; steps up, down and up again.                                     *)

RateStep(rate, length) == [rate |-> rate, length |-> length]
MCLimits == {<<RateStep(2, 1)>>, <<RateStep(4, 1)>>,
             <<RateStep(1, 3), RateStep(6, 2), RateStep(2, 2)>>}
=============================================================================
