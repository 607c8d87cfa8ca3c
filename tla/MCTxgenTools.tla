--------------------------- MODULE MCTxgenTools ---------------------------
(***************************************************************************)
(* Instances of TxgenTools for TLC: for every tool the inputs that take it *)
(* through all its branches.                                               *)
(***************************************************************************)
EXTENDS TxgenTools, TLC

-----------------------------------------------------------------------------
(* Inputs of the run loop (ScenarioRun). *)

RunPool(addresses, slots, offset) == [addresses |-> addresses, slots |-> slots, offset |-> offset]

RunConfig(depends_on, saves, pools, count, max, timed, paced, fail_fast) ==
    [depends_on |-> depends_on, saves |-> saves, pools |-> pools, count |-> count,
     max_in_flight |-> max, duration |-> timed, paced |-> paced, fail_fast |-> fail_fast]

RunDiamond == <<{}, {1}, {1}, {2, 3}>>
RunChain == <<{}, {1}>>

\* Two pools list the same accounts in different orders, so that instances
\* meet in both orders.
Crossed == {RunPool(<<1, 2, 3>>, 1, 0), RunPool(<<2, 3, 1>>, 1, 0)}

\* Every instance leases two of three accounts of one pool, next to an account
\* of another that is one of them now and then.
Mixed == {RunPool(<<1, 2, 3>>, 2, 1), RunPool(<<4, 1>>, 1, 0)}

MCConfigs ==
    { RunConfig(RunDiamond, {1, 2}, {RunPool(<<1, 2>>, 1, 1)}, 0, 2, TRUE, TRUE, FALSE),
      RunConfig(RunChain, {1}, Crossed, 3, 3, FALSE, FALSE, TRUE),
      RunConfig(RunChain, {}, Mixed, 3, 2, TRUE, TRUE, TRUE) }

-----------------------------------------------------------------------------
(* Inputs of waits (ScenarioWaits). *)

WaitRequest(kind, topic, first, confirmations, range, anonymous, events) ==
    [kind |-> kind, topic |-> topic, start |-> first, confirmations |-> confirmations,
     max_block_range |-> range, anonymous |-> anonymous, events |-> events]
LogRequest(topic, first, confirmations, range) ==
    WaitRequest("log", topic, first, confirmations, range, FALSE, <<>>)

WaitConfig(want, window, height, reorgs, errors) ==
    [want |-> want, window |-> window, max_height |-> height, max_reorgs |-> reorgs,
     max_errors |-> errors]

MCDeep == WaitConfig(<<LogRequest("a", 1, 1, 2)>>, 2, 3, 1, 0)
MCConfirmations == {MCDeep}
MCHistory == WaitConfig(<<LogRequest("a", 1, 0, 1)>>, 1, 2, 1, 0)
MCErrors == WaitConfig(<<LogRequest("a", 1, 0, 1)>>, 1, 1, 1, 2)
MCConfirmed == WaitConfig(<<LogRequest("a", 1, 1, 1)>>, 2, 2, 0, 0)
MCTwo == WaitConfig(<<LogRequest("a", 1, 0, 1), WaitRequest("log", "b", 2, 0, 2, TRUE, <<>>)>>, 2, 1, 0, 0)
MCReceipt == WaitConfig(<<WaitRequest("receipt", "t", 1, 1, 1, FALSE, <<{1}>>)>>, 1, 3, 1, 0)
MCEvents == {WaitConfig(<<WaitRequest("receipt", "t", 1, 0, 1, FALSE, <<e, f, {2, 3}>>)>>, 1, 1, 0, 0) :
                 e, f \in SUBSET {1, 2, 3}}
MCWaits == {MCHistory, MCErrors, MCConfirmed, MCTwo, MCReceipt} \cup MCEvents

-----------------------------------------------------------------------------
(* Inputs of generate (Generation). *)

GenTemplate(lanes, needs) == [lanes |-> lanes, needs |-> needs]
GenStep(id, depends_on, actions, binds, sent) ==
    [id |-> id, depends_on |-> depends_on, actions |-> actions, binds |-> binds, txs |-> sent]
GenItem(weight, steps, circular) == [weight |-> weight, steps |-> steps, circular |-> circular]
GenMined == [a |-> 1, b |-> 0]

MCWorkload ==
    [workers |-> 2, count |-> 3, duration |-> FALSE, gas |-> FALSE, rpc |-> TRUE, online |-> FALSE,
     stdout |-> TRUE, state_out |-> FALSE, state_in |-> {"none"}, mined |-> GenMined, setup |-> <<>>,
     mix |-> <<GenItem(1, <<GenTemplate({"a", "b"}, {})>>, FALSE),
               GenItem(2, <<GenTemplate({"a"}, {}), GenTemplate({"b"}, {})>>, FALSE)>>]

GenSteps == <<GenStep("s1", {}, 1, TRUE, <<GenTemplate({"a"}, {})>>),
            GenStep("s2", {"s1"}, 1, TRUE, <<GenTemplate({"b"}, {"s1"})>>)>>

MCSetups == {[MCWorkload EXCEPT !.count = 0, !.online = online, !.setup =
                 <<GenStep("s1", d1, 1, TRUE, <<GenTemplate({"a", "b"}, {})>>),
                   GenStep("s2", d2, 1, FALSE, <<GenTemplate({"a"}, {}), GenTemplate({"b"}, n2)>>),
                   GenStep("s3", d3, 1, TRUE, <<GenTemplate({"a"}, {})>>)>>] :
               online \in BOOLEAN, d1 \in {{}, {"s2"}, {"s3"}}, d2 \in {{}, {"s1"}, {"s3"}},
               d3 \in {{}, {"s1"}, {"s1", "s2"}, {"s9"}}, n2 \in {{}, {"s1"}, {"s3"}}}

MCArguments ==
    {[MCWorkload EXCEPT !.workers = workers, !.count = count, !.duration = duration \/ count = -1,
                        !.gas = gas, !.rpc = rpc, !.state_in = in, !.state_out = out,
                        !.setup = GenSteps, !.mix = mix] :
       workers \in {1}, count \in {-1, 0, 2}, duration \in {FALSE}, gas \in BOOLEAN, rpc \in BOOLEAN,
       in \in {{"none"}, {"s1"}, {"s1", "s2"}}, out \in BOOLEAN,
       mix \in {<<GenItem(0, <<GenTemplate({"a"}, {})>>, FALSE)>>,
                <<GenItem(1, <<GenTemplate({}, {}), GenTemplate({"a"}, {"s2"})>>, FALSE)>>,
                <<GenItem(1, <<GenTemplate({"a"}, {})>>, TRUE)>>,
                <<GenItem(1, <<GenTemplate({"b"}, {})>>, FALSE), GenItem(0, <<>>, FALSE)>>}}

MCInvalid == {[MCWorkload EXCEPT !.workers = 0],
              [MCWorkload EXCEPT !.setup = <<[GenSteps[1] EXCEPT !.actions = 2]>>]}
MCGenerations == {MCWorkload} \cup MCInvalid \cup MCSetups \cup MCArguments

-----------------------------------------------------------------------------
(* Inputs of scenario documents (ScenarioSchema). *)

Var(names) == [op |-> "var", path |-> names]
Param(name) == [op |-> "param", name |-> name]
Text(fits) == [op |-> "literal", type |-> "none", fits |-> fits]
NoFields == <<>>
Hash(expr) == "transaction_hash" :> expr

Action(kind, id, after, save, fields) ==
    [kind |-> kind, id |-> id, deps |-> after, save |-> save, await |-> FALSE, grouped |-> FALSE, fields |-> fields]
Use(fragment, as, with, after) == [use |-> fragment, as |-> as, with |-> with, deps |-> after]
Fragment(parameters, outputs, steps) == [parameters |-> parameters, outputs |-> outputs, steps |-> steps]
FileOf(includes, fragments) == [version |-> 1, chains |-> FALSE, include |-> includes, fragments |-> fragments]
RootOf(includes, fragments) == [FileOf(includes, fragments) EXCEPT !.chains = TRUE]

\* Submits, and waits for the receipt and for the one it is given; both roots
\* of its graph have private results.
Pay == Fragment("h" :> "bytes32", <<"tx">> :> "submit",
         <<Action("submit", <<"s">>, <<>>, <<"tx">>, NoFields),
           Action("receipt", <<"w">>, <<<<"s">>>>, <<"r">>, Hash(Var(<<"tx", "tx_hash">>))),
           Action("receipt", <<"v">>, <<>>, <<>>, Hash(Param("h")))>>)
\* Hands its parameter on, under a local name its caller may use too.
Outer == Fragment("p" :> "bytes32", <<"inner", "tx">> :> "submit",
           <<Action("submit", <<"o">>, <<>>, <<"tx">>, NoFields),
             Use("pay", "inner", "h" :> Param("p"), <<<<"o">>>>)>>)
Library == [pay |-> Pay, outer |-> Outer]

Document(files, execution, steps, auth) ==
    [files |-> files, execution |-> execution, auth |-> auth, steps |-> steps,
     bindings |-> [acct |-> "account", salt |-> "bytes32"]]
Library2 == "root" :> RootOf(<<"lib">>, <<>>) @@ "lib" :> FileOf(<<>>, Library)

Arguments == {Var(<<"tx", "tx_hash">>), Var(<<"cp", "block_hash">>), Text({"bytes32"}), Text({}), Var(<<"cp", "chain">>)}
Ends == {<<"a", "tx", "tx_hash">>, <<"a", "r", "block_hash">>, <<"a", "tx", "receipt", "block_hash">>,
         <<"a", "inner", "tx", "tx_hash">>, <<"a", "inner", "r", "tx_hash">>, <<"tx", "tx_hash">>, <<"cp", "block_number">>, <<"salt">>}

Uses == {Document(Library2, execution,
            <<Action("checkpoint", <<"c">>, <<>>, <<"cp">>, NoFields), Action("submit", <<"t">>, <<>>, <<"tx">>, NoFields),
              Use(fragment, "a", (IF fragment = "pay" THEN "h" ELSE "p") :> argument, after),
              Action("receipt", <<"e">>, afterUse, <<>>, Hash(Var(names)))>>, FALSE) :
            execution \in {"sequential", "dag"}, fragment \in {"pay", "outer"}, argument \in Arguments,
            after \in {<<>>, <<<<"t">>>>, <<<<"c">>, <<"t">>>>},
            afterUse \in {<<>>, <<<<"a", "s">>>>, <<<<"a", "inner", "w">>>>, <<<<"t">>>>}, names \in Ends}

\* Files and fragments that are found wrong before a step is looked at.
One == <<Use("pay", "a", "h" :> Text({"bytes32"}), <<>>)>>
Files == {
    "root" :> RootOf(<<"x", "y">>, <<>>) @@ "x" :> FileOf(<<"lib">>, <<>>) @@ "y" :> FileOf(<<"lib">>, <<>>) @@ "lib" :> FileOf(<<>>, Library),
    "root" :> RootOf(<<"x">>, Library) @@ "x" :> FileOf(<<"y">>, <<>>) @@ "y" :> FileOf(<<"x">>, <<>>),
    "root" :> RootOf(<<"x">>, Library),
    "root" :> RootOf(<<"x">>, Library) @@ "x" :> RootOf(<<>>, <<>>),
    "root" :> RootOf(<<"x">>, Library) @@ "x" :> FileOf(<<>>, "pay" :> Pay),
    "root" :> RootOf(<<"x", "y", "x">>, Library) @@ "x" :> FileOf(<<>>, <<>>) @@ "y" :> FileOf(<<>>, <<>>),
    "root" :> RootOf(<<>>, Library @@ "loop" :> Fragment(<<>>, <<>>, <<Use("pool", "n", <<>>, <<>>)>>)
                                   @@ "pool" :> Fragment(<<>>, <<>>, <<Use("loop", "n", <<>>, <<>>)>>)),
    "root" :> RootOf(<<>>, Library @@ "wrong" :> Fragment(<<>>, <<"tx">> :> "receipt", Pay.steps)),
    "root" :> RootOf(<<>>, Library @@ "empty" :> Fragment(<<>>, <<>>, <<>>)),
    "root" :> RootOf(<<>>, Library @@ "peek" :> Fragment(<<>>, <<>>,
        <<Use("pay", "n", "h" :> Text({}), <<>>), Action("receipt", <<"p">>, <<>>, <<>>, Hash(Var(<<"n", "r", "tx_hash">>)))>>)),
    "root" :> RootOf(<<>>, Library @@ "twice" :> Fragment(<<>>, <<>>,
        <<Action("submit", <<"s">>, <<>>, <<"n">>, NoFields), Use("pay", "n", "h" :> Text({}), <<>>)>>))}

\* Waits with other fields, names that collide, graphs with cycles.
Wait(fields, grouped) == <<[Action("log", <<"l">>, <<>>, <<"log">>, fields) EXCEPT !.grouped = grouped],
                           Action("receipt", <<"e">>, <<<<"l">>>>, <<>>, Hash(Var(<<"log", "events", "x", "h">>)) @@ "sender" :> Var(<<"acct", "address">>))>>
Others ==
    {Document(Library2, execution, Wait(fields, grouped), auth) :
        execution \in {"sequential", "dag"}, grouped \in BOOLEAN, auth \in BOOLEAN,
        fields \in {Hash(Var(<<"salt">>)), "from_block" :> Text({}),
                    Hash(Var(<<"salt">>)) @@ "sender" :> Var(<<"acct", "address">>),
                    Hash(Var(<<"acct", "ref">>)), "from_block" :> Text({}) @@ "address" :> Var(<<"acct", "ref", "select", "index">>)}}
      \cup {Document(Library2, execution, steps, FALSE) : execution \in {"sequential", "dag"}, steps \in {
          <<Use("empty", "a", <<>>, <<>>)>>, <<Use("pay", "a", <<>>, <<>>)>>,
          One \o One, One \o <<Action("submit", <<"z">>, <<>>, <<"a", "z">>, NoFields)>>,
          <<Use("pay", "salt", "h" :> Text({"bytes32"}), <<>>)>>,
          <<Action("submit", <<"z">>, <<<<"y">>>>, <<"s">>, NoFields), Action("submit", <<"y">>, <<<<"z">>>>, <<"s", "t">>, NoFields)>>,
          <<Action("submit", <<"z">>, <<<<"y">>>>, <<>>, NoFields), Action("submit", <<"y">>, <<<<"z">>>>, <<>>, NoFields)>>,
          <<[Action("submit", <<"z">>, <<>>, <<"s">>, NoFields) EXCEPT !.await = TRUE],
            Action("receipt", <<"e">>, <<<<"z">>>>, <<>>, Hash(Var(<<"s", "receipt", "tx_hash">>)) @@ "sender" :> Var(<<"s", "sender">>))>>,
          <<Action("invoke", <<"z">>, <<>>, <<"s">>, NoFields),
            Action("receipt", <<"e">>, <<<<"z">>>>, <<>>, Hash(Var(<<"s", "anything">>)))>>}}

MCDocuments == Uses \cup Others \cup {Document(f, "dag", One, FALSE) : f \in Files}

-----------------------------------------------------------------------------
(* Inputs of extract (Extract). *)

Change(n, i) == [at |-> i, of |-> <<n, i>>]
Account(n, writes, reads, values) ==
    [storage |-> [s \in DOMAIN writes |-> [k \in DOMAIN writes[s] |-> Change(n, writes[s][k])]],
     reads |-> reads, values |-> [k \in DOMAIN values |-> Change(n, values[k])]]
\* Lists of block n, which has one transaction: it changes an account before,
\* by and after it, it reads what others write, or it names another account.
Lists(n) == { "a" :> Account(n, "s" :> <<1, 2>>, {}, <<0, 1>>),
              "a" :> Account(n, "t" :> <<0>>, {"s"}, <<2>>),
              ("a" :> Account(n, <<>>, {"s", "t"}, <<>>)) @@ ("b" :> Account(n, <<>>, {}, <<0, 2>>)) }

Block(gas, sent, list) == [gas |-> gas, txs |-> sent, list |-> list]
NoList == [a \in {} |-> 0]
PlainBlocks == << Block(1, <<5, 5, 7>>, NoList), Block(1, <<>>, NoList), Block(1, <<3>>, NoList) >>

ExtractBase == [format |-> "blocks", chain |-> PlainBlocks, from |-> 1, to |-> 3, missing |-> {}, buffer |-> 2,
         methods |-> {}, top |-> -1, tracers |-> <<>>, parent |-> FALSE, unusable |-> FALSE,
         count |-> 0, target |-> 0]
Corpora == { [ExtractBase EXCEPT !.format = "calls", !.parent = TRUE, !.top = 2],
             [ExtractBase EXCEPT !.format = "calls", !.methods = {"trace_call", "debug_traceCall"}, !.top = 1,
                          !.tracers = << <<"callTracer">>, <<"structlog">> >>],
             [ExtractBase EXCEPT !.format = "traces", !.top = 2,
                          !.methods = {"trace_block", "trace_transaction", "debug_traceBlockByNumber"}] }
BigBlocks == { [ExtractBase EXCEPT !.format = "big", !.count = count, !.target = 2, !.buffer = buffer, !.missing = missing,
                            !.chain = << Block(1, <<1>>, l1), Block(gas, <<1>>, l2), Block(1, <<1>>, l3) >>] :
               count \in {1, 2}, buffer \in {1, 2}, missing \in {{}, {3}}, gas \in {1, 2},
               l1 \in Lists(1), l2 \in Lists(2), l3 \in Lists(3) }
MCExtractions ==
    {ExtractBase, [ExtractBase EXCEPT !.format = "transactions", !.buffer = 1], [ExtractBase EXCEPT !.top = 0], [ExtractBase EXCEPT !.unusable = TRUE],
     [ExtractBase EXCEPT !.format = "calls", !.methods = {"trace_block"}], [ExtractBase EXCEPT !.from = 3, !.to = 2],
     [ExtractBase EXCEPT !.missing = {2}], [ExtractBase EXCEPT !.to = 4, !.buffer = 3],
     [ExtractBase EXCEPT !.format = "big", !.count = 3, !.target = 1]} \cup Corpora \cup BigBlocks

-----------------------------------------------------------------------------
(* Inputs of nonce lanes of the Tempo plugin (TempoLanes). *)

TempoPlain == [type |-> "tempo", pool |-> "users", index |-> 0, keys |-> <<>>, expiring |-> FALSE, nonce |-> -1,
          valid_for |-> FALSE, valid_before |-> FALSE, auth |-> "none", setup |-> "",
          seed |-> "s", first |-> 3, range |-> 0, fee |-> 10]
TempoSharp == [TempoPlain EXCEPT !.expiring = TRUE, !.valid_for = TRUE, !.index = 1]
TempoTemplates == << TempoPlain,
                [TempoPlain EXCEPT !.keys = <<7>>],
                [TempoPlain EXCEPT !.keys = <<0, 7>>],
                [TempoPlain EXCEPT !.keys = <<9, 5>>, !.valid_before = TRUE],
                [TempoSharp EXCEPT !.auth = "inline", !.first = 1, !.range = 2],
                [TempoPlain EXCEPT !.auth = "keychain", !.setup = "keys"],
                [TempoSharp EXCEPT !.fee = 12],
                [TempoPlain EXCEPT !.type = "ethereum", !.index = 2, !.nonce = 3],
                [TempoPlain EXCEPT !.auth = "keychain", !.setup = "keys", !.pool = "others"],
                [TempoPlain EXCEPT !.auth = "inline"],
                TempoSharp,
                [TempoPlain EXCEPT !.auth = "inline", !.first = 2] >>
TempoChain == [lane \in {"a", "b"} \X {0, 5, 7, 9} |-> IF lane[2] = 7 THEN [latest |-> 1, pending |-> 2]
                                                   ELSE [latest |-> 3, pending |-> 3]]
Keychain == [template |-> 0, pool |-> "users", access_keys |-> 2, id |-> "keys"]
Of(template) == [Keychain EXCEPT !.template = template]
TempoBase == [mode |-> "generate", pools |-> ("users" :> <<"a", "b">>) @@ ("others" :> <<"b", "a">>),
         templates |-> TempoTemplates, keychain |-> TempoPlain, chain |-> TempoChain, setup |-> <<>>, mix |-> {},
         instances |-> 0, steps |-> <<>>]
Generated == { [TempoBase EXCEPT !.mode = mode, !.mix = mix, !.setup = before] :
               mode \in {"offline", "generate"},
               mix \in {{1, 2}, {3, 4}, {5, 7}, {1, 6}, {8, 1}, {9}, {10, 5}, {12, 5}, {7, 11}},
               before \in {<<>>, <<Keychain, Of(5)>>, <<Keychain, Keychain>>} }
TempoScenarios == { [TempoBase EXCEPT !.mode = "scenario", !.instances = 2, !.steps = steps, !.setup = before] :
               steps \in {<<3, 1>>, <<4, 2>>, <<5, 7>>, <<6, 10>>, <<8, 9>>, <<10, 3>>},
               before \in {<<>>, <<Keychain>>, <<Of(5), Of(7)>>, <<[Keychain EXCEPT !.access_keys = 1]>>} }
MCTempoRuns == Generated \cup TempoScenarios

-----------------------------------------------------------------------------
(* Inputs of the start of a scenario (ScenarioStart). *)

StartTx(account, content) == [account |-> account, content |-> content, builds |-> TRUE]
ChainA == [ledger |-> "l", endpoint |-> "e", id |-> "1", expected |-> "auto", createx |-> "unused", loads |-> TRUE,
           authenticated |-> {"a", "b"}, pools |-> ("users" :> <<"a", "b">>),
           setup |-> <<StartTx("a", "x"), StartTx("a", "y")>>]
ChainB == [ChainA EXCEPT !.ledger = "m", !.endpoint = "f", !.expected = "1", !.createx = "deployed",
                         !.setup = <<StartTx("b", "z")>>]
StartStep(c, nonce) == [chain |-> c, account |-> "a", nonce |-> nonce, dynamic |-> FALSE, known |-> TRUE, builds |-> TRUE]
Dynamic(c) == [StartStep(c, -1) EXCEPT !.dynamic = TRUE]
Binding(select) == [pool |-> "users", select |-> select, index |-> 1, chains |-> {}]
StartBase == [chains |-> <<ChainA, ChainB>>, nonces |-> ("a" :> 3 @@ "b" :> 0), reverts |-> {"z"},
         steps |-> <<StartStep(1, -1), Dynamic(2), StartStep(1, 6), StartStep(2, 4)>>,
         bindings |-> <<Binding("lease"), [Binding("lease") EXCEPT !.chains = {2}], Binding("index")>>]
MCStarts ==
    { StartBase,
      [StartBase EXCEPT !.steps = <<StartStep(1, 5), StartStep(2, 4)>>],
      [StartBase EXCEPT !.steps[1].known = FALSE],
      [StartBase EXCEPT !.chains[2].loads = FALSE],
      [StartBase EXCEPT !.steps[1].builds = FALSE],
      [StartBase EXCEPT !.bindings = @ \o @],
      [StartBase EXCEPT !.chains[2].pools = ("users" :> <<"b", "a">>), !.bindings[1].chains = {1}],
      [StartBase EXCEPT !.chains[2].endpoint = "e", !.chains[2].ledger = "l", !.steps = <<>>],
      [StartBase EXCEPT !.chains[2].expected = "2"],
      [StartBase EXCEPT !.chains[2].createx = "missing"],
      [StartBase EXCEPT !.chains[2].authenticated = {"a"}],
      \* two names of one ledger
      [StartBase EXCEPT !.chains[2].ledger = "l"],
      [StartBase EXCEPT !.chains[2].ledger = "l", !.chains[2].setup = <<StartTx("a", "x")>>] }

-----------------------------------------------------------------------------
(* Inputs of reports (ScenarioReports). *)

ReportStep(id, save, derived, dependsOn, submits, observes) ==
  [id |-> id, save |-> save, derived |-> derived, dependsOn |-> dependsOn, submits |-> submits,
   observes |-> observes]

(* A submission, two observations of it, a join; three instances of a
   sequential pair; one whose first ID is the save of its second step. *)
ReportDiamond == [execution |-> "dag", instances |-> 1, samples |-> 1, late |-> {1, 3},
            steps |-> <<ReportStep("a", "", "s1", {}, "tx", ""),
                        ReportStep("b", "", "s2", {"a"}, "", "tx"),
                        ReportStep("c", "", "s3", {"a"}, "", "tx"),
                        ReportStep("d", "", "s4", {"b", "c"}, "", "")>>]
Pair(n) == [execution |-> "sequential", instances |-> n, samples |-> 1, late |-> {},
            steps |-> <<ReportStep("", "s", "s1", {}, "tx", ""),
                        ReportStep("", "", "s2", {}, "", "tx")>>]
Shadow == [execution |-> "sequential", instances |-> 1, samples |-> 0, late |-> {},
           steps |-> <<ReportStep("receipt", "", "s1", {}, "tx", ""),
                       ReportStep("", "receipt", "s2", {}, "", "tx"),
                       ReportStep("", "", "s3", {}, "", "")>>]

MCReports == {ReportDiamond, Pair(3)}
MCShadow == {Shadow}

-----------------------------------------------------------------------------
(* Inputs of publications (ScenarioPublish): destinations of both kinds in
   any order, a file named twice, one store under two spellings, no path, no
   metadata, a run that fails or has failed instances. *)

ToFile(name) == [kind |-> "json", name |-> name, slash |-> FALSE]
ToStore(name, slash) == [kind |-> "clickhouse", name |-> name, slash |-> slash]
PublishReport == [steps |-> 2, edges |-> 1, traces |-> << <<1, 0>>, <<2, 1>> >>, receipts |-> 3, failed |-> FALSE]
PublishBare == [steps |-> 1, edges |-> 0, traces |-> <<>>, receipts |-> 0, failed |-> FALSE]
Publication(specs, content) == [specs |-> specs, metadata |-> TRUE, runs |-> TRUE, report |-> content]
MCPublications ==
    { Publication(<<>>, PublishBare),
      Publication(<<ToStore("h", FALSE), ToFile("f"), ToStore("k", TRUE), ToFile("g")>>, PublishReport),
      Publication(<<ToStore("h", FALSE), ToFile("f"), ToFile("f")>>, PublishBare),
      Publication(<<ToFile("f"), ToStore("h", FALSE), ToStore("h", TRUE)>>, PublishBare),
      Publication(<<ToFile("")>>, PublishBare),
      Publication(<<ToStore("h", FALSE)>>, [PublishBare EXCEPT !.failed = TRUE]),
      [Publication(<<ToStore("h", FALSE)>>, PublishBare) EXCEPT !.metadata = FALSE],
      [Publication(<<>>, PublishBare) EXCEPT !.runs = FALSE] }
=============================================================================
