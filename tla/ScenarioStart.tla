----------------------------- MODULE ScenarioStart -----------------------------
(***************************************************************************)
(* How a scenario starts (ScenarioEngine::initialize of scenario/engine.rs *)
(* and materialize_setup_online of generate.rs): documents are loaded,     *)
(* every chain is prepared, then the setup and the static submissions of   *)
(* every chain are built without being sent, and only then are the setup   *)
(* transactions of the chains sent, one chain after the other, each after  *)
(* the success of the one before it.                                       *)
(*                                                                         *)
(* Chains are numbered in the order of their names.  Each has the name of  *)
(* the ledger behind its endpoint; two chains of a scenario with different *)
(* endpoints may lead to the same ledger.                                  *)
(***************************************************************************)
EXTENDS Integers, Sequences, FiniteSets, Functions

CONSTANT Starts    \* the scenarios

(* A scenario has a chain (validate of schema.rs), the contents of a setup *)
(* tell its entries apart, and every account that is used has a nonce.     *)
StartAssumption ==
    \A s \in Starts :
        /\ s.chains \in Seq(Range(s.chains)) /\ s.chains # <<>>
        /\ \A c \in DOMAIN s.chains :
             LET entries == s.chains[c].setup
             IN  /\ entries \in Seq(Range(entries))
                 /\ \A k \in DOMAIN entries : s.nonces[entries[k].account] \in Nat
                 /\ \A k, l \in DOMAIN entries : entries[k].content = entries[l].content => k = l
        /\ s.steps \in Seq(Range(s.steps)) /\ \A k \in DOMAIN s.steps : s.nonces[s.steps[k].account] \in Nat

VARIABLES
    config,     \* the scenario; it never changes
    start,      \* where initialize is, the chains that passed each phase, why it failed
    tracker,    \* the NonceTracker of every prepared chain
    setup,      \* the setup of the chain that is being initialised
    ledgers     \* the nodes: pending and included transactions

vars == <<config, start, tracker, setup, ledgers>>

Chains == DOMAIN config.chains
Chain == config.chains[start.chain]
Names == {config.chains[c].ledger : c \in Chains}
Accounts == {tx.account : tx \in UNION {Range(config.chains[c].setup) : c \in Chains}}
              \cup {step.account : step \in Range(config.steps)}
Fail(why) == start' = [start EXCEPT !.phase = "failed", !.why = why]
-----------------------------------------------------------------------------
(* Loading, without a request                                              *)

\* load_chain_inputs and parse_rpc_url: the network, the URLs and the documents
\* of a chain; validate_workload_references: actions, templates and events.
Loadable == \A c \in Chains : config.chains[c].loads
ReferencesAreKnown == \A step \in Range(config.steps) : step.known

\* fault: endpoints are not compared
AnyEndpoints == FALSE

\* load_chain_inputs: aliases are told by their submission endpoint.
Aliases == \E c, d \in Chains : c < d /\ config.chains[c].endpoint = config.chains[d].endpoint

\* binding_submit_chains: a pool must be known to the chains that its bindings
\* are used on, or, when there are none, to some chain.
Pools == {b.pool : b \in Range(config.bindings)}
Leases(pool) == Len(SelectSeq(config.bindings, LAMBDA b : b.pool = pool /\ b.select = "lease"))
Known(pool) == {c \in Chains : pool \in DOMAIN config.chains[c].pools}
Consumers(pool) ==
    LET used == UNION {b.chains : b \in {d \in Range(config.bindings) : d.pool = pool}}
    IN  IF used = {} THEN Known(pool) ELSE used

\* build_binding_runtimes
BindingsFit ==
    \A pool \in Pools :
        /\ Consumers(pool) # {} /\ Consumers(pool) \subseteq Known(pool)
        /\ \A c, d \in Consumers(pool) : config.chains[c].pools[pool] = config.chains[d].pools[pool]
        /\ \A c \in Consumers(pool), b \in Range(config.bindings) :
             LET size == Len(config.chains[c].pools[pool])
             IN  /\ size > 0 /\ Leases(pool) <= size
                 /\ b.pool = pool /\ b.select = "index" => b.index < size

\* load_validated_scenario_inputs
Load ==
    /\ start.phase = "load"
    /\ IF ~Loadable THEN Fail("document")
       ELSE IF Aliases THEN Fail("alias")
       ELSE IF ~ReferencesAreKnown THEN Fail("reference")
       ELSE IF ~BindingsFit THEN Fail("binding")
       ELSE start' = [start EXCEPT !.phase = "prepare"]
    /\ UNCHANGED <<config, tracker, setup, ledgers>>
-----------------------------------------------------------------------------
(* What the node answers                                                   *)

Ledger == ledgers[Chain.ledger]
Used(ledger, account) == Cardinality({tx \in ledger.pending \cup ledger.included : tx.account = account})
Mined(ledger, account) == Cardinality({tx \in ledger.included : tx.account = account})

\* fetch_pending_protocol_nonces
PendingNonces(ledger) == [a \in Accounts |-> config.nonces[a] + Used(ledger, a)]
NextNonce(ledger, account) == config.nonces[account] + Mined(ledger, account)

\* The node takes a transaction once, and no second one of a nonce.
Acceptable(tx) ==
    /\ tx.nonce >= NextNonce(Ledger, tx.account)
    /\ \A other \in Ledger.pending : other.account = tx.account => other.nonce # tx.nonce
Accepted(tx) == [ledgers EXCEPT ![Chain.ledger].pending = @ \cup {tx}]

Include ==
    /\ start.phase \notin {"ready", "failed"}
    /\ \E name \in Names : \E tx \in ledgers[name].pending, status \in BOOLEAN :
         /\ tx.nonce = NextNonce(ledgers[name], tx.account)
         /\ status \/ tx.content \in config.reverts
         /\ ledgers' = [ledgers EXCEPT ![name] =
                          [pending |-> @.pending \ {tx}, included |-> @.included \cup {tx},
                           reverted |-> IF status THEN @.reverted ELSE @.reverted \cup {tx}]]
    /\ UNCHANGED <<config, start, tracker, setup>>
-----------------------------------------------------------------------------
(* Preparation and validation of every chain                               *)

Done(phase) == start.chain = Len(config.chains)

\* fault: a chain is initialised as soon as it is valid
StepwiseAdvance(phase, next) ==
    IF phase = "validate" THEN [start EXCEPT !.phase = next, !.valid = @ \cup {start.chain}]
    ELSE IF Done(phase) THEN [start EXCEPT !.phase = next, !.chain = 1]
    ELSE IF phase = "initialize" THEN [start EXCEPT !.phase = "validate", !.chain = @ + 1]
    ELSE [start EXCEPT !.chain = @ + 1]

\* The three loops of initialize: to the next chain, or to the next loop.
Advance(phase, next) ==
    LET passed == IF phase = "validate" THEN [start EXCEPT !.valid = @ \cup {start.chain}] ELSE start
    IN  IF Done(phase) THEN [passed EXCEPT !.phase = next, !.chain = 1]
        ELSE [passed EXCEPT !.chain = @ + 1]

\* ChainRuntime::prepare: the chain id, then the nonces.
PrepareChain ==
    /\ start.phase = "prepare"
    /\ \/ Fail("request") /\ UNCHANGED tracker
       \/ Chain.expected \notin {"auto", Chain.id} /\ Fail("id") /\ UNCHANGED tracker
       \/ /\ Chain.expected \in {"auto", Chain.id}
          /\ tracker' = Append(tracker, PendingNonces(Ledger))
          /\ start' = Advance("prepare", "validate")
    /\ UNCHANGED <<config, setup, ledgers>>

\* The nonces after the setup of a chain, from those before it.
AfterSetup(nonces, chain) ==
    [a \in Accounts |-> nonces[a] + Cardinality({k \in DOMAIN chain.setup : chain.setup[k].account = a})]

\* fault: dynamic steps are left out of the replay, and what follows them is not
ReplayAllStatic(c) ==
    {k \in DOMAIN config.steps : config.steps[k].chain = c /\ ~config.steps[k].dynamic}

\* statically_replayable_submissions
Replayable(c) ==
    {k \in DOMAIN config.steps :
        /\ config.steps[k].chain = c
        /\ \A j \in 1..k : config.steps[j].chain = c => ~config.steps[j].dynamic}

\* A step with a nonce of its own must come at the right moment.
Fits(k, steps, nonces) ==
    LET step == config.steps[k]
        before == {j \in steps : j < k /\ config.steps[j].account = step.account}
    IN  step.nonce \in {-1, nonces[step.account] + Cardinality(before)}

\* validate_setup_and_static_submissions: with a tracker and an adapter of its
\* own, which are dropped.
ValidateChain ==
    /\ start.phase = "validate"
    /\ LET nonces == AfterSetup(PendingNonces(Ledger), Chain)
           steps == Replayable(start.chain)
       IN  \/ Fail("request")
           \/ Chain.createx = "missing" /\ Fail("createx")
           \/ /\ \/ \E tx \in Range(Chain.setup) : ~tx.builds \/ tx.account \notin Chain.authenticated
                 \/ \E k \in steps : ~config.steps[k].builds \/ config.steps[k].account \notin Chain.authenticated
              /\ Fail("template")
           \/ (\E k \in steps : ~Fits(k, steps, nonces)) /\ Fail("static")
           \/ /\ Chain.createx # "missing"
              /\ \A tx \in Range(Chain.setup) : tx.builds /\ tx.account \in Chain.authenticated
              /\ \A k \in steps : config.steps[k].builds /\ config.steps[k].account \in Chain.authenticated
                                    /\ Fits(k, steps, nonces)
              /\ start' = Advance("validate", "initialize")
    /\ UNCHANGED <<config, tracker, setup, ledgers>>
-----------------------------------------------------------------------------
(* The setup of a chain: materialize_setup_online, submit_setup_transaction *)

Idle == [next |-> 1, at |-> "build", tx |-> <<>>]
Current == setup.tx[1]
InSetup(at) == start.phase = "initialize" /\ setup.at = at
Goes(at) == setup' = [setup EXCEPT !.at = at]

\* prepare_request may have to ask the node; the nonce is taken from the tracker.
BuildSetup ==
    /\ InSetup("build") /\ setup.next <= Len(Chain.setup)
    /\ LET entry == Chain.setup[setup.next]
           tx == [account |-> entry.account, nonce |-> tracker[start.chain][entry.account], content |-> entry.content]
       IN  \/ Fail("request") /\ UNCHANGED <<tracker, setup>>
           \/ /\ tracker' = [tracker EXCEPT ![start.chain][entry.account] = @ + 1]
              /\ setup' = [setup EXCEPT !.at = "send", !.tx = <<tx>>]
              /\ UNCHANGED start
    /\ UNCHANGED <<config, ledgers>>

\* submit_classified_until: an error before the request ends the start, one
\* after it is looked into; the node may have taken the transaction.
Submit ==
    /\ InSetup("send")
    /\ \/ Fail("not dispatched") /\ UNCHANGED <<setup, ledgers>>
       \/ Acceptable(Current) /\ ledgers' = Accepted(Current) /\ Goes("receipt") /\ UNCHANGED start
       \/ Acceptable(Current) /\ ledgers' = Accepted(Current) /\ Fail("mismatched hash") /\ UNCHANGED setup
       \/ Acceptable(Current) /\ ledgers' = Accepted(Current) /\ Goes("lookup") /\ UNCHANGED start
       \/ Goes("lookup") /\ UNCHANGED <<start, ledgers>>
    /\ UNCHANGED <<config, tracker>>

\* transaction_exists, by the deadline of the submission.
Lookup ==
    /\ InSetup("lookup")
    /\ \/ Fail("unknown") /\ UNCHANGED setup
       \/ Current \notin Ledger.pending \cup Ledger.included /\ Fail("rejected") /\ UNCHANGED setup
       \/ Current \in Ledger.pending \cup Ledger.included /\ Goes("receipt") /\ UNCHANGED start
    /\ UNCHANGED <<config, tracker, ledgers>>

\* fault: the next setup transaction does not wait for this one
ReceiptAtOnce == TRUE

ReceiptArrives == Current \in Ledger.included

AwaitReceipt ==
    /\ InSetup("receipt")
    /\ \/ Fail("no receipt") /\ UNCHANGED setup
       \/ Current \in Ledger.reverted /\ Fail("reverted") /\ UNCHANGED setup
       \/ /\ ReceiptArrives /\ Current \notin Ledger.reverted
          /\ setup' = [next |-> setup.next + 1, at |-> "build", tx |-> <<>>]
          /\ UNCHANGED start
    /\ UNCHANGED <<config, tracker, ledgers>>

ChainInitialized ==
    /\ InSetup("build") /\ setup.next > Len(Chain.setup)
    /\ start' = Advance("initialize", "ready")
    /\ setup' = Idle
    /\ UNCHANGED <<config, tracker, ledgers>>
-----------------------------------------------------------------------------
Init ==
    /\ config \in Starts
    /\ start = [phase |-> "load", chain |-> 1, valid |-> {}, why |-> "none"]
    /\ tracker = <<>>
    /\ setup = Idle
    /\ ledgers = [name \in Names |-> [pending |-> {}, included |-> {}, reverted |-> {}]]

Next ==
    \/ Load \/ PrepareChain \/ ValidateChain \/ BuildSetup \/ Submit \/ Lookup
    \/ AwaitReceipt \/ ChainInitialized \/ Include

Spec == Init /\ [][Next]_vars
-----------------------------------------------------------------------------
(* Properties                                                              *)

TypeOK ==
    /\ config \in Starts
    /\ start.phase \in {"load", "prepare", "validate", "initialize", "ready", "failed"}
    /\ start.chain \in Chains /\ start.valid \subseteq Chains
    /\ Len(tracker) <= Len(config.chains)
    /\ setup.at \in {"build", "send", "lookup", "receipt"} /\ Len(setup.tx) <= 1
    /\ DOMAIN ledgers = Names

\* Two endpoints of one ledger, which the program takes for two chains.
Shared(c) ==
    \E d \in Chains : /\ config.chains[d].ledger = config.chains[c].ledger
                     /\ config.chains[d].endpoint # config.chains[c].endpoint

\* No chain is changed before every chain has been prepared and its setup and
\* static submissions built once (initialize: "All remote chain IDs and initial
\* nonce state are checked before the first setup transaction can mutate any
\* chain, and every setup is materialized once without submission").
ValidBeforeMutation ==
    (\E name \in Names : ledgers[name].pending \cup ledgers[name].included # {})
        => start.valid = Chains /\ Len(tracker) = Len(config.chains)

\* Setup transactions of a chain are sent in their order, each when those
\* before it have succeeded (materialize_setup_online: "preserving ordered
\* setup side effects").  On a ledger with a second name, an entry may be there
\* already, from the setup of the other chain.
SetupIsSequential ==
    \A c \in {d \in Chains : ~Shared(d)} :
        LET entries == config.chains[c].setup
            ledger == ledgers[config.chains[c].ledger]
            of(k) == {tx \in ledger.pending \cup ledger.included : tx.content = entries[k].content}
        IN  \A k, l \in DOMAIN entries :
                k < l /\ of(l) # {} => of(k) # {} /\ of(k) \subseteq ledger.included \ ledger.reverted

\* When the instances start, the nonces of a chain are those of its ledger, so
\* that the first submissions neither collide nor leave a gap; setup outcomes
\* that were looked up count ("aliases would maintain conflicting nonce state").
NoncesAreCurrent ==
    start.phase = "ready" =>
        \A c \in Chains : ~Shared(c) => tracker[c] = PendingNonces(ledgers[config.chains[c].ledger])

\* A scenario whose submissions would come at the right nonces, in the order of
\* its document, is not refused for them: what cannot be replayed is not
\* guessed at (statically_replayable_submissions).
NoFalseRefusal ==
    start.why = "static" =>
        LET steps == {k \in DOMAIN config.steps : config.steps[k].chain = start.chain}
        IN  \E k \in steps : ~Fits(k, steps, AfterSetup(PendingNonces(Ledger), Chain))
=============================================================================
