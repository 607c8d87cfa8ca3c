------------------------------ MODULE TempoLanes ------------------------------
(***************************************************************************)
(* Which nonce and which key a Tempo transaction gets: build_request and   *)
(* prepare_request of the adapter (txgen-tempo/src/lib.rs, nonce.rs), from *)
(* the setup of a workload to its transactions.  A run is that of txgen    *)
(* generate, which reads the latest state, or of a scenario on one chain,  *)
(* which reads the pending state, prepares a lane before it builds, and    *)
(* materialises the steps of its instances in any order, one at a time.    *)
(*                                                                         *)
(* A lane is <<account, nonce key>>; key 0 is the protocol nonce.          *)
(***************************************************************************)
EXTENDS Integers, Sequences, FiniteSets, Functions

CONSTANTS TempoRuns,       \* workloads and command lines
          ExpiringKey,     \* TEMPO_EXPIRING_NONCE_KEY
          MaxGenerated     \* bound: transactions generated

\* A template draws its account from pool (any of it, or the one at index),
\* and its nonce key from keys; a literal key is known up front.  Its nonce
\* is -1 when it has none of its own.  A setup step is a template's number, or
\* 0 for a keychain_authorize_pool of pool with as many keys as access_keys.
\* Access keys of inline authorizations are those of the mnemonic seed from the
\* index first on, as many as range, 0 for no end; fee is max_fee_per_gas as
\* configured.  No pool is empty, the chain has every lane, and an access key
\* is authorized by its account itself (keychain_setup_template_value).
TempoAssumption ==
    /\ ExpiringKey \in Nat \ {0} /\ MaxGenerated \in Nat
    /\ \A c \in TempoRuns :
         /\ c.mode \in {"offline", "generate", "scenario"} /\ c.instances \in Nat
         /\ \A p \in DOMAIN c.pools : c.pools[p] \in Seq(Range(c.pools[p])) /\ c.pools[p] # <<>>
         /\ c.templates \in Seq(Range(c.templates)) /\ c.mix \subseteq DOMAIN c.templates
         /\ c.steps \in Seq(DOMAIN c.templates) /\ c.setup \in Seq(Range(c.setup))
         /\ \A i \in DOMAIN c.setup :
              c.setup[i].template \in {0} \cup DOMAIN c.templates /\ c.setup[i].pool \in DOMAIN c.pools
         /\ {"pool", "index", "keys", "auth", "fee", "first", "range"} \subseteq DOMAIN c.keychain /\ c.keychain.auth = "none"
         /\ \A t \in Range(c.templates) \cup {c.keychain} :
              /\ t.type \in {"tempo", "ethereum"} /\ t.auth \in {"none", "inline", "keychain"}
              /\ {t.fee, t.first, t.range} \subseteq Nat
              /\ t.keys \in Seq(Nat) /\ t.pool \in DOMAIN c.pools /\ t.index \in 0..Len(c.pools[t.pool])
              /\ \A p \in DOMAIN c.pools : \A lane \in Range(c.pools[p]) \X (Range(t.keys) \cup {0}) :
                   c.chain[lane].latest \in Nat /\ c.chain[lane].pending \in Nat

VARIABLES
    config,     \* it never changes
    tracker,    \* the NonceTracker: lanes, and the two counters of unique values
    keychains,  \* keychain_setups of the adapter
    progress,   \* of the run: the next setup step, the steps done, its errors
    txs         \* the transactions so far

vars == <<config, tracker, keychains, progress, txs>>

Scenario == config.mode = "scenario"
Accounts == UNION {Range(config.pools[p]) : p \in DOMAIN config.pools}
NoHint == -1
-----------------------------------------------------------------------------
(* Lanes                                                                   *)

\* fetch_lane_nonce: what the node says.
OnChain(lane) == IF Scenario THEN config.chain[lane].pending ELSE config.chain[lane].latest

\* collect_prefetchable_parallel_nonce_keys: of the mix, or of all templates.
LiteralKeys ==
    LET used == IF Scenario THEN Range(config.templates) ELSE {config.templates[k] : k \in config.mix}
    IN  {t.keys[1] : t \in {u \in used : Len(u.keys) = 1 /\ ~u.expiring}} \ {0, ExpiringKey}

\* prepare_nonces and prefetch_nonces: the lanes every account is asked for.
Prefetched == IF config.mode = "offline" THEN {} ELSE Accounts \X ({0} \cup LiteralKeys)

\* The random stream is a sequence of draws; select_signer takes the first if
\* the account is random, and resolve_value the next if the key is.
Draw(choices, n) == choices[1 + (n % Len(choices))]
Random(t) == t.index = 0
Signer(t, draws) ==
    LET pool == config.pools[t.pool]
    IN  IF Random(t) THEN 1 + (draws[1] % Len(pool)) ELSE t.index
NonceKey(t, draws) ==
    IF t.keys = <<>> THEN 0
    ELSE Draw(t.keys, IF Random(t) THEN draws[2] ELSE draws[1])

\* resolve_nonce_mode
Mode(t, key) ==
    CASE t.type # "tempo" -> "protocol"
      [] t.type = "tempo" /\ (t.expiring \/ key = ExpiringKey) -> "expiring"
      [] t.type = "tempo" /\ ~t.expiring /\ key = 0 -> "protocol"
      [] OTHER -> "parallel"
Lane(t, draws) ==
    LET key == NonceKey(t, draws)
    IN  <<config.pools[t.pool][Signer(t, draws)], IF Mode(t, key) = "parallel" THEN key ELSE 0>>
Expiring(t, draws) == Mode(t, NonceKey(t, draws)) = "expiring"

Reset(known, lane) == [l \in DOMAIN known \cup {lane} |-> IF l = lane THEN OnChain(lane) ELSE known[l]]

\* fault: the preview draws the key first
PrepareSwapped(t, draws) ==
    LET other == [draws EXCEPT ![1] = draws[2], ![2] = draws[1]]
        lane == <<config.pools[t.pool][Signer(t, draws)], NonceKey(t, other)>>
    IN  IF ~Scenario \/ Expiring(t, draws) \/ lane \in DOMAIN tracker.lanes THEN tracker.lanes
        ELSE Reset(tracker.lanes, lane)

\* prepare_request previews the draws of build_request on a copy of the stream.
Prepare(t, draws) ==
    LET lane == Lane(t, draws)
    IN  IF ~Scenario \/ Expiring(t, draws) \/ lane \in DOMAIN tracker.lanes THEN tracker.lanes
        ELSE Reset(tracker.lanes, lane)

\* next_nonce_lazy: a lane nobody has asked for is read now, if it may be.
Touch(known, lane) ==
    IF lane \in DOMAIN known THEN known
    ELSE IF config.mode = "offline" THEN [l \in DOMAIN known \cup {lane} |-> IF l = lane THEN 0 ELSE known[l]]
    ELSE Reset(known, lane)
Unprepared(known, lane) == Scenario /\ lane \notin DOMAIN known
-----------------------------------------------------------------------------
(* build_request.  hint and dense are the identities that a scenario step  *)
(* comes with; NoHint for setup and for txgen generate.                    *)

\* validate_tx_type_fields, resolve_nonce_mode, resolve_expiring_valid_before
Invalid(t, draws) ==
    \/ t.type = "ethereum" /\ (t.expiring \/ t.keys # <<>> \/ t.auth # "none" \/ t.valid_for)
    \/ t.expiring /\ t.keys # <<>>
    \/ ~Expiring(t, draws) /\ t.valid_for
    \/ Expiring(t, draws) /\ (t.valid_for <=> t.valid_before)

\* A lane gives a nonce unless the template has its own, which a scenario
\* checks; whatever fails later, the nonce is given back.
TakesNonce(t, draws) == ~Expiring(t, draws) /\ (t.nonce = -1 \/ Scenario)

Bumps(t, draws) == Expiring(t, draws) /\ t.nonce = -1

\* fault: the steps of a scenario are not kept apart from the setup
BumpTogether(hint) == IF hint # NoHint THEN 2 * hint + 1 ELSE 2 * tracker.bumps + 1

\* apply_expiring_uniqueness_bump: what is added to the fee that is configured,
\* even for a step of a scenario, odd otherwise.
Bump(hint) == IF hint # NoHint THEN 2 * hint + 1 + 1 ELSE 2 * tracker.bumps + 1

\* fault: the steps of a scenario count on from the setup one by one
KeyOffsetByHint(hint, dense) == IF dense # NoHint THEN dense ELSE tracker.inline

\* derive_inline_access_signer: the steps come after the keys of the setup.
KeyOffset(hint, dense) == IF dense # NoHint THEN tracker.inline + dense ELSE tracker.inline

\* fault: one key too many
KeysExceeded(t, dense) == t.range # 0 /\ KeyOffset(NoHint, dense) > t.range

KeysExhausted(t, dense) == t.range # 0 /\ KeyOffset(NoHint, dense) >= t.range

\* derive_mnemonic_signer: a key is a mnemonic and an index.
InlineKey(t, hint, dense) == <<t.seed, t.first + KeyOffset(hint, dense)>>

\* fault: any pool may use the keys of a setup
KeychainUnchecked(t) == t.setup \notin DOMAIN keychains

\* resolve_setup_access_signer
KeychainMissing(t) ==
    \/ t.setup \notin DOMAIN keychains
    \/ keychains[t.setup].pool # t.pool

\* A lane that is new to the tracker takes a request, which may fail.
Reads(t, draws) ==
    /\ config.mode # "offline" /\ ~Expiring(t, draws) /\ Lane(t, draws) \notin DOMAIN tracker.lanes
    /\ Scenario \/ (t.nonce = -1 /\ ~Invalid(t, draws))

Error(t, draws, dense, known, answers) ==
    LET lane == Lane(t, draws)
        own == t.nonce # -1
    IN  IF Reads(t, draws) /\ ~answers THEN "unread"
        ELSE IF Invalid(t, draws) THEN "invalid"
        ELSE IF TakesNonce(t, draws) /\ Unprepared(known, lane) THEN "unprepared"
        ELSE IF TakesNonce(t, draws) /\ own /\ t.nonce # known[lane] THEN "mismatch"
        ELSE IF t.auth = "keychain" /\ KeychainMissing(t) THEN "keychain"
        ELSE IF t.auth = "inline" /\ KeysExhausted(t, dense) THEN "exhausted"
        ELSE "none"

\* base and source are what the template configures of fee and key; inline
\* counts from 1, where the code's offset counts from 0.
Tx(t, draws, hint, dense, known) ==
    LET lane == Lane(t, draws)
        inline == t.auth = "inline"
    IN  [lane |-> IF Expiring(t, draws) THEN <<>> ELSE lane,
         account |-> lane[1],
         nonce |-> IF Expiring(t, draws) THEN 0 ELSE IF t.nonce # -1 THEN t.nonce ELSE known[lane],
         explicit |-> t.nonce # -1,
         bump |-> IF Bumps(t, draws) THEN Bump(hint) ELSE 0,
         base |-> t.fee,
         fee |-> t.fee + (IF Bumps(t, draws) THEN Bump(hint) ELSE 0),
         source |-> [first |-> t.first, range |-> t.range],
         inline |-> IF inline THEN 1 + KeyOffset(hint, dense) ELSE 0,
         key |-> IF inline THEN InlineKey(t, hint, dense) ELSE <<>>,
         keychain |-> IF t.auth = "keychain" THEN <<t.setup, Signer(t, draws)>> ELSE <<>>,
         authorizes |-> <<>>]

\* fault: what a failed build took is kept
LanesKept(known, lane, asked, error) == IF asked THEN [known EXCEPT ![lane] = @ + 1] ELSE known

\* prepare_materialized_template rewinds the lanes after an error.
LanesAfter(known, lane, asked, error) ==
    IF asked /\ error = "none" THEN [known EXCEPT ![lane] = @ + 1] ELSE known

\* prepare_request and build_request; the counters are never rewound.
Build(t, draws, hint, dense, answers) ==
    LET lane == Lane(t, draws)
        unread == Reads(t, draws) /\ ~answers
        prepared == IF unread THEN tracker.lanes ELSE Prepare(t, draws)
        asked == TakesNonce(t, draws) /\ ~unread /\ ~Invalid(t, draws) /\ ~Unprepared(prepared, lane)
        known == IF asked THEN Touch(prepared, lane) ELSE prepared
        error == Error(t, draws, dense, known, answers)
        bumped == Bumps(t, draws) /\ hint = NoHint /\ error \in {"none", "keychain", "exhausted"}
        derived == t.auth = "inline" /\ dense = NoHint /\ error \in {"none", "exhausted"}
    IN  [error |-> error,
         tracker |-> [lanes |-> LanesAfter(known, lane, asked, error),
                      bumps |-> tracker.bumps + (IF bumped THEN 1 ELSE 0),
                      inline |-> tracker.inline + (IF derived THEN 1 ELSE 0)],
         tx |-> IF error = "none" THEN <<Tx(t, draws, hint, dense, known)>> ELSE <<>>]
-----------------------------------------------------------------------------
(* The run                                                                 *)

Draws == {0, 1} \X {0, 1}
Fails == progress' = [progress EXCEPT !.at = "failed"]

Prefetch ==
    /\ progress.at = "prefetch"
    /\ \/ /\ tracker' = [tracker EXCEPT !.lanes = [lane \in Prefetched |-> OnChain(lane)]]
          /\ progress' = [progress EXCEPT !.at = "setup"]
       \/ Prefetched # {} /\ Fails /\ UNCHANGED tracker
    /\ UNCHANGED <<config, keychains, txs>>

Setup == config.setup[progress.step]
InSetup == progress.at = "setup" /\ progress.step <= Len(config.setup)
SetupTemplate(account) ==
    IF Setup.template # 0 THEN config.templates[Setup.template]
    ELSE [config.keychain EXCEPT !.pool = Setup.pool, !.index = account]

\* expand_keychain_authorize_pool: a key for every account, and a transaction
\* for every key.
ExpandKeychain ==
    /\ InSetup /\ Setup.template = 0 /\ progress.account = 0
    /\ IF Setup.id \in DOMAIN keychains \/ Setup.access_keys # Len(config.pools[Setup.pool])
       THEN Fails /\ UNCHANGED keychains
       ELSE /\ keychains' = [id \in DOMAIN keychains \cup {Setup.id} |->
                               IF id = Setup.id THEN [pool |-> Setup.pool] ELSE keychains[id]]
            /\ progress' = [progress EXCEPT !.account = 1]
    /\ UNCHANGED <<config, tracker, txs>>

\* Setup transactions are built one after the other, with no identity.
SetupTransaction ==
    /\ InSetup
    /\ Setup.template # 0 \/ progress.account # 0
    /\ \E draws \in Draws, answers \in BOOLEAN :
         LET built == Build(SetupTemplate(progress.account), draws, NoHint, NoHint, answers)
             authorizes == IF Setup.template = 0 THEN <<Setup.id, progress.account>> ELSE <<>>
             last == Setup.template # 0 \/ progress.account = Len(config.pools[Setup.pool])
         IN  /\ tracker' = built.tracker
             /\ txs' = txs \o [k \in DOMAIN built.tx |-> [built.tx[k] EXCEPT !.authorizes = authorizes]]
             /\ IF built.error # "none" THEN Fails
                ELSE progress' = IF last THEN [progress EXCEPT !.step = @ + 1, !.account = 0]
                                 ELSE [progress EXCEPT !.account = @ + 1]
    /\ UNCHANGED <<config, keychains>>

StartWorkload ==
    /\ progress.at = "setup" /\ progress.step > Len(config.setup)
    /\ progress' = [progress EXCEPT !.at = "workload"]
    /\ UNCHANGED <<config, tracker, keychains, txs>>

\* txgen generate: any template of the mix; an error ends the command.
Generate ==
    /\ progress.at = "workload" /\ ~Scenario /\ Cardinality(progress.done) < MaxGenerated
    /\ \E k \in config.mix, draws \in Draws, answers \in BOOLEAN :
         LET built == Build(config.templates[k], draws, NoHint, NoHint, answers)
         IN  /\ tracker' = built.tracker /\ txs' = txs \o built.tx
             /\ IF built.error # "none" THEN Fails
                ELSE progress' = [progress EXCEPT !.done = @ \cup {<<Cardinality(@), k>>}]
    /\ UNCHANGED <<config, keychains>>

\* unique_nonce_hint and dense_unique_nonce_identity: the number of a step
\* among all submissions of the run, and among those with an inline key.
Inline == {s \in DOMAIN config.steps : config.templates[config.steps[s]].auth = "inline"}
Hint(instance, s) == instance * Len(config.steps) + s - 1
Dense(instance, s) ==
    IF s \in Inline THEN instance * Cardinality(Inline) + Cardinality({r \in Inline : r < s}) ELSE NoHint

\* prepare_materialization of one step of an instance; an error fails the step.
Step ==
    /\ progress.at = "workload" /\ Scenario
    /\ \E instance \in 0..config.instances - 1, s \in DOMAIN config.steps, draws \in Draws, answers \in BOOLEAN :
         /\ <<instance, s>> \notin progress.done
         /\ LET built == Build(config.templates[config.steps[s]], draws, Hint(instance, s), Dense(instance, s), answers)
            IN  /\ tracker' = built.tracker /\ txs' = txs \o built.tx
                /\ progress' = [progress EXCEPT !.done = @ \cup {<<instance, s>>},
                                                !.errors = @ \cup ({built.error} \ {"none"})]
    /\ UNCHANGED <<config, keychains>>

Init ==
    /\ config \in TempoRuns
    /\ tracker = [lanes |-> <<>>, bumps |-> 0, inline |-> 0]
    /\ keychains = <<>>
    /\ progress = [at |-> "prefetch", step |-> 1, account |-> 0, done |-> {}, errors |-> {}]
    /\ txs = <<>>

Next ==
    \/ Prefetch \/ ExpandKeychain \/ SetupTransaction \/ StartWorkload
    \/ Generate \/ Step

Spec == Init /\ [][Next]_vars
-----------------------------------------------------------------------------
(* Properties                                                              *)

TypeOK ==
    /\ config \in TempoRuns
    /\ DOMAIN tracker.lanes \subseteq Accounts \X Nat /\ Range(tracker.lanes) \subseteq Nat
    /\ tracker.bumps \in Nat /\ tracker.inline \in Nat
    /\ progress.at \in {"prefetch", "setup", "workload", "failed"}
    /\ progress.errors \subseteq {"invalid", "unprepared", "mismatch", "keychain", "exhausted", "unread"}

\* On every lane the nonces go on from that of the chain without a gap or a
\* repetition, whoever asked for the lane first, and whatever was refused in
\* between (NonceTracker, next_nonce_lazy, prepare_request).  A generated
\* transaction with a nonce of its own is not counted.
LanesAreContiguous ==
    \A lane \in DOMAIN tracker.lanes :
        LET mine == {k \in DOMAIN txs : txs[k].lane = lane /\ (Scenario \/ ~txs[k].explicit)}
            first == IF config.mode = "offline" THEN 0 ELSE OnChain(lane)
        IN  \A k \in mine : txs[k].nonce = first + Cardinality({j \in mine : j < k})

\* No step of a scenario is refused for want of a prepared lane: the preview
\* finds the lane that the build then uses (prepare_request: "cloning the RNG
\* finds the same lane").
StepsArePrepared == "unprepared" \notin progress.errors

\* Two sources of keys start apart and share an index.
Crossing(a, b) ==
    /\ a.first # b.first
    /\ a.range = 0 \/ b.first < a.first + a.range
    /\ b.range = 0 \/ a.first < b.first + b.range

\* Expiring transactions of one configured fee never sign the same max fee, so
\* their payloads differ, and two transactions are never given the same inline
\* access key, be they of setup, steps or instances in any order
\* (apply_expiring_uniqueness_bump: "keeps both domains disjoint",
\* derive_inline_access_signer).  The code keeps apart neither fees that are
\* configured apart, 12 + 1 = 10 + 3, nor keys of ranges that cross.
IdentitiesAreUnique ==
    \A k, l \in DOMAIN txs : k < l =>
        /\ txs[k].bump # 0 /\ txs[l].bump # 0 /\ txs[k].fee = txs[l].fee => txs[k].base # txs[l].base
        /\ txs[k].key # <<>> /\ txs[k].key = txs[l].key => Crossing(txs[k].source, txs[l].source)

\* A transaction signed with an access key of a setup comes after the one
\* that authorizes this key for its account (resolve_setup_access_signer).
KeysAreAuthorized ==
    \A l \in DOMAIN txs : txs[l].keychain = <<>> \/
        \E k \in 1..l - 1 : txs[k].account = txs[l].account /\ txs[k].authorizes = txs[l].keychain
=============================================================================
