------------------------------ MODULE Generation ------------------------------
(***************************************************************************)
(* txgen generate (txgen-cli/src/generate.rs): nonces are fetched, setup   *)
(* is written or restored, and then weighted items of the mix are prepared *)
(* one by one, signed by a pool of threads and written in order.           *)
(* With `online`, the setup of a scenario instead (materialize_setup_-     *)
(* online): every setup transaction is submitted before the next is built. *)
(*                                                                         *)
(* A template is [lanes, needs]: the nonce lanes of the signers it may     *)
(* select, none if its nonce only has to be unique, and the setup steps    *)
(* whose outputs it refers to.                                             *)
(***************************************************************************)
EXTENDS SetupOrder

CONSTANTS Generations,    \* arguments and workloads
          JobsPerWorker,  \* 64 in the code
          MaxPrepared     \* bounds the run of a workload without a count

\* mined[lane] is the chain's nonce.  A setup step is [id, depends_on, actions,
\* binds, txs]: how many actions it sets, whether it is a deploy or tx step,
\* and its templates; an item of the mix is [weight, steps, circular]: its
\* templates, and whether its bindings depend on each other in a circle.
GenerationAssumption ==
    /\ JobsPerWorker \in Nat \ {0} /\ MaxPrepared \in Nat
    /\ \A c \in Generations :
         /\ c.workers \in Nat /\ c.count \in Nat \cup {-1} /\ c.count = -1 => c.duration
         /\ {c.duration, c.gas, c.rpc, c.online, c.stdout, c.state_out} \subseteq BOOLEAN
         /\ \A lane \in DOMAIN c.mined : c.mined[lane] \in Nat
         /\ \A i \in DOMAIN c.mix : c.mix[i].weight \in Nat

VARIABLES
    config,      \* it never changes
    generator,   \* where the main thread is, and what it has prepared
    nonces,      \* NonceTracker
    signing,     \* SigningPool
    output       \* what the writer has accepted

vars == <<config, generator, nonces, signing, output>>

Lanes == DOMAIN config.mined
Unlimited == -1
Unique == "unique"

Fails == generator' = [generator EXCEPT !.at = "failed"]
Goes(at) == generator' = [generator EXCEPT !.at = at]
-----------------------------------------------------------------------------
(* Arguments, and nonces of the chain                                      *)

StepIds(steps) == {steps[i].id : i \in DOMAIN steps}

\* SetupState::validate, for the state of another run; -1 is no such file.
StateFits == config.state_in = {s.id : s \in {t \in ToSet(config.setup) : t.binds}}

HasState == config.state_in # {"none"}

\* clap's conflicts and requirements, and GenerateContext::from_args.
ArgumentsAreValid ==
    /\ config.workers >= 1
    /\ config.state_out => config.count = 0 /\ ~HasState
    /\ config.gas \/ HasState => config.rpc
    /\ config.gas /\ config.count # 0 /\ config.setup # <<>> => HasState
    /\ HasState => StateFits

\* generate_loop's sum of the weights comes before any output.
Start ==
    /\ generator.at = "start"
    /\ IF ~ArgumentsAreValid THEN Fails
       ELSE Goes(IF config.rpc THEN "prefetch" ELSE "load")
    /\ UNCHANGED <<config, nonces, signing, output>>

\* Answers of eth_getTransactionCount come in any order; all must come.
FetchNonce(lane) ==
    /\ generator.at = "prefetch" /\ lane \notin generator.fetched
    /\ \/ /\ nonces' = [nonces EXCEPT ![lane] = config.mined[lane]]
          /\ generator' = [generator EXCEPT !.fetched = @ \cup {lane},
                                            !.at = IF generator.fetched \cup {lane} = Lanes
                                                     THEN "load" ELSE @]
       \/ Fails /\ UNCHANGED nonces
    /\ UNCHANGED <<config, signing, output>>

\* validate_setup_steps; a scenario's setup also refuses forward references.
SetupStepsAreValid ==
    LET steps == config.setup
    IN  /\ Cardinality(StepIds(steps)) = Len(steps)
        /\ \A i \in DOMAIN steps :
             /\ steps[i].depends_on \subseteq StepIds(steps) \ {steps[i].id}
             /\ config.online => steps[i].depends_on \subseteq {steps[j].id : j \in 1 .. i - 1}

\* setup_step_templates: in the steps' order; an extension step has several.
SetupTemplates ==
    FlattenSeq([i \in DOMAIN config.setup |->
      LET step == config.setup[i]
      IN  [k \in DOMAIN step.txs |-> [step |-> step, template |-> step.txs[k], id |-> <<step.id, k>>]]])

\* Setup is emitted, or restored from the state of the run that emitted it.
Load ==
    /\ generator.at = "load"
    /\ IF \/ ~config.online /\ \A i \in DOMAIN config.mix : config.mix[i].weight = 0
          \/ ~HasState /\ ~SetupStepsAreValid
         THEN Fails
       ELSE IF HasState
         THEN generator' = [generator EXCEPT !.at = "select", !.bound = config.state_in]
       ELSE generator' = [generator EXCEPT !.at = "setup", !.steps = SetupTemplates]
    /\ UNCHANGED <<config, nonces, signing, output>>
-----------------------------------------------------------------------------
(* One template                                                            *)

\* build_prepared_template for one choice of a signer: a reference without a
\* binding stays in the template and cannot be parsed.
Buildable(template) == template.needs \subseteq generator.bound
LaneChoices(template) == IF template.lanes = {} THEN {Unique} ELSE template.lanes

\* next_nonce; a unique nonce is consumed and never given back.
NonceOf(lane) == IF lane = Unique THEN 0 ELSE nonces[lane]
Reserve(lane) == IF lane = Unique THEN UNCHANGED nonces
                 ELSE nonces' = [nonces EXCEPT ![lane] = @ + 1]
KeysOf(lane) == {lane} \ {Unique}
-----------------------------------------------------------------------------
(* Setup                                                                   *)

\* resolve dependencies from steps to the transactions they produced.
SetupTx(s, lane) ==
    [id |-> s.id, keys |-> KeysOf(lane), lane |-> lane, nonce |-> NonceOf(lane), workload |-> FALSE,
     depends_on |-> UNION {{<<t.id, k>> : k \in DOMAIN t.txs} :
                             t \in {u \in ToSet(config.setup) : u.id \in s.step.depends_on}}]

\* One setup transaction is built, signed and bound for later steps; a
\* failure rewinds its nonce and ends the program.  In a scenario the request
\* is prepared under a timeout first, with the same effect.
EmitSetupTx ==
    /\ generator.at = "setup" /\ generator.steps # <<>>
    /\ LET s == Head(generator.steps)
       IN  \/ /\ Buildable(s.template) /\ s.step.actions = 1
              /\ \E lane \in LaneChoices(s.template) :
                   /\ Reserve(lane)
                   /\ generator' = [generator EXCEPT
                        !.setup = Append(@, SetupTx(s, lane)), !.steps = Tail(@),
                        !.bound = IF s.step.binds THEN @ \cup {s.step.id} ELSE @,
                        !.at = IF config.online THEN "submit" ELSE @]
           \/ Fails /\ UNCHANGED nonces
    /\ UNCHANGED <<config, signing, output>>

\* The scenario's submit callback, which waits for a successful receipt.
SubmitSetup ==
    /\ generator.at = "submit"
    /\ \/ output' = Append(output, Last(generator.setup)) /\ Goes("setup")
       \/ Fails /\ UNCHANGED output
    /\ UNCHANGED <<config, nonces, signing>>

WriteSetupUnchecked ==  \* fault
    /\ generator.at = "setup" /\ generator.steps = <<>>
    /\ IF config.online
         THEN Goes("done") /\ UNCHANGED output
         ELSE Goes("setup state") /\ output' = generator.setup
    /\ UNCHANGED <<config, nonces, signing>>

\* The whole batch is checked before any of it is written.
WriteSetup ==
    /\ generator.at = "setup" /\ generator.steps = <<>>
    /\ CASE config.online -> Goes("done") /\ UNCHANGED output
         [] ~config.online /\ generator.setup # <<>> /\ SetupSubmissionOrder(generator.setup) = <<>> ->
              Fails /\ UNCHANGED output
         [] OTHER -> Goes("setup state") /\ output' = generator.setup
    /\ UNCHANGED <<config, nonces, signing>>

\* The state is saved when its transactions have been flushed.
SaveSetupState ==
    /\ generator.at = "setup state"
    /\ generator' = [generator EXCEPT !.at = "select", !.saved = config.state_out]
    /\ UNCHANGED <<config, nonces, signing, output>>
-----------------------------------------------------------------------------
(* WorkloadSelector                                                        *)

Remaining == config.count - generator.prepared

FitsAny(item) == config.mix[item].weight > 0  \* fault

Fits(item) ==
    /\ config.mix[item].weight > 0
    /\ IF config.count = Unlimited THEN generator.prepared < MaxPrepared
       ELSE Len(config.mix[item].steps) <= Remaining

\* Estimates for --gas-weighted-mix come from copies of the nonces and of the
\* generator of random numbers; a failed or empty sample ends the program.
SampleGas ==
    /\ generator.at = "select" /\ config.gas
    /\ \/ generator' = [generator EXCEPT !.sampled = TRUE]
       \/ Fails
    /\ UNCHANGED <<config, nonces, signing, output>>

\* workload_item_tx_count refuses a sequence without steps.
HasEmptyItem == \E i \in DOMAIN config.mix : config.mix[i].steps = <<>>

\* A sequence that fits is begun, with its instance's bindings, or nothing
\* fits any more.  With a duration the loop may end before any item.
Select ==
    /\ generator.at = "select" /\ (config.gas => generator.sampled)
    /\ \/ \E item \in {i \in DOMAIN config.mix : Fits(i)} :
            IF config.mix[item].circular \/ HasEmptyItem THEN Fails
            ELSE generator' = [generator EXCEPT !.at = "prepare", !.item = item,
                                                !.instance = @ + 1, !.steps = config.mix[item].steps]
       \/ /\ config.duration \/ \A i \in DOMAIN config.mix : ~Fits(i)
          /\ IF HasEmptyItem /\ config.count # 0 THEN Fails ELSE Goes("finish")
    /\ UNCHANGED <<config, nonces, signing, output>>

\* prepare_materialized_template, with the rollback of a failure.
Prepare ==
    /\ generator.at = "prepare"
    /\ LET template == Head(generator.steps)
       IN  \/ /\ Buildable(template)
              /\ \E lane \in LaneChoices(template) :
                   /\ Reserve(lane)
                   /\ generator' = [generator EXCEPT !.at = "sign", !.tx =
                        [keys |-> KeysOf(lane), lane |-> lane, nonce |-> NonceOf(lane), workload |-> TRUE,
                         item |-> generator.item, instance |-> generator.instance]]
           \/ Fails /\ UNCHANGED nonces
    /\ UNCHANGED <<config, signing, output>>
-----------------------------------------------------------------------------
(* SigningPool                                                             *)

MaxInFlight == config.workers * JobsPerWorker

\* drain_available is HandleResult; the thread only waits when it must.
Submit ==
    /\ generator.at = "sign" /\ signing.in_flight < MaxInFlight
    /\ signing' = [signing EXCEPT !.queue = Append(@, <<signing.next, generator.tx>>),
                                  !.next = @ + 1, !.in_flight = @ + 1]
    /\ generator' = [generator EXCEPT !.at = IF Len(generator.steps) = 1 THEN "select" ELSE "prepare",
                                      !.steps = Tail(@), !.prepared = @ + 1]
    /\ UNCHANGED <<config, nonces, output>>

\* A free thread takes the oldest job.
TakeJob ==
    /\ signing.queue # <<>> /\ Cardinality(signing.busy) < config.workers
    /\ signing' = [signing EXCEPT !.busy = @ \cup {Head(signing.queue)}, !.queue = Tail(@)]
    /\ UNCHANGED <<config, generator, nonces, output>>

\* submit_signing_job: an error or a panic is a result too.
FinishJob(job) ==
    /\ job \in signing.busy
    /\ \E ok \in BOOLEAN :
         signing' = [signing EXCEPT !.busy = @ \ {job},
                       !.results = Append(@, [sequence |-> job[1], tx |-> job[2], ok |-> ok])]
    /\ UNCHANGED <<config, generator, nonces, output>>

ReadyAtOnce(completed, next) == SetToSeq(completed)  \* fault

\* What write_ready can write of the results that have come.
Ready(completed, next) ==
    LET tx(n) == CHOOSE r \in completed : r.sequence = n
        present == {r.sequence : r \in completed}
        end == Max({next - 1} \cup {n \in present : next .. n \subseteq present})
    IN  [i \in 1 .. end - next + 1 |-> tx(next + i - 1)]

\* handle_result.  The first failed result ends the program; a consumer that
\* has closed standard output ends it quietly.
HandleResult ==
    /\ generator.at \in {"sign", "finish"} /\ signing.results # <<>>
    /\ LET r == Head(signing.results)
           completed == signing.completed \cup {r}
           ready == Ready(completed, signing.written)
       IN  IF ~r.ok
             THEN Fails /\ UNCHANGED <<signing, output>>
             ELSE /\ signing' = [signing EXCEPT !.results = Tail(@),
                                    !.completed = completed \ ToSet(ready),
                                    !.written = @ + Len(ready), !.in_flight = @ - Len(ready)]
                  /\ output' = output \o [i \in DOMAIN ready |-> ready[i].tx]
                  /\ UNCHANGED generator
    /\ UNCHANGED <<config, nonces>>

\* A reader that ends first, such as bench send with a duration.
PipeCloses ==
    /\ generator.at \in {"setup state", "sign", "finish"} /\ config.stdout
    /\ Goes("closed")
    /\ UNCHANGED <<config, nonces, signing, output>>

\* finish, and the flush.
Finish ==
    /\ generator.at = "finish" /\ signing.in_flight = 0
    /\ Goes("done")
    /\ UNCHANGED <<config, nonces, signing, output>>
-----------------------------------------------------------------------------
Init ==
    /\ config \in Generations
    /\ generator = [at |-> "start", fetched |-> {}, bound |-> {}, setup |-> <<>>, saved |-> FALSE,
                    sampled |-> FALSE, item |-> 0, instance |-> 0, steps |-> <<>>, tx |-> <<>>,
                    prepared |-> 0]
    /\ nonces = [lane \in Lanes |-> 0]
    /\ signing = [queue |-> <<>>, busy |-> {}, results |-> <<>>, completed |-> {},
                  next |-> 0, written |-> 0, in_flight |-> 0]
    /\ output = <<>>

MainThread ==
    \/ Start \/ (\E lane \in Lanes : FetchNonce(lane)) \/ Load
    \/ EmitSetupTx \/ SubmitSetup \/ WriteSetup \/ SaveSetupState
    \/ SampleGas \/ Select \/ Prepare \/ Submit \/ HandleResult \/ PipeCloses \/ Finish

\* The threads of the pool die with the program.
Running == generator.at \notin {"done", "failed", "closed"}
Threads == Running /\ (TakeJob \/ \E job \in signing.busy : FinishJob(job))

Next == MainThread \/ Threads
Spec == Init /\ [][Next]_vars
-----------------------------------------------------------------------------
TypeOK ==
    /\ config \in Generations
    /\ generator.at \in {"start", "prefetch", "load", "setup", "submit", "setup state", "select",
                        "prepare", "sign", "finish", "done", "failed", "closed"}
    /\ generator.bound \subseteq StepIds(config.setup) /\ generator.prepared \in Nat
    /\ nonces \in [Lanes -> Nat]
    /\ signing.written + signing.in_flight = signing.next

FirstNonce(lane) == IF config.rpc THEN config.mined[lane] ELSE 0

\* Whatever order the threads finish in, and wherever the run fails, what was
\* written can be submitted: every lane's nonces are in order and without a
\* gap, from the chain's nonce on.
OutputHasNoGaps ==
    \A lane \in Lanes :
      LET own == SelectSeq(output, LAMBDA tx : tx.lane = lane)
      IN  \A i \in DOMAIN own : own[i].nonce = FirstNonce(lane) + i - 1

Workload == SelectSeq(output, LAMBDA tx : tx.workload)
OfInstance(n) == SelectSeq(Workload, LAMBDA tx : tx.instance = n)

\* The count is never exceeded, not even to complete a sequence; a run that
\* ends has written whole sequences only, and stops early only for its
\* duration or because no item fits what is left.
WorkloadIsWhole ==
    /\ config.count # Unlimited => Len(Workload) <= config.count
    /\ generator.at = "done" /\ ~config.online =>
         /\ \A n \in 1 .. generator.instance :
              /\ OfInstance(n) # <<>>
              /\ Len(OfInstance(n)) = Len(config.mix[OfInstance(n)[1].item].steps)
         /\ ~config.duration => \A i \in DOMAIN config.mix : ~Fits(i)

\* What the signing pool holds is what it was given and has not written, and
\* no more than its limit.
SigningIsBounded ==
    /\ signing.in_flight <= MaxInFlight
    /\ signing.in_flight = Len(signing.queue) + Cardinality(signing.busy) + Len(signing.results)
                             + Cardinality(signing.completed) \/ ~Running

\* setup_submission_order finds an order exactly if the receipts and lanes of
\* the batch allow one, and what it finds is one.
SetupOrderIsRight ==
    LET txs == generator.setup
    IN  txs # <<>> =>
          IF CanBeOrdered(txs) THEN IsSubmissionOrder(txs, SetupSubmissionOrder(txs))
          ELSE SetupSubmissionOrder(txs) = <<>>

\* Setup that a consumer could not submit is never written: all of it can be
\* ordered, and a scenario's is in order, each after what it depends on.
SetupIsSubmittable ==
    LET setup == SelectSeq(output, LAMBDA tx : ~tx.workload)
    IN  setup # <<>> =>
          IF config.online THEN IsSubmissionOrder(setup, [i \in DOMAIN setup |-> i])
          ELSE CanBeOrdered(setup)
=============================================================================
