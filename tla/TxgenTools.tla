----------------------------- MODULE TxgenTools -----------------------------
(***************************************************************************)
(* The txgen command line (txgen-cli, with the Tempo plugin): its commands *)
(* and, for a scenario, the stages of a run, each a module of its own.     *)
(* They hand files and finished values to one another and share no state,  *)
(* so a behaviour is one of a single tool and the variables of the others  *)
(* stay idle.                                                              *)
(*                                                                         *)
(*   "document"   a scenario document is composed and validated            *)
(*   "start"      the chains of a scenario are prepared                    *)
(*   "run"        instances are started, bound, run and joined             *)
(*   "waits"      the log and receipt waits of an instance                 *)
(*   "report"     outcomes are aggregated                                  *)
(*   "publish"    the report goes to files and stores                      *)
(*   "generate"   txgen generate                                           *)
(*   "tempo"      nonce lanes and identities that the Tempo plugin chooses *)
(*   "extract"    txgen extract                                            *)
(***************************************************************************)
EXTENDS TxgenParts

CONSTANTS Documents, Scenarios, Publications, Generations, Extractions,  \* what each tool is given
          JobsPerWorker, HashWindow, MaxSamples, BatchSize,
          MaxPrepared, MaxTaken  \* bounds

VARIABLES
    tool,
    stage, include, resolver, document, instance,              \* document
    journal, report, path,                                     \* report
    publisher, written, stores,                                \* publish
    generator, nonces, signing, output,                        \* generate
    stream, channel, writer                                    \* extract

DocumentVars == <<stage, include, resolver, document, instance>>
ReportVars == <<journal, report, path>>
PublishVars == <<publisher, written, stores>>
GenerateVars == <<generator, nonces, signing, output>>
ExtractVars == <<stream, channel, writer>>
vars == <<tool, config, DocumentVars, StartVars, RunVars, WaitVars, ReportVars, PublishVars,
          GenerateVars, TempoVars, ExtractVars>>

Schema == INSTANCE ScenarioSchema WITH phase <- stage
Report == INSTANCE ScenarioReports
Publish == INSTANCE ScenarioPublish
Generate == INSTANCE Generation
Extracting == INSTANCE Extract

\* What the code takes for granted of its inputs.
ASSUME TxgenAssumption ==
    /\ Schema!DocumentAssumption /\ Publish!PublishAssumption
    /\ Generate!GenerationAssumption /\ Extracting!ExtractAssumption
-----------------------------------------------------------------------------
Idle(variable) == variable = "idle"

Init ==
    /\ tool \in {"document", "start", "run", "waits", "report", "publish", "generate", "tempo",
               "extract"}
    /\ IF tool = "document" THEN Schema!Init
       ELSE Idle(stage) /\ Idle(include) /\ Idle(resolver) /\ Idle(document) /\ Idle(instance)
    /\ IF tool = "start" THEN Start!Init
       ELSE Idle(start) /\ Idle(nonces_of) /\ Idle(setup) /\ Idle(ledgers)
    /\ IF tool = "run" THEN Run!Init
       ELSE /\ Idle(loop) /\ Idle(expired) /\ Idle(next_instance) /\ Idle(in_flight)
            /\ Idle(stop_starting) /\ Idle(recorded) /\ Idle(phase) /\ Idle(available)
            /\ Idle(leases) /\ Idle(remaining) /\ Idle(running) /\ Idle(done)
            /\ Idle(failures) /\ Idle(context) /\ Idle(given)
    /\ IF tool = "waits" THEN Waits!Init
       ELSE /\ Idle(chain) /\ Idle(past) /\ Idle(hub) /\ Idle(scan) /\ Idle(updates)
            /\ Idle(unseen) /\ Idle(wait)
    /\ IF tool = "report" THEN Report!Init ELSE Idle(journal) /\ Idle(report) /\ Idle(path)
    /\ IF tool = "publish" THEN Publish!Init ELSE Idle(publisher) /\ Idle(written) /\ Idle(stores)
    /\ IF tool = "generate" THEN Generate!Init
       ELSE Idle(generator) /\ Idle(nonces) /\ Idle(signing) /\ Idle(output)
    /\ IF tool = "tempo" THEN Tempo!Init
       ELSE Idle(tracker) /\ Idle(keychains) /\ Idle(progress) /\ Idle(txs)
    /\ IF tool = "extract" THEN Extracting!Init ELSE Idle(stream) /\ Idle(channel) /\ Idle(writer)

\* Only the variables of tool t may change.
Only(t) ==
    /\ tool = t /\ UNCHANGED tool
    /\ IF t = "document" THEN TRUE ELSE UNCHANGED DocumentVars
    /\ IF t = "start" THEN TRUE ELSE UNCHANGED StartVars
    /\ IF t = "run" THEN TRUE ELSE UNCHANGED RunVars
    /\ IF t = "waits" THEN TRUE ELSE UNCHANGED WaitVars
    /\ IF t = "report" THEN TRUE ELSE UNCHANGED ReportVars
    /\ IF t = "publish" THEN TRUE ELSE UNCHANGED PublishVars
    /\ IF t = "generate" THEN TRUE ELSE UNCHANGED GenerateVars
    /\ IF t = "tempo" THEN TRUE ELSE UNCHANGED TempoVars
    /\ IF t = "extract" THEN TRUE ELSE UNCHANGED ExtractVars

Next ==
    \/ Only("document") /\ Schema!Next
    \/ Only("start") /\ Start!Next
    \/ Only("run") /\ Run!Next
    \/ Only("waits") /\ Waits!Next
    \/ Only("report") /\ Report!Next
    \/ Only("publish") /\ Publish!Next
    \/ Only("generate") /\ Generate!Next
    \/ Only("tempo") /\ Tempo!Next
    \/ Only("extract") /\ Extracting!Next

Spec == Init /\ [][Next]_vars
-----------------------------------------------------------------------------
\* The runtime polls every task, steps end by their deadlines, time passes, a
\* semaphore serves those who wait for it in turn, and requests are answered
\* (retries are bounded); the chain need not move.  That blocks are asked for is
\* not enough for extract: they have to be taken.  Since a behaviour is of one
\* tool, a weak fairness condition may name an action of each tool: it is then
\* that of the tool which runs.
InstanceActs(i) == Run!BindFails(i) \/ Run!Bound(i) \/ Run!Return(i) \/ Run!Abort(i)

FairSpec ==
    /\ Spec
    /\ WF_vars(\/ Only("run") /\ Run!RunStep
               \/ Only("waits") /\ Waits!Scanner
               \/ Only("publish") /\ Publish!Work
               \/ Only("generate") /\ Generate!MainThread
               \/ Only("extract") /\ (Extracting!Yield \/ Extracting!Send \/ Extracting!EndOfRange))
    /\ WF_vars(\/ Only("run") /\ Run!Expire
               \/ Only("generate") /\ Generate!Threads
               \/ Only("extract") /\ (Extracting!Receive \/ Extracting!Flush
                                        \/ Extracting!Join \/ Extracting!Take))
    /\ WF_vars(Only("extract") /\ Extracting!Request)
    /\ WF_vars(Only("extract") /\ Extracting!Answer)
    /\ \A w \in 1 .. 2 : WF_vars(Only("waits") /\ w \in Waits!Wait /\ Waits!Progress(w))
    /\ \A i \in Run!Instance :
         /\ WF_vars(Only("run") /\ InstanceActs(i))
         /\ WF_vars(Only("run") /\ Run!StepEnds(i))
         /\ SF_vars(Only("run") /\ Run!Lease(i))
-----------------------------------------------------------------------------
\* Type invariant.
TypeOK ==
    CASE tool = "document" -> Schema!TypeOK
      [] tool = "start" -> Start!TypeOK
      [] tool = "run" -> Run!TypeOK
      [] tool = "waits" -> Waits!TypeOK
      [] tool = "report" -> Report!TypeOK
      [] tool = "publish" -> Publish!TypeOK
      [] tool = "generate" -> Generate!TypeOK
      [] tool = "tempo" -> Tempo!TypeOK
      [] tool = "extract" -> Extracting!TypeOK

\* Documents: what validation accepts does run, its names mean what the scope
\* says in which they are written, an instance of a fragment shows its caller
\* only its outputs and waits as a whole (composition.rs, schema.rs); and the
\* events that a step names are distinct logs of the receipt (wait.rs).
DocumentsAreSound ==
    /\ tool = "document" =>
        /\ Schema!AcceptedStepsEvaluate /\ Schema!NamesAreLexical
        /\ Schema!PrivateSavesAreHidden /\ Schema!InstancesWait
    /\ tool = "waits" => Waits!EventsAreAssigned

\* Start: nothing is submitted before all chains are known to be valid, setup
\* goes one by one, instances begin with the ledger's nonces, and no scenario
\* is refused for nonces that would fit (engine.rs, initialize).
StartIsOrderly ==
    tool = "start" =>
        /\ Start!ValidBeforeMutation /\ Start!SetupIsSequential
        /\ Start!NoncesAreCurrent /\ Start!NoFalseRefusal

\* Run: accounts are leased to one instance at a time and come back, a step
\* starts with the results of all it depends on, and the report has every
\* instance (engine.rs, run).
InstancesAreAccounted ==
    tool = "run" => Run!LeasesAccounted /\ Run!DependentsSeeResults /\ Run!ReportIsComplete

\* Waits: a wait ends with a match on the chain as it is or was, the first as
\* long as nothing is reorganised and the scanner does not give up; and a window
\* of the shared scanner shows one chain (log_hub.rs, wait.rs).
WaitsEndOnOneChain ==
    tool = "waits" => Waits!EndsWithCanonicalMatch /\ Waits!WindowIsOneChain

\* Report: whatever order instances end in, each is counted once in all that
\* is kept of it, and the critical path is one (report.rs).  It then reaches
\* each destination or the failure is told; a store that shows the run has all
\* of it, once, and no file waits for a store (mod.rs, clickhouse.rs).
ReportAddsUp ==
    /\ tool = "report" =>
        /\ Report!CountsAddUp /\ Report!SampledAreFirst /\ Report!LatenciesAreOfTheCompleted
        /\ Report!EdgesAreOfTheCompleted /\ Report!PathIsCritical
    /\ tool = "publish" =>
        Publish!VisibleIsWhole /\ Publish!FilesComeFirst /\ Publish!NoneIsSkipped

\* Generate: the output can be submitted as it is, however signing threads
\* race and wherever the run fails (generate.rs, setup.rs).
OutputIsSubmittable ==
    tool = "generate" =>
        /\ Generate!OutputHasNoGaps /\ Generate!WorkloadIsWhole /\ Generate!SigningIsBounded
        /\ Generate!SetupOrderIsRight /\ Generate!SetupIsSubmittable

\* Tempo: lanes have no gaps, steps find theirs prepared, the fees and keys that
\* are signed differ where templates allow it, and authorizations hold across
\* setup and workload (txgen-tempo lib.rs).
LanesAndKeysAreUnique ==
    tool = "tempo" =>
        /\ Tempo!LanesAreContiguous /\ Tempo!StepsArePrepared
        /\ Tempo!IdentitiesAreUnique /\ Tempo!KeysAreAuthorized

\* Extract: a corpus is in the order of the chain, big blocks partition it, and
\* their access lists tell the story of the lists they merge (extract.rs, bal.rs).
CorpusFollowsTheChain ==
    tool = "extract" =>
        /\ Extracting!CorpusIsInOrder /\ Extracting!BigBlocksPartition
        /\ Extracting!MergedListIsChronological

\* A log wait reports a log that was as deep as the step asks for; see the
\* findings of the README.
LogsAreConfirmed == tool = "waits" => Waits!LogsAreConfirmed

\* The critical path of an instance that completed is one; see the findings of
\* the README.
PathIsCritical == tool = "report" => Report!PathIsCritical

\* Every tool with tasks of its own comes to its end: a run ends with nobody at
\* work, signing threads and the fetch task are joined, a log that stays on the
\* chain ends the wait for it, and a report is published or has failed
\* (engine.rs, wait.rs, generate.rs, extract.rs, mod.rs).
NothingIsOwed ==
    /\ tool = "run" => loop # "run" /\ Run!AllSettled
    /\ tool = "publish" => Publish!Over
    /\ tool = "generate" => ~Generate!Running
    /\ tool = "extract" => Extracting!Over
    /\ tool = "waits" => \A w \in 1 .. 2 : Waits!LogStays(w) => Waits!Settled(w)
EveryToolEnds == []<>NothingIsOwed
=============================================================================
