----------------------------- MODULE TxgenParts -----------------------------
(***************************************************************************)
(* Four of the tools of the txgen command line (txgen-cli, with the Tempo  *)
(* plugin), with their inputs, bounds and variables:                       *)
(*                                                                         *)
(*   "start"      the chains of a scenario are prepared                    *)
(*   "run"        instances are started, bound, run and joined             *)
(*   "waits"      the log and receipt waits of an instance                 *)
(*   "tempo"      nonce lanes and identities that the Tempo plugin chooses *)
(*                                                                         *)
(* TxgenTools adds the others, and runs one tool at a time.                *)
(***************************************************************************)
EXTENDS Integers, Sequences, FiniteSets

CONSTANTS
    Starts, Configs, WaitConfigs, TempoRuns,                   \* what each tool is given
    ScanRetries, ExpiringKey,                                  \* constants of the code
    MaxInstances, MaxGenerated                                 \* bounds

VARIABLES
    config,
    start, nonces_of, setup, ledgers,                          \* start
    loop, expired, next_instance, in_flight, stop_starting, recorded, phase,
    available, leases, remaining, running, done, failures, context, given, \* run
    chain, past, hub, scan, updates, unseen, wait,             \* waits
    tracker, keychains, progress, txs                          \* tempo

StartVars == <<start, nonces_of, setup, ledgers>>
RunVars == <<loop, expired, next_instance, in_flight, stop_starting, recorded, phase, available,
             leases, remaining, running, done, failures, context, given>>
WaitVars == <<chain, past, hub, scan, updates, unseen, wait>>
TempoVars == <<tracker, keychains, progress, txs>>

Start == INSTANCE ScenarioStart WITH tracker <- nonces_of
Run == INSTANCE ScenarioRun
Waits == INSTANCE ScenarioWaits
Tempo == INSTANCE TempoLanes

\* What the code takes for granted of their inputs.
ASSUME PartsAssumption ==
    /\ Start!StartAssumption /\ Run!ScenarioRunAssumption
    /\ Waits!ScenarioWaitsAssumption /\ Tempo!TempoAssumption
=============================================================================
