----------------------------- MODULE BenchParts -----------------------------
(***************************************************************************)
(* Four parts of the bench command line (bench-cli and bench-core), with   *)
(* their inputs, bounds and variables:                                     *)
(*                                                                         *)
(*   "call"      bench call: priming, open loop, drain                     *)
(*   "blocks"    bench send-blocks: payloads, forkchoice, reorganisations  *)
(*   "auth"      the sender token map, its writers and its readers         *)
(*   "receipts"  the receipt collector                                     *)
(*                                                                         *)
(* BenchTools adds the others, and runs one part at a time.                *)
(***************************************************************************)
EXTENDS Integers, Sequences, FiniteSets

CONSTANTS
    CallRuns, BlockRuns, AuthSetups, Collections,             \* what each part is given
    Checkpoint, DropInterval, MaxRetry, ReceiptTimeout,       \* constants of the code
    Requesters,                                               \* who takes part
    MaxSeconds, MaxLate, MaxFailures, MaxMeddling, MaxPolls, MaxErrors    \* bounds

VARIABLES
    config, now,
    call, flying, recorder,                                                  \* call
    replay, engine, mempool,                                                 \* blocks
    late, file, writer, provider, request, outside,                          \* auth
    included, errors, caller, collector, task                                \* receipts

CallVars == <<call, flying, recorder>>
BlockVars == <<replay, engine, mempool>>
AuthVars == <<late, file, writer, provider, request, outside>>
ReceiptVars == <<included, errors, caller, collector, task>>

Call == INSTANCE BenchCall
Blocks == INSTANCE SendBlocks
Auth == INSTANCE AuthTokens WITH MaxTime <- MaxSeconds
Receipts == INSTANCE ReceiptCollector WITH MaxTime <- MaxPolls

\* What the code takes for granted of their inputs.
ASSUME PartsAssumption ==
    Call!CallAssumption /\ Blocks!BlockAssumption /\ Auth!SetupAssumption /\ Receipts!CollectionAssumption
=============================================================================
