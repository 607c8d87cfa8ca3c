--------------------------- MODULE BenchToolsProofs ---------------------------
(***************************************************************************)
(* What is proved of BenchTools: for four of its parts the inductive       *)
(* invariant, and the property that a run checks.  A behaviour of          *)
(* BenchTools is one of a single part, so that what BenchPartsProofs       *)
(* proves of the steps of a part is all there is to a step of BenchTools.  *)
(***************************************************************************)
EXTENDS BenchTools, BenchPartsProofs

\* Every reachable state of the receipt collector satisfies the invariant.
THEOREM CollectInductive == Spec => [](part = "receipts" => CollectInv)
<1>1. Init => (part = "receipts" => CollectInv)
  BY CollectInvInit DEF Init
<1>2. (part = "receipts" => CollectInv) /\ [Next]_vars => (part = "receipts" => CollectInv)'
  <2> SUFFICES ASSUME part = "receipts" => CollectInv, [Next]_vars, part' = "receipts" PROVE CollectInv'
    OBVIOUS
  <2>1. part = "receipts" /\ (Receipts!Next \/ UNCHANGED <<config, now, ReceiptVars>>)
    BY DEF Next, Only, vars
  <2> QED BY <2>1, CollectInvStep, CollectInvStutter
<1> QED BY <1>1, <1>2, PTL DEF Spec

\* ReceiptsAreCollected: when the collector has ended, each registration it
\* accepted has exactly one result under its hash and labels: a receipt in the
\* collection, or none, and then no sooner than the receipt timeout
\* (run_collector, receipt_metrics.rs).
THEOREM ReceiptsCollected == Spec => []ReceiptsAreCollected
<1>1. (part = "receipts" => CollectInv) => ReceiptsAreCollected
  BY CollectedAtTheEnd DEF ReceiptsAreCollected
<1> QED BY <1>1, CollectInductive, PTL

\* The inductive invariant of bench call: its rows, the requests under way and
\* the tickets fit together.
THEOREM CallInductive == Spec => [](part = "call" => CallInv)
<1>1. Init => (part = "call" => CallInv)
  BY CallStart DEF Init
<1>2. (part = "call" => CallInv) /\ [Next]_vars => (part = "call" => CallInv)'
  <2> SUFFICES ASSUME part = "call" => CallInv, [Next]_vars, part' = "call" PROVE CallInv'
    OBVIOUS
  <2>1. part = "call" /\ (Call!Next \/ UNCHANGED <<config, CallVars>>)
    BY DEF Next, Only, vars
  <2> QED BY <2>1, CallStep, CallStutters
<1> QED BY <1>1, <1>2, PTL DEF Spec

\* A measurement of bench call counts every request of the open loop as a row
\* or as dropped and every record once in every pass, and the digest it keeps
\* for a record is that of the first pass, for all inputs and all orders in
\* which answers arrive (bench-core/src/call.rs, bench-cli/src/call.rs).
THEOREM CallsAccounted == Spec => []CallsAddUp
<1>1. (part = "call" => CallInv) => CallsAddUp
  BY CallIsDone, ReferencesAreKept DEF CallsAddUp
<1> QED BY <1>1, CallInductive, PTL

\* Every reachable state of the token map's processes satisfies the invariant.
THEOREM AuthInductive == Spec => [](part = "auth" => AuthInv)
<1>1. Init => (part = "auth" => AuthInv)
  BY AuthInvInit DEF Init
<1>2. (part = "auth" => AuthInv) /\ [Next]_vars => (part = "auth" => AuthInv)'
  <2> SUFFICES ASSUME part = "auth" => AuthInv, [Next]_vars, part' = "auth" PROVE AuthInv'
    OBVIOUS
  <2>1. part = "auth" /\ (Auth!Next \/ UNCHANGED <<config, now, AuthVars>>)
    BY DEF Next, Only, vars
  <2> QED BY <2>1, AuthInvStep, AuthInvStutter
<1> QED BY <1>1, <1>2, PTL DEF Spec

\* TokensStayValid: with a writer that watches, a request goes out with a token
\* no later than one reload interval after it was to be renewed, but for the
\* seconds in which somebody was held up; the provider never holds a token that
\* lives shorter than a whole map; and of the writers that may not replace a
\* file, as many succeed as found none (auth_token_map.rs, auth.rs).
THEOREM TokensValid == Spec => []TokensStayValid
<1>1. (part = "auth" => AuthInv) => TokensStayValid
  BY TokensAtAnyTime DEF TokensStayValid
<1> QED BY <1>1, AuthInductive, PTL

\* Every reachable state of send-blocks satisfies the invariant.
THEOREM BlocksInductive == Spec => [](part = "blocks" => BlockInv)
<1>1. Init => (part = "blocks" => BlockInv)
  BY BlockInvInit DEF Init
<1>2. (part = "blocks" => BlockInv) /\ [Next]_vars => (part = "blocks" => BlockInv)'
  <2> SUFFICES ASSUME part = "blocks" => BlockInv, [Next]_vars, part' = "blocks" PROVE BlockInv'
    OBVIOUS
  <2>1. part = "blocks" /\ (Blocks!Next \/ UNCHANGED <<config, BlockVars>>)
    BY DEF Next, Only, vars
  <2> QED BY <2>1, BlockInvStep, BlockInvStutter
<1> QED BY <1>1, <1>2, PTL DEF Spec

\* BlocksAreReplayed: no update abandons a block that an earlier one called
\* safe or final; at the end every block of the input was submitted, once and
\* in order, the engine's head is the last, and each batch was preceded by a
\* fork of the asked depth, one in depth + gap blocks (ReorgState and
\* submit_block, send_blocks.rs).
THEOREM BlocksReplayed == Spec => []BlocksAreReplayed
<1>1. (part = "blocks" => BlockInv) => BlocksAreReplayed
  BY ReplayedAtTheEnd DEF BlocksAreReplayed
<1> QED BY <1>1, BlocksInductive, PTL
=============================================================================
