--------------------------- MODULE TxgenToolsProofs ---------------------------
(***************************************************************************)
(* What is proved of TxgenTools: for its tools "start", "run", "waits" and *)
(* "tempo" the inductive invariant, and the property that a run checks.  A *)
(* behaviour of TxgenTools is one of a single tool, so that what           *)
(* TxgenPartsProofs proves of the steps of a tool is all there is to a     *)
(* step of TxgenTools.                                                     *)
(***************************************************************************)
EXTENDS TxgenTools, TxgenPartsProofs

\* Every reachable state of a scenario's start satisfies the invariant.
THEOREM StartInductive == Spec => [](tool = "start" => StartInv)
<1>1. Init => (tool = "start" => StartInv)
  BY StartInvInit DEF Init
<1>2. (tool = "start" => StartInv) /\ [Next]_vars => (tool = "start" => StartInv)'
  <2> SUFFICES ASSUME tool = "start" => StartInv, [Next]_vars, tool' = "start" PROVE StartInv'
    OBVIOUS
  <2>1. tool = "start" /\ (Start!Next \/ UNCHANGED <<config, StartVars>>)
    BY DEF Next, Only, vars
  <2> QED BY <2>1, StartInvStep, StartInvStutter
<1> QED BY <1>1, <1>2, PTL DEF Spec

\* StartIsOrderly: no chain is changed before all chains have been validated;
\* the setup of a chain goes in its order, each entry after the success of
\* those before it, whatever answers were lost; the instances start with the
\* nonces of the ledger; and steps are not refused for nonces that would fit
\* (ScenarioEngine::initialize, submit_setup_transaction, engine.rs).
THEOREM StartOrderly == Spec => []StartIsOrderly
<1>1. (tool = "start" => StartInv) => StartIsOrderly
  BY StartIsGood DEF StartIsOrderly
<1> QED BY <1>1, StartInductive, PTL

\* Every reachable state of a run satisfies the invariant.
THEOREM RunInductive == Spec => [](tool = "run" => RunInv)
<1>1. Init => (tool = "run" => RunInv)
  BY RunInvInit DEF Init
<1>2. (tool = "run" => RunInv) /\ [Next]_vars => (tool = "run" => RunInv)'
  <2> SUFFICES ASSUME tool = "run" => RunInv, [Next]_vars, tool' = "run" PROVE RunInv'
    OBVIOUS
  <2>1. tool = "run" /\ (Run!Next \/ UNCHANGED <<config, RunVars>>)
    BY DEF Next, Only, vars
  <2> QED BY <2>1, RunInvStep, RunInvStutter
<1> QED BY <1>1, <1>2, PTL DEF Spec

\* InstancesAreAccounted: an account is free or leased to one instance that is
\* at work; a step is started when all its ancestors have succeeded, with what
\* they saved; and the report counts each instance that was started, as a
\* success only when all its steps were.
THEOREM InstancesAccounted == Spec => []InstancesAreAccounted
<1>1. (tool = "run" => RunInv) => InstancesAreAccounted
  BY DEF InstancesAreAccounted, RunInv
<1> QED BY <1>1, RunInductive, PTL

\* Every reachable state of an instance's waits, of the scanner they share and
\* of the chain satisfies the invariant.
THEOREM WaitsInductive == Spec => [](tool = "waits" => WaitsInv)
<1>1. Init => (tool = "waits" => WaitsInv)
  BY WaitsInvInit DEF Init
<1>2. (tool = "waits" => WaitsInv) /\ [Next]_vars => (tool = "waits" => WaitsInv)'
  <2> SUFFICES ASSUME tool = "waits" => WaitsInv, [Next]_vars, tool' = "waits" PROVE WaitsInv'
    OBVIOUS
  <2>1. tool = "waits" /\ (Waits!Next \/ UNCHANGED <<config, WaitVars>>)
    BY DEF Next, Only, vars
  <2> QED BY <2>1, WaitsInvStep, WaitsInvStutter
<1> QED BY <1>1, <1>2, PTL DEF Spec

\* WaitsEndOnOneChain: a wait returns a match that is on the chain or was,
\* deep enough there for a receipt, and the first one while nothing is
\* reorganised, whatever other waits do to the scanner and whichever windows
\* are missed; and a window that the scanner publishes shows all that its waits
\* ask for of one chain, however the chain moves during the scan
\* (LogPollHub::scan, log_hub.rs; wait_for_log_observed,
\* wait_for_confirmed_receipt, wait.rs).
THEOREM WaitsOnOneChain == Spec => []WaitsEndOnOneChain
<1>1. (tool = "waits" => WaitsInv) => WaitsEndOnOneChain
  BY WaitsEndWell, WindowsAreWhole DEF WaitsEndOnOneChain
<1> QED BY <1>1, WaitsInductive, PTL

\* Every reachable state of the nonces and keys of Tempo satisfies the
\* invariant.
THEOREM TempoInductive == Spec => [](tool = "tempo" => TempoInv)
<1>1. Init => (tool = "tempo" => TempoInv)
  BY TempoInvInit DEF Init
<1>2. (tool = "tempo" => TempoInv) /\ [Next]_vars => (tool = "tempo" => TempoInv)'
  <2> SUFFICES ASSUME tool = "tempo" => TempoInv, [Next]_vars, tool' = "tempo" PROVE TempoInv'
    OBVIOUS
  <2>1. tool = "tempo" /\ (Tempo!Next \/ UNCHANGED <<config, TempoVars>>)
    BY DEF Next, Only, vars
  <2> QED BY <2>1, TempoInvStep, TempoInvStutter
<1> QED BY <1>1, <1>2, PTL DEF Spec

\* LanesAndKeysAreUnique: the nonces of a lane go on from the chain's without
\* a gap or a repetition, whatever was refused in between; a step finds its
\* lane prepared; expiring transactions of one configured fee never sign the
\* same max fee, and no inline access key is derived twice but from sources
\* that start apart and cross, by setup, steps and instances in any order; and
\* an access key is authorized before it signs (next_nonce_lazy,
\* prepare_request, build_request, apply_expiring_uniqueness_bump,
\* derive_inline_access_signer, txgen-tempo/src/lib.rs).
THEOREM LanesUnique == Spec => []LanesAndKeysAreUnique
<1>1. (tool = "tempo" => TempoInv) => LanesAndKeysAreUnique
  BY TempoIsGood DEF LanesAndKeysAreUnique
<1> QED BY <1>1, TempoInductive, PTL
=============================================================================
