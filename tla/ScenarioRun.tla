----------------------------- MODULE ScenarioRun ------------------------------
(***************************************************************************)
(* One run of the scenario engine (txgen-cli/src/scenario/engine.rs): the  *)
(* loop that starts instances, the account leases an instance takes before *)
(* its first step, and its steps.  Instances are tasks; the steps of one   *)
(* instance are futures that its task polls.                               *)
(*                                                                         *)
(* A sequential scenario is the graph in which every step depends on the   *)
(* one before.  What a step does is only success or failure here; its      *)
(* deadline makes it fail in the end.  Pacing delays starts by any time.   *)
(***************************************************************************)
EXTENDS Integers, Sequences, FiniteSets

CONSTANTS Configs,       \* the scenarios and command lines of an instance
          MaxInstances   \* bound: instances started when no count is given

\* depends_on[s] are the steps before s, in a graph without cycles
\* (validate_dag_graph refuses others), saves those with a "save"; a pool has
\* addresses and the number of them an instance leases; count = 0 for None.
ScenarioRunAssumption ==
    /\ MaxInstances \in Nat \ {0}
    /\ \A c \in Configs :
         /\ c.depends_on \in Seq(SUBSET (1 .. Len(c.depends_on)))
         /\ \A T \in SUBSET (1 .. Len(c.depends_on)) :
                T # {} => \E s \in T : c.depends_on[s] \cap T = {}
         /\ c.saves \subseteq 1 .. Len(c.depends_on)
         /\ \A p \in c.pools : /\ p.addresses \in Seq(Nat) /\ p.offset \in Nat
                               /\ p.slots \in 1 .. Len(p.addresses)
         /\ c.count \in 0 .. MaxInstances /\ c.max_in_flight \in Nat \ {0}
         /\ {c.duration, c.paced, c.fail_fast} \subseteq BOOLEAN
         /\ c.count # 0 \/ c.duration

VARIABLES
    config,         \* it never changes
    loop,           \* ScenarioEngine::run: "run", "ended" with a report, or "failed"
    expired,        \* the --duration has passed
    next_instance, in_flight, stop_starting,
    recorded,       \* instances the accumulator has an outcome of
    phase,          \* where each instance's task stands
    available,      \* accounts whose semaphore has its permit
    leases,         \* permits an instance holds
    remaining,      \* remaining_dependencies of its steps
    running, done, failures,  \* its steps
    context, given  \* saved results: those it has, those a step was started with

instances == <<next_instance, in_flight, stop_starting, recorded>>
steps == <<remaining, running, done, failures, context, given>>
vars == <<config, loop, expired, instances, phase, available, leases, steps>>

Instance == 0 .. MaxInstances - 1
Steps == DOMAIN config.depends_on
Active == {"binding", "steps"}
Outcome == {"ok", "failed"}
Move(i, p) == phase' = [phase EXCEPT ![i] = p]
-----------------------------------------------------------------------------
(* Account leases                                                          *)

\* LeasePool::index, for every slot of every pool.
Slots == UNION {{[pool |-> p, slot |-> k] : k \in 0 .. p.slots - 1} : p \in config.pools}
Address(i, s) ==
    LET size == Len(s.pool.addresses)
    IN  s.pool.addresses[1 + ((i * s.pool.slots + s.slot + s.pool.offset) % size)]
Requested(i) == {Address(i, s) : s \in Slots}
Clash(i) == \E s, u \in Slots : s # u /\ Address(i, s) = Address(i, u)
Missing(i) == Requested(i) \ leases[i]

Accounts == UNION {{p.addresses[k] : k \in DOMAIN p.addresses} : p \in config.pools}

GiveBack(i) == /\ available' = available \cup leases[i]
               /\ leases' = [leases EXCEPT ![i] = {}]

\* Two bindings want the same account.
BindFails(i) ==
    /\ phase[i] = "binding" /\ Clash(i)
    /\ Move(i, "failed")
    /\ UNCHANGED <<config, loop, expired, instances, available, leases, steps>>

LeaseInAnyOrder(i) ==  \* fault
    /\ phase[i] = "binding" /\ ~Clash(i)
    /\ \E a \in Missing(i) \cap available :
         /\ available' = available \ {a}
         /\ leases' = [leases EXCEPT ![i] = @ \cup {a}]
    /\ UNCHANGED <<config, loop, expired, instances, phase, steps>>

\* Leases are taken one by one, in the order of the addresses.
Lease(i) ==
    /\ phase[i] = "binding" /\ ~Clash(i)
    /\ \E a \in Missing(i) \cap available :
         /\ \A b \in Missing(i) : a <= b
         /\ available' = available \ {a}
         /\ leases' = [leases EXCEPT ![i] = @ \cup {a}]
    /\ UNCHANGED <<config, loop, expired, instances, phase, steps>>
-----------------------------------------------------------------------------
(* run_dag_instance, run_sequential_instance                               *)

\* Steps are started with the context of the moment.
Begin(i, ss) ==
    /\ running' = [running EXCEPT ![i] = (@ \ done'[i]) \cup ss]
    /\ given' = [given EXCEPT ![i] = [s \in Steps |-> IF s \in ss THEN context'[i] ELSE @[s]]]

Bound(i) ==
    /\ phase[i] = "binding" /\ ~Clash(i) /\ Missing(i) = {}
    /\ Move(i, "steps")
    /\ UNCHANGED <<done, context>>
    /\ Begin(i, {s \in Steps : remaining[i][s] = 0})
    /\ UNCHANGED <<config, loop, expired, instances, available, leases, remaining, failures>>

Dependents(s) == {d \in Steps : s \in config.depends_on[d]}

StepSucceedsReleasingAny(i, s) ==  \* fault
    /\ phase[i] = "steps" /\ s \in running[i]
    /\ done' = [done EXCEPT ![i] = @ \cup {s}]
    /\ context' = [context EXCEPT ![i] = @ \cup ({s} \cap config.saves)]
    /\ Begin(i, Dependents(s) \ (done[i] \cup running[i]))
    /\ UNCHANGED <<config, loop, expired, instances, phase, available, leases, remaining, failures>>

StepSucceeds(i, s) ==
    /\ phase[i] = "steps" /\ s \in running[i]
    /\ done' = [done EXCEPT ![i] = @ \cup {s}]
    /\ IF failures[i] = {}
         THEN /\ context' = [context EXCEPT ![i] = @ \cup ({s} \cap config.saves)]
              /\ remaining' = [remaining EXCEPT ![i] =
                     [d \in Steps |-> @[d] - (IF d \in Dependents(s) THEN 1 ELSE 0)]]
              /\ Begin(i, {d \in Dependents(s) : remaining'[i][d] = 0})
         ELSE /\ running' = [running EXCEPT ![i] = @ \ {s}]
              /\ UNCHANGED <<context, remaining, given>>
    /\ UNCHANGED <<config, loop, expired, instances, phase, available, leases, failures>>

\* An error, the step's deadline, or a result that cannot be saved.
StepFails(i, s) ==
    /\ phase[i] = "steps" /\ s \in running[i]
    /\ running' = [running EXCEPT ![i] = @ \ {s}]
    /\ failures' = [failures EXCEPT ![i] = @ \cup {s}]
    /\ UNCHANGED <<config, loop, expired, instances, phase, available, leases,
                   remaining, done, context, given>>

ReturnKeepingLeases(i) ==  \* fault
    /\ phase[i] = "steps" /\ running[i] = {}
    /\ Move(i, IF failures[i] = {} THEN "ok" ELSE "failed")
    /\ IF failures[i] = {} THEN GiveBack(i) ELSE UNCHANGED <<available, leases>>
    /\ UNCHANGED <<config, loop, expired, instances, steps>>

Return(i) ==
    /\ phase[i] = "steps" /\ running[i] = {}
    /\ Move(i, IF failures[i] = {} THEN "ok" ELSE "failed")
    /\ GiveBack(i)
    /\ UNCHANGED <<config, loop, expired, instances, steps>>

Panic(i) ==
    /\ phase[i] \in Active
    /\ Move(i, "panicked")
    /\ GiveBack(i)
    /\ UNCHANGED <<config, loop, expired, instances, steps>>

\* The run has returned an error: its JoinSet aborts what is left.
Abort(i) ==
    /\ loop = "failed" /\ phase[i] \in Active
    /\ Move(i, "aborted")
    /\ GiveBack(i)
    /\ UNCHANGED <<config, loop, expired, instances, steps>>
-----------------------------------------------------------------------------
(* ScenarioEngine::run                                                     *)

MayStart == /\ ~stop_starting /\ ~expired
            /\ config.count # 0 => next_instance < config.count
RoomForOneMore == MayStart /\ in_flight <= config.max_in_flight  \* fault

Room == MayStart /\ in_flight < config.max_in_flight

StartInstance ==
    /\ loop = "run" /\ Room /\ next_instance < MaxInstances
    /\ Move(next_instance, "binding")
    /\ next_instance' = next_instance + 1
    /\ in_flight' = in_flight + 1
    /\ UNCHANGED <<config, loop, expired, stop_starting, recorded, available, leases, steps>>

Expire ==
    /\ loop = "run" /\ config.duration /\ ~expired
    /\ expired' = TRUE
    /\ UNCHANGED <<config, loop, instances, phase, available, leases, steps>>

JoinMiscounting(i) ==  \* fault
    /\ loop = "run" /\ phase[i] \in Outcome \cup {"panicked"} /\ i \notin recorded
    /\ ~Room \/ config.paced
    /\ in_flight' = in_flight - (IF phase[i] = "ok" THEN 1 ELSE 0)
    /\ recorded' = recorded \cup {i}
    /\ loop' = IF phase[i] = "panicked" THEN "failed" ELSE "run"
    /\ stop_starting' = (stop_starting \/ (phase[i] = "failed" /\ config.fail_fast))
    /\ UNCHANGED <<config, expired, next_instance, phase, available, leases, steps>>

\* Joins are awaited when nothing may start, or during a paced wait.
Join(i) ==
    /\ loop = "run" /\ phase[i] \in Outcome \cup {"panicked"} /\ i \notin recorded
    /\ ~Room \/ config.paced
    /\ in_flight' = in_flight - 1
    /\ IF phase[i] = "panicked"
         THEN loop' = "failed" /\ UNCHANGED <<stop_starting, recorded>>
         ELSE /\ stop_starting' = (stop_starting \/ (phase[i] = "failed" /\ config.fail_fast))
              /\ recorded' = recorded \cup {i}
              /\ UNCHANGED loop
    /\ UNCHANGED <<config, expired, next_instance, phase, available, leases, steps>>

EndRun ==
    /\ loop = "run" /\ ~Room /\ in_flight = 0
    /\ loop' = "ended"
    /\ UNCHANGED <<config, expired, instances, phase, available, leases, steps>>
-----------------------------------------------------------------------------
Init ==
    /\ config \in Configs
    /\ loop = "run" /\ expired = FALSE
    /\ next_instance = 0 /\ in_flight = 0 /\ stop_starting = FALSE /\ recorded = {}
    /\ phase = [i \in Instance |-> "new"]
    /\ available = Accounts
    /\ leases = [i \in Instance |-> {}]
    /\ remaining = [i \in Instance |-> [s \in Steps |-> Cardinality(config.depends_on[s])]]
    /\ running = [i \in Instance |-> {}] /\ done = running /\ failures = running
    /\ context = running /\ given = [i \in Instance |-> [s \in Steps |-> {}]]

RunStep == StartInstance \/ EndRun \/ \E i \in Instance : Join(i)
StepEnds(i) == \E s \in Steps : StepSucceeds(i, s) \/ StepFails(i, s)

Next == \/ RunStep \/ Expire
        \/ \E i \in Instance : \/ BindFails(i) \/ Lease(i) \/ Bound(i) \/ Return(i)
                               \/ Panic(i) \/ Abort(i)
                               \/ \E s \in Steps : StepSucceeds(i, s) \/ StepFails(i, s)

Spec == Init /\ [][Next]_vars

-----------------------------------------------------------------------------
(* Properties                                                              *)

\* The state is well typed; no dependency is counted down below zero.
TypeOK ==
    /\ config \in Configs
    /\ loop \in {"run", "ended", "failed"} /\ {expired, stop_starting} \subseteq BOOLEAN
    /\ next_instance \in 0 .. MaxInstances /\ in_flight \in 0 .. config.max_in_flight
    /\ recorded \in SUBSET Instance
    /\ phase \in [Instance -> {"new", "panicked", "aborted"} \cup Active \cup Outcome]
    /\ available \in SUBSET Accounts /\ leases \in [Instance -> SUBSET Accounts]
    /\ remaining \in [Instance -> [Steps -> Nat]]
    /\ \A f \in {running, done, failures, context} : f \in [Instance -> SUBSET Steps]
    /\ given \in [Instance -> [Steps -> SUBSET Steps]]

\* "Holds one pool account for the entire instance and returns it on success,
\* failure, timeout, or cancellation": an account is free or leased to one
\* instance that is at work, also when pools share an address.
LeasesAccounted ==
    /\ \A i, j \in Instance : i # j => leases[i] \cap leases[j] = {}
    /\ available = Accounts \ UNION {leases[i] : i \in Instance}
    /\ \A i \in Instance : /\ phase[i] \notin Active => leases[i] = {}
                           /\ phase[i] = "steps" => leases[i] = Requested(i)

\* ordered_predecessor_ids: all steps that s depends on, directly or not, the
\* least set that has the dependencies of s and those of its own elements.
Ancestors(s) ==
    {d \in Steps : \A A \in SUBSET Steps :
        config.depends_on[s] \cup UNION {config.depends_on[u] : u \in A} \subseteq A => d \in A}

\* A step may refer to what any step it depends on, directly or not, has saved:
\* it is started when they have all succeeded, with their results.
DependentsSeeResults ==
    \A i \in Instance : \A s \in running[i] \cup done[i] \cup failures[i] :
        /\ Ancestors(s) \subseteq done[i]
        /\ Ancestors(s) \cap config.saves \subseteq given[i][s]

\* "A scenario counts as completed successfully only after every required step
\* succeeds", and the report of a run that ended has an outcome of every
\* instance it started.
ReportIsComplete ==
    /\ \A i \in Instance : phase[i] = "ok" => done[i] = Steps
    /\ in_flight = Cardinality({i \in Instance : phase[i] # "new" /\ i \notin recorded})
         \/ loop = "failed"
    /\ loop = "ended" => recorded = 0 .. next_instance - 1

\* Nobody is at work: no instance waits for an account that another one has
\* and will not give back.
AllSettled == \A i \in Instance : phase[i] \notin Active
=============================================================================
