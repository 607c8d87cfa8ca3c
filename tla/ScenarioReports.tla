--------------------------- MODULE ScenarioReports ---------------------------
(***************************************************************************)
(* The report of a scenario run (txgen-cli scenario/report.rs): instances  *)
(* end in any order, and each outcome is folded into bounded aggregates:   *)
(* counts, latency distributions with a reservoir of samples, timings of   *)
(* the edges of the dependency graph, and the lifecycles of the first few  *)
(* instances.  A step is known by its ID in all of them.                   *)
(*                                                                         *)
(* An outcome says which steps ran, from when to when, and which failed.   *)
(***************************************************************************)
EXTENDS Integers, FiniteSets, Sequences, SequencesExt

CONSTANTS
  Scenarios,      \* the scenarios to explore, see TypeOK
  MaxSamples,     \* MAX_LATENCY_SAMPLES
  MaxTaken        \* bound: how long a step takes

VARIABLES
  config,         \* the scenario, its instances, --sample-instances
  journal,        \* history: the outcomes recorded, in order
  report,         \* ScenarioAccumulator
  path            \* the critical path of the last outcome, if it was computed

vars == <<config, journal, report, path>>

Steps == 1..Len(config.steps)

(* effective_id: the declared ID, else the save, else a derived name. *)
IdOf(i) ==
  LET step == config.steps[i]
  IN IF step.id # "" THEN step.id
     ELSE IF step.save # "" THEN step.save
     ELSE step.derived

(* Which IDs a step depends on: those it lists, and in a sequential scenario
   that of the step before it. *)
DependsOn(i) ==
  IF config.execution = "dag" THEN config.steps[i].dependsOn
  ELSE IF i = 1 THEN {} ELSE {IdOf(i - 1)}

(* What it waits for in fact. *)
Before(i) ==
  IF config.execution = "dag" THEN {j \in Steps : IdOf(j) \in DependsOn(i)}
  ELSE {i - 1} \cap Steps

(* Declared IDs are unique, and so are saves. *)
Accepted(scenario) ==
  /\ \A i, j \in 1..Len(scenario.steps) : i # j =>
       /\ scenario.steps[i].id = "" \/ scenario.steps[i].id # scenario.steps[j].id
       /\ scenario.steps[i].save = "" \/ scenario.steps[i].save # scenario.steps[j].save
  /\ scenario.execution = "dag" =>
       \A i \in 1..Len(scenario.steps) : scenario.steps[i].id # ""

(* What the engine may report of an instance: which steps ran and which of
   them failed; a step starts when those it waits for have ended, or a little
   later, and after a failure nothing starts. *)
Timed(ran, failed, took, late) ==
  LET to[i \in Steps] == took[i] + (IF i \in late THEN 1 ELSE 0)
                            + Max({to[j] : j \in Before(i)} \cup {0})
  IN [ran |-> ran, failed |-> failed,
      from |-> [i \in Steps |-> IF i \in ran THEN to[i] - took[i] ELSE 0],
      to |-> [i \in Steps |-> IF i \in ran THEN to[i] ELSE 0]]

Ends ==
  {e \in (SUBSET Steps) \X (SUBSET Steps) :
     LET ran == e[1]
         failed == e[2]
     IN /\ failed \subseteq ran
        /\ failed = {} => ran \in {{}, Steps}
        /\ \A i \in ran : Before(i) \subseteq ran \ failed}

Outcomes ==
  {o \in {Timed(e[1], e[2], took, late) :
           e \in Ends, took \in [Steps -> 1..MaxTaken], late \in SUBSET config.late} :
     \A i \in o.failed, j \in o.ran : o.from[j] <= o.to[i]}

(* Without any step, the bindings failed. *)
Completed(o) == o.ran = Steps /\ o.failed = {}

(* An instance lasts until its last step ends. *)
Elapsed(o) == Max({o.to[i] : i \in o.ran} \cup {0})

-----------------------------------------------------------------------------
(* LatencyAccumulator: exact but for the percentiles, whose samples are a
   reservoir.  The hash picks any slot. *)

Empty == [observed |-> 0, min |-> 0, max |-> 0, total |-> 0,
          reservoir |-> <<>>]

Recorded(a, value, slot) ==
  [observed |-> a.observed + 1,
   min |-> IF a.observed = 0 \/ value < a.min THEN value ELSE a.min,
   max |-> IF value > a.max THEN value ELSE a.max,
   total |-> a.total + value,
   reservoir |-> IF Len(a.reservoir) < MaxSamples THEN Append(a.reservoir, value)
                 ELSE IF slot <= MaxSamples
                 THEN [a.reservoir EXCEPT ![slot] = value]
                 ELSE a.reservoir]

-----------------------------------------------------------------------------
(* observed_critical_path: back from the terminal that ended last, always to
   the dependency that ended last.  Steps are looked up by ID, and the last
   of two with one ID is found. *)

Named(o, id) == Max({i \in o.ran : IdOf(i) = id})

LatestFirst(o, candidates) == \* fault
  CHOOSE p \in candidates : \A q \in candidates : Len(p) <= Len(q)

(* The path that ended last. *)
Latest(o, candidates) ==
  CHOOSE p \in candidates :
    \A q \in candidates : o.to[q[Len(q)]] <= o.to[p[Len(p)]]

(* A lookup that follows dependencies for longer than there are steps would
   not return. *)
Endless == <<0>>

PathTo(o, id) ==
  LET visit[n \in 0..Len(config.steps), i \in Steps] ==
        IF DependsOn(i) = {} THEN <<i>>
        ELSE IF n = 0 THEN Endless
        ELSE LET candidates == {visit[n - 1, Named(o, d)] : d \in DependsOn(i)}
             IN IF Endless \in candidates THEN Endless
                ELSE Append(Latest(o, candidates), i)
  IN visit[Len(config.steps), Named(o, id)]

Terminals(o) ==
  {i \in o.ran : \A j \in o.ran : IdOf(i) \notin DependsOn(j)}

CriticalPath(o) ==
  LET candidates == {PathTo(o, IdOf(i)) : i \in Terminals(o)}
  IN IF candidates = {} THEN <<>>
     ELSE IF Endless \in candidates THEN Endless
     ELSE Latest(o, candidates)

(* From the first start of a root to the end of the path. *)
PathLatency(o) ==
  LET p == CriticalPath(o)
  IN IF p = <<>> THEN 0
     ELSE o.to[p[Len(p)]] - Min({o.from[i] : i \in {j \in o.ran : DependsOn(j) = {}}})

-----------------------------------------------------------------------------
(* record_causal_edges: dependencies, and submissions with what was observed
   of them.  A submission is known by its transaction; with several of one
   hash the first counts. *)

Submission(o, tx) == Min({i \in o.ran : config.steps[i].submits = tx})

Edges(o) ==
  UNION {{<<"dependency", IdOf(Named(o, d)), IdOf(i)>> : d \in DependsOn(i)} : i \in o.ran}
  \cup
  {<<"submit_to_observation", IdOf(Submission(o, config.steps[i].observes)), IdOf(i)>> :
     i \in {j \in o.ran : \E k \in o.ran :
              config.steps[j].observes # "" /\ config.steps[k].submits = config.steps[j].observes}}

(* The lifecycles that are kept: the largest instance gives way. *)
Keep(kept, instance) ==
  IF config.samples > 0 /\ (Cardinality(kept) < config.samples \/ instance < Max(kept))
  THEN LET more == kept \cup {instance}
       IN IF Cardinality(more) > config.samples THEN more \ {Max(more)} ELSE more
  ELSE kept

(* ScenarioAccumulator::record.  A failure is counted under the first of the
   steps that failed, or under the bindings. *)
Record(instance, o, slot) ==
  /\ path # Endless
  /\ journal' = Append(journal, [instance |-> instance, outcome |-> o])
  /\ path' = IF Completed(o) \/ instance \in Keep(report.sampled, instance)
             THEN CriticalPath(o) ELSE <<>>
  /\ report' =
       [completed |-> report.completed + (IF Completed(o) THEN 1 ELSE 0),
        failed |-> report.failed + (IF Completed(o) THEN 0 ELSE 1),
        succeeded |-> [i \in Steps |->
          report.succeeded[i] + (IF i \in o.ran \ o.failed THEN 1 ELSE 0)],
        refused |-> [i \in Steps |->
          report.refused[i] + (IF i \in o.failed THEN 1 ELSE 0)],
        failures |-> [i \in 0..Len(config.steps) |->
          report.failures[i] +
            (IF ~Completed(o) /\ i = Min(o.failed \cup (IF o.failed = {} THEN {0} ELSE {}))
             THEN 1 ELSE 0)],
        latency |-> IF Completed(o) THEN Recorded(report.latency, Elapsed(o), slot)
                    ELSE report.latency,
        critical |-> IF Completed(o) /\ CriticalPath(o) # Endless
                     THEN Recorded(report.critical, PathLatency(o), slot)
                     ELSE report.critical,
        edges |-> IF Completed(o)
                  THEN [e \in DOMAIN report.edges \cup Edges(o) |->
                         (IF e \in DOMAIN report.edges THEN report.edges[e] ELSE 0)
                         + (IF e \in Edges(o) THEN 1 ELSE 0)]
                  ELSE report.edges,
        sampled |-> Keep(report.sampled, instance)]
  /\ UNCHANGED config

-----------------------------------------------------------------------------
Init ==
  /\ config \in {s \in Scenarios : Accepted(s)}
  /\ journal = <<>>
  /\ path = <<>>
  /\ report = [completed |-> 0, failed |-> 0,
               succeeded |-> [i \in Steps |-> 0], refused |-> [i \in Steps |-> 0],
               failures |-> [i \in 0..Len(config.steps) |-> 0],
               latency |-> Empty, critical |-> Empty, edges |-> <<>>, sampled |-> {}]

Next ==
  \E instance \in 1..config.instances \ {journal[k].instance : k \in 1..Len(journal)},
     o \in Outcomes :
    \E slot \in 1..report.latency.observed + 1 : Record(instance, o, slot)

Spec == Init /\ [][Next]_vars

-----------------------------------------------------------------------------
(* Type invariant. *)
TypeOK ==
  /\ config.execution \in {"sequential", "dag"}
  /\ config.late \subseteq Steps \* bound: the steps that may start late
  /\ config.samples \in Nat /\ config.instances \in Nat
  /\ report.sampled \subseteq 1..config.instances
  /\ path \in Seq(0..Len(config.steps))

Recordings(P(_)) == Cardinality({k \in 1..Len(journal) : P(journal[k].outcome)})

(* Each outcome is counted once, as a whole and step by step, and every
   failure has one cause. *)
CountsAddUp ==
  /\ report.completed + report.failed = Len(journal)
  /\ FoldSeq(LAMBDA n, total : total + n, 0,
       [i \in 1..Len(config.steps) + 1 |-> report.failures[i - 1]]) = report.failed
  /\ \A i \in Steps :
       report.succeeded[i] + report.refused[i] = Recordings(LAMBDA o : i \in o.ran)
  /\ \A i, j \in Steps : j \in Before(i) => report.succeeded[j] >= report.succeeded[i]

(* The lifecycles kept are those of the lowest instances that have ended,
   whatever order they ended in. *)
SampledAreFirst ==
  LET ended == {journal[k].instance : k \in 1..Len(journal)}
  IN /\ Cardinality(report.sampled)
          = Min({config.samples, Cardinality(ended)})
     /\ \A i \in report.sampled, j \in ended \ report.sampled : i < j

(* The distributions have seen every completed instance, and the reservoir
   holds as many of them as it can. *)
LatenciesAreOfTheCompleted ==
  LET values == {Elapsed(journal[k].outcome) :
                   k \in {n \in 1..Len(journal) : Completed(journal[n].outcome)}}
  IN /\ report.latency.observed = report.completed
     /\ Len(report.latency.reservoir) = Min({MaxSamples, report.completed})
     /\ Range(report.latency.reservoir) \subseteq values
     /\ report.completed > 0 => /\ report.latency.min = Min(values)
                                /\ report.latency.max = Max(values)

(* An edge is timed once for every completed instance. *)
EdgesAreOfTheCompleted ==
  \A e \in DOMAIN report.edges : report.edges[e] = report.completed

(* The critical path is a chain of dependencies from a root to the step that
   ended last, through dependencies that ended last: the "longest observed
   dependency path, calculated independently per instance". *)
PathIsCritical ==
  journal # <<>> /\ Completed(Last(journal).outcome) =>
    LET o == Last(journal).outcome
    IN /\ path # <<>> /\ path # Endless
       /\ Before(path[1]) = {}
       /\ \A k \in 2..Len(path) :
            /\ path[k - 1] \in Before(path[k])
            /\ \A j \in Before(path[k]) : o.to[j] <= o.to[path[k - 1]]
       /\ \A i \in Steps : o.to[i] <= o.to[Last(path)]
=============================================================================
