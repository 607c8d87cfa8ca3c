--------------------------- MODULE ScenarioPublish ---------------------------
(***************************************************************************)
(* Where the report of a scenario run goes (txgen-cli scenario/mod.rs,     *)
(* scenario/clickhouse.rs): JSON files or stdout first, then ClickHouse    *)
(* stores, each whatever became of the others.  A store has no             *)
(* transactions over its tables, so rows are inserted table by table and   *)
(* the row of txgen_runs, from which readers begin, comes last.  Any write *)
(* or insert may fail, an insert may be applied though its answer is lost, *)
(* and the process may be killed in between.                               *)
(***************************************************************************)
EXTENDS Integers, FiniteSets, Sequences, SequencesExt

CONSTANTS
  Publications,  \* the arguments and the report, see TypeOK
  BatchSize      \* DEFAULT_CLICKHOUSE_RECEIPT_BATCH_SIZE

PublishAssumption == BatchSize \in Nat \ {0}

VARIABLES
  config,        \* --report as given, metadata, the report; it never changes
  publisher,     \* the destination and the write it is at, what failed, exit
  written,       \* what each JSON destination holds
  stores         \* the inserts each store has applied, in order

vars == <<config, publisher, written, stores>>

(* Two spellings of one URL differ in the slash at the end.  The name is ""
   when a destination has no path or no valid URL. *)
Destination == [kind : {"json", "clickhouse"}, name : STRING, slash : BOOLEAN]

Of(kind) == SelectSeq(config.specs, LAMBDA d : d.kind = kind)
Stdout == [kind |-> "json", name |-> "stdout", slash |-> FALSE]

Destinations ==
  IF config.specs = <<>> THEN <<Stdout>> ELSE Of("json") \o Of("clickhouse")

DuplicateAsWritten(d, e) == d = e \* fault

Duplicate(d, e) == d.name = e.name

(* ScenarioReportDestinations::parse and ScenarioClickHouseReporter::from_env. *)
Refused ==
  LET urls == Of("clickhouse")
  IN \/ \E d \in ToSet(config.specs) : d.name = ""
     \/ \E i, j \in DOMAIN urls : i # j /\ Duplicate(urls[i], urls[j])
     \/ urls # <<>> /\ ~config.metadata

-----------------------------------------------------------------------------
(* build_rows: for each step of each sampled instance the report has a number
   of milestones.  Receipts are cut into batches, and an insert of no rows is
   none. *)

Tables ==
  <<"txgen_scenario_steps", "txgen_scenario_causal_edges",
    "txgen_scenario_instance_traces", "txgen_scenario_trace_steps",
    "txgen_scenario_trace_milestones", "txgen_receipt_gas",
    "txgen_scenario_runs", "txgen_runs">>

Rows(table) ==
  LET traces == config.report.traces
      steps == UNION {{i} \X DOMAIN traces[i] : i \in DOMAIN traces}
  IN CASE table = "txgen_scenario_steps" -> 1..config.report.steps
       [] table = "txgen_scenario_causal_edges" -> 1..config.report.edges
       [] table = "txgen_scenario_instance_traces" -> DOMAIN traces
       [] table = "txgen_scenario_trace_steps" -> steps
       [] table = "txgen_scenario_trace_milestones" ->
            UNION {{s} \X (1..traces[s[1]][s[2]]) : s \in steps}
       [] table = "txgen_receipt_gas" -> 1..config.report.receipts
       [] OTHER -> {1}

ChunksOverlapping(rows) == \* fault
  [k \in 1..((Cardinality(rows) + BatchSize - 1) \div BatchSize) |->
     {r \in rows : r >= (k - 1) * BatchSize /\ r <= k * BatchSize}]

(* insert_receipt_gas_records *)
Chunks(rows) ==
  [k \in 1..((Cardinality(rows) + BatchSize - 1) \div BatchSize) |->
     {r \in rows : r > (k - 1) * BatchSize /\ r <= k * BatchSize}]

Batches(table) ==
  LET rows == Rows(table)
      cut == IF table = "txgen_receipt_gas" THEN Chunks(rows) ELSE <<rows>>
  IN SelectSeq([k \in DOMAIN cut |-> [table |-> table, rows |-> cut[k]]],
               LAMBDA insert : insert.rows # {})

InsertsRunFirst == \* fault
  FlattenSeq([i \in DOMAIN Tables |-> Batches(Reverse(Tables)[i])])

Inserts == FlattenSeq([i \in DOMAIN Tables |-> Batches(Tables[i])])

-----------------------------------------------------------------------------
Current == Destinations[publisher.next]

At(kind) ==
  /\ publisher.stage = "publish" /\ publisher.next <= Len(Destinations)
  /\ Current.kind = kind
  /\ UNCHANGED config

(* On to the next write of the destination, or to the next destination. *)
Done == publisher' = [publisher EXCEPT !.next = @ + 1, !.at = 1]
Proceed == publisher' = [publisher EXCEPT !.at = @ + 1]

FailureOfAll == \* fault: the first failure is returned at once
  publisher' = [publisher EXCEPT !.next = Len(Destinations) + 1,
                                 !.failures = @ \cup {Current.name}]

Failure ==
  publisher' = [publisher EXCEPT !.next = @ + 1, !.at = 1, !.failures = @ \cup {Current.name}]

(* run_scenario: destinations are checked before the run.  The run itself is
   ScenarioStart and ScenarioRun; without a report of it nothing is published. *)
Run ==
  /\ publisher.stage = "run"
  /\ publisher' = IF Refused \/ ~config.runs
                  THEN [publisher EXCEPT !.stage = "ended", !.exit = "error"]
                  ELSE [publisher EXCEPT !.stage = "publish"]
  /\ UNCHANGED <<config, written, stores>>

(* write_json_report_file: the file is created, or cut to nothing; stdout is
   open already. *)
Create ==
  /\ At("json") /\ publisher.at = 1
  /\ \/ Proceed /\ written' = [written EXCEPT ![Current.name] = "partial"]
     \/ Current # Stdout /\ Failure /\ UNCHANGED written
  /\ UNCHANGED stores

Write ==
  /\ At("json") /\ publisher.at = 2
  /\ \/ Done /\ written' = [written EXCEPT ![Current.name] = "whole"]
     \/ Failure /\ UNCHANGED written
  /\ UNCHANGED stores

(* ScenarioClickHouseReporter::publish, insert by insert. *)
Applied ==
  stores' = [stores EXCEPT ![Current.name] = Append(@, Inserts[publisher.at])]

Insert ==
  /\ At("clickhouse")
  /\ \/ Applied /\ (IF publisher.at = Len(Inserts) THEN Done ELSE Proceed)
     \/ Applied /\ Failure \* the answer is lost
     \/ UNCHANGED stores /\ Failure
  /\ UNCHANGED written

(* finalize_scenario_reports *)
Finish ==
  /\ publisher.stage = "publish" /\ publisher.next > Len(Destinations)
  /\ publisher' = [publisher EXCEPT
       !.stage = "ended",
       !.exit = IF publisher.failures # {} \/ config.report.failed THEN "error" ELSE "success"]
  /\ UNCHANGED <<config, written, stores>>

Kill ==
  /\ publisher.stage = "publish"
  /\ publisher' = [publisher EXCEPT !.stage = "killed"]
  /\ UNCHANGED <<config, written, stores>>

Init ==
  /\ config \in Publications
  /\ publisher = [stage |-> "run", next |-> 1, at |-> 1, failures |-> {}, exit |-> "none"]
  /\ written = [f \in {d.name : d \in ToSet(Destinations)} |-> "absent"]
  /\ stores = [s \in {d.name : d \in ToSet(Of("clickhouse"))} |-> <<>>]

Work == Run \/ Create \/ Write \/ Insert \/ Finish
Next == Work \/ Kill

Spec == Init /\ [][Next]_vars

-----------------------------------------------------------------------------
(* Type invariant. *)
TypeOK ==
  /\ ToSet(config.specs) \subseteq Destination
  /\ config.metadata \in BOOLEAN /\ config.runs \in BOOLEAN
  /\ publisher.stage \in {"run", "publish", "ended", "killed"}
  /\ publisher.exit \in {"none", "success", "error"}
  /\ \A f \in DOMAIN written : written[f] \in {"absent", "partial", "whole"}
  /\ \A s \in DOMAIN stores : \A i \in DOMAIN stores[s] : stores[s][i] \in ToSet(Inserts)

Over == publisher.stage \in {"ended", "killed"}
Marked(s) == \E i \in DOMAIN stores[s] : stores[s][i].table = "txgen_runs"

(* "Consumers that begin from txgen_runs cannot observe a partially published
   scenario" (clickhouse.rs, publish): a store with the row of the run has
   every row of the report, and each of them once, whatever failed. *)
VisibleIsWhole ==
  \A s \in DOMAIN stores : Marked(s) =>
    \A table \in ToSet(Tables) : \A row \in Rows(table) :
      Cardinality({i \in DOMAIN stores[s] :
                     stores[s][i].table = table /\ row \in stores[s][i].rows}) = 1

(* Before anything is sent to a store, the files are whole or known to have
   failed, so that a failing store takes no report away. *)
FilesComeFirst ==
  (\E s \in DOMAIN stores : stores[s] # <<>>) =>
    \A d \in ToSet(Of("json")) : written[d.name] = "whole" \/ d.name \in publisher.failures

(* Unless it is killed, the command has written each destination or reports
   its failure, and it only succeeds when nothing has failed. *)
NoneIsSkipped ==
  /\ publisher.stage = "ended" /\ config.runs /\ ~Refused =>
       \A d \in ToSet(Destinations) :
         \/ d.name \in publisher.failures
         \/ IF d.kind = "json" THEN written[d.name] = "whole" ELSE Marked(d.name)
  /\ publisher.exit = "success" => publisher.failures = {} /\ ~config.report.failed
=============================================================================
