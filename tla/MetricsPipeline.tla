--------------------------- MODULE MetricsPipeline ---------------------------
(***************************************************************************)
(* The metrics of a benchmark command (bench-cli reporting.rs and          *)
(* metrics_forwarder.rs, bench-core metrics.rs, scraper.rs, sample.rs,     *)
(* prometheus_reporter.rs, reporter.rs): scraper tasks archive what they   *)
(* read and hand it to a task that forwards it in real time; a task        *)
(* aggregates the benchmark's own events; at the end the command stops the *)
(* scrapers, joins the aggregation, closes the archive, and runs the       *)
(* reporters one after the other over what the archive retains.            *)
(*                                                                         *)
(* A sample is [src, n, at, size]: the n-th sample of a source (source 0   *)
(* is the snapshot of the benchmark's own counters), when its tick was,    *)
(* and the bytes it takes of a request; a size of 0 is a value that is not *)
(* finite.                                                                 *)
(***************************************************************************)
EXTENDS Integers, FiniteSets, Sequences, SequencesExt

CONSTANTS
  PipelineRuns,   \* the command lines to explore, see TypeOK
  Scrapes,        \* what a scrape may read: sequences of sample sizes
  QueueSize,      \* PROMETHEUS_QUEUE_SIZE
  MaxRequest,     \* MAX_REQUEST_BYTES
  MaxTime,        \* bound: the clock
  MaxFailures     \* bound: failed requests to the metric stores

VARIABLES
  config,         \* the command line
  collector,      \* MetricsCollector: counters, channels, aggregation
  store,          \* SampleStore
  scrapers,       \* scraper -> the state of its task
  forwarder,      \* PrometheusForwarder
  command,        \* the command itself and the clock
  published       \* what the reporters have written, and how far they are

vars == <<config, collector, store, scrapers, forwarder, command, published>>

Sources == 1..config.scrapers

-----------------------------------------------------------------------------
(* Requests (prometheus_reporter.rs).                                      *)

(* Samples in chunks of n, in order. *)
Chunks(samples, n) ==
  [i \in 1..((Len(samples) + n - 1) \div n) |->
     SubSeq(samples, (i - 1) * n + 1,
            IF i * n < Len(samples) THEN i * n ELSE Len(samples))]

Bytes(samples) == FoldSeq(LAMBDA s, total : total + s.size, 0, samples)

(* One sample alone may be too large: then nothing of its chunk is sent. *)
Encodable(chunk) == \A i \in 1..Len(chunk) : chunk[i].size <= MaxRequest

(* encode_bounded_requests: a chunk that is too large is halved until every
   part fits. *)
Requests(chunk) ==
  LET parts[lo, hi \in 1..Len(chunk)] ==
        LET part == SubSeq(chunk, lo, hi)
            middle == lo + (hi - lo + 1) \div 2
        IN IF Bytes(part) <= MaxRequest THEN <<part>>
           ELSE parts[lo, middle - 1] \o parts[middle, hi]
  IN parts[1, Len(chunk)]

(* A chunk that cannot be encoded ends the upload: the empty request. *)
Prepared(chunk) == IF Encodable(chunk) THEN Requests(chunk) ELSE <<<<>>>>

-----------------------------------------------------------------------------
(* MetricsCollector (metrics.rs).                                          *)

(* record_sent, record_success, record_failure: a counter, then the event
   (and the latency) into the channels. *)
Record(kind) ==
  /\ command.pc = "running"
  /\ \/ /\ kind = "sent"
        /\ collector.count["sent"] < config.txs
     \/ /\ kind \in {"success", "failed"}
        /\ collector.count["success"] + collector.count["failed"]
             < collector.count["sent"]
  /\ collector' = [collector EXCEPT
       !.count[kind] = @ + 1,
       !.channel = IF kind = "success" /\ config.latencies
                   THEN @ \o <<[kind |-> "latency", second |-> command.now],
                               [kind |-> kind, second |-> command.now]>>
                   ELSE Append(@, [kind |-> kind, second |-> command.now])]
  /\ UNCHANGED <<config, store, scrapers, forwarder, command, published>>

(* metrics_aggregation_loop: an event wakes it, and it drains the channels. *)
Aggregate ==
  /\ collector.loop = "running"
  /\ collector.channel # <<>>
  /\ collector' = [collector EXCEPT !.recorded = @ \o collector.channel,
                                    !.channel = <<>>]
  /\ UNCHANGED <<config, store, scrapers, forwarder, command, published>>

LastDrainSkipped == <<>> \* fault

(* What the loop still records once it was told to stop. *)
LastDrain == collector.channel

AggregationEnds ==
  /\ collector.loop = "running"
  /\ collector.shutdown
  /\ collector' = [collector EXCEPT !.recorded = @ \o LastDrain,
                                    !.channel = <<>>,
                                    !.loop = "ended"]
  /\ UNCHANGED <<config, store, scrapers, forwarder, command, published>>

-----------------------------------------------------------------------------
(* The scrapers (scraper.rs) and the archive (sample.rs).                  *)

Sample(src, n, at, size) == [src |-> src, n |-> n, at |-> at, size |-> size]

(* snapshot_samples: the benchmark's own counters, as one sample. *)
Snapshot(n) == <<Sample(0, n, command.now, 1)>>

(* A tick takes the timestamps of all it will archive.  The first scraper
   begins with the snapshot of the benchmark's own counters. *)
Tick(s) ==
  /\ scrapers[s].pc = "waiting"
  /\ scrapers[s].ticks < config.ticks
  /\ scrapers' = [scrapers EXCEPT ![s] =
       IF s = 1
       THEN [@ EXCEPT !.pc = "archiving", !.ticks = @ + 1, !.at = command.now,
                      !.extra = TRUE,
                      !.batch = Snapshot(scrapers[s].ticks + 1)]
       ELSE [@ EXCEPT !.pc = "scraping", !.ticks = @ + 1, !.at = command.now]]
  /\ UNCHANGED <<config, collector, store, forwarder, command, published>>

(* The node answers, with samples or none, or the scrape fails. *)
Scrape(s) ==
  /\ scrapers[s].pc = "scraping"
  /\ \E sizes \in Scrapes \cup {<<>>} :
       scrapers' = [scrapers EXCEPT ![s] =
         [@ EXCEPT !.pc = IF sizes = <<>> THEN "waiting" ELSE "archiving",
                   !.extra = FALSE,
                   !.made = @ + Len(sizes),
                   !.batch = [i \in 1..Len(sizes) |->
                      Sample(s, scrapers[s].made + i, scrapers[s].at, sizes[i])]]]
  /\ UNCHANGED <<config, collector, store, forwarder, command, published>>

Finite(samples) == SelectSeq(samples, LAMBDA s : s.size > 0)

(* Where a scraper goes once a batch is dealt with: from the snapshot to the
   scrape, from the scrape to the next tick. *)
AfterBatch(s) == IF scrapers[s].extra THEN "scraping" ELSE "waiting"

(* push_samples, first half: the archive takes the finite samples; a closed
   archive takes nothing, which is only logged. *)
Archive(s) ==
  /\ scrapers[s].pc = "archiving"
  /\ LET written == Finite(scrapers[s].batch)
     IN IF store.open
        THEN /\ store' = [store EXCEPT !.archived = @ \o written]
             /\ scrapers' = [scrapers EXCEPT ![s] =
                  [@ EXCEPT !.batch = written,
                            !.pc = IF config.forward /\ written # <<>>
                                   THEN "forwarding" ELSE AfterBatch(s)]]
        ELSE /\ store' = [store EXCEPT !.refused = TRUE]
             /\ scrapers' = [scrapers EXCEPT ![s].pc = AfterBatch(s)]
  /\ UNCHANGED <<config, collector, forwarder, command, published>>

(* push_samples, second half: a bounded queue, awaited; a forwarder that is
   gone takes nothing, which is only logged. *)
Enqueue(s) ==
  /\ scrapers[s].pc = "forwarding"
  /\ \/ /\ forwarder.status = "running"
        /\ Len(forwarder.queue) < QueueSize
        /\ forwarder' = [forwarder EXCEPT !.queue = Append(@, scrapers[s].batch)]
     \/ /\ forwarder.status # "running"
        /\ UNCHANGED forwarder
  /\ scrapers' = [scrapers EXCEPT ![s].pc = AfterBatch(s)]
  /\ UNCHANGED <<config, collector, store, command, published>>

(* The stop flag is looked at between two ticks only. *)
ScraperStops(s) ==
  /\ scrapers[s].pc = "waiting"
  /\ command.pc # "running"
  /\ s <= command.stopping
  /\ scrapers' = [scrapers EXCEPT ![s].pc = "ended"]
  /\ UNCHANGED <<config, collector, store, forwarder, command, published>>

-----------------------------------------------------------------------------
(* run_forwarder (prometheus_reporter.rs).                                 *)

TakeBatch ==
  /\ forwarder.status = "running"
  /\ forwarder.sending = <<>>
  /\ forwarder.queue # <<>>
  /\ forwarder' = [forwarder EXCEPT
       !.queue = Tail(@),
       !.sending = FlattenSeq([i \in 1..Len(Chunks(Head(forwarder.queue), config.batch)) |->
                     Prepared(Chunks(Head(forwarder.queue), config.batch)[i])])]
  /\ UNCHANGED <<config, collector, store, scrapers, command, published>>

(* A failed request ends the task, and what is queued is lost. *)
ForwardRequest ==
  /\ forwarder.status = "running"
  /\ forwarder.sending # <<>>
  /\ \/ /\ Head(forwarder.sending) # <<>>
        /\ forwarder' = [forwarder EXCEPT !.uploaded = @ \o Head(forwarder.sending),
                                          !.sending = Tail(@)]
        /\ UNCHANGED command
     \/ /\ Head(forwarder.sending) = <<>>
        /\ forwarder' = [forwarder EXCEPT !.status = "failed"]
        /\ UNCHANGED command
     \/ /\ Head(forwarder.sending) # <<>>
        /\ command.failures < MaxFailures
        /\ forwarder' = [forwarder EXCEPT !.status = "failed"]
        /\ command' = [command EXCEPT !.failures = @ + 1]
  /\ UNCHANGED <<config, collector, store, scrapers, published>>

DrainedOfQueue == forwarder.sending = <<>> \* fault

(* recv returns None once every sender is dropped and the queue is empty. *)
Drained == forwarder.queue = <<>> /\ forwarder.sending = <<>>

ForwarderEnds ==
  /\ forwarder.status = "running"
  /\ command.pc \in {"draining", "done"}
  /\ \A s \in Sources : scrapers[s].pc = "ended"
  /\ Drained
  /\ forwarder' = [forwarder EXCEPT !.status = "ended"]
  /\ UNCHANGED <<config, collector, store, scrapers, command, published>>

-----------------------------------------------------------------------------
(* The command: Reporting, and the end of send.rs, send_blocks.rs, call.rs. *)

TimePasses ==
  /\ command.pc = "running"
  /\ command.now < MaxTime
  /\ command' = [command EXCEPT !.now = @ + 1]
  /\ UNCHANGED <<config, collector, store, scrapers, forwarder, published>>

(* Every transaction is settled; the scrapers are stopped one by one. *)
StopScrapers ==
  /\ command.pc = "running"
  /\ collector.count["sent"] = config.txs
  /\ collector.count["success"] + collector.count["failed"] = config.txs
  /\ command' = [command EXCEPT !.pc = "stopping",
                                !.stopping = IF config.scrapers = 0 THEN 0 ELSE 1]
  /\ UNCHANGED <<config, collector, store, scrapers, forwarder, published>>

StoppedWhenAsked(s) == TRUE \* fault

(* ScraperHandle::stop awaits the task. *)
Stopped(s) == scrapers[s].pc = "ended"

StopNext ==
  /\ command.pc = "stopping"
  /\ IF command.stopping = config.scrapers
     THEN /\ \A s \in Sources : Stopped(s)
          /\ command' = [command EXCEPT !.pc =
               IF config.final THEN "snapshot" ELSE "finalizing"]
     ELSE /\ Stopped(command.stopping)
          /\ command' = [command EXCEPT !.stopping = @ + 1]
  /\ UNCHANGED <<config, collector, store, scrapers, forwarder, published>>

(* send-blocks archives a last snapshot of its counters... *)
FinalSnapshot ==
  /\ command.pc = "snapshot"
  /\ store' = [store EXCEPT
       !.archived = @ \o Snapshot(config.ticks + 1)]
  /\ command' = [command EXCEPT !.pc =
       IF config.forward THEN "forwarding" ELSE "finalizing"]
  /\ UNCHANGED <<config, collector, scrapers, forwarder, published>>

(* ... and forwards it: a forwarder that is gone fails the command. *)
FinalForward ==
  /\ command.pc = "forwarding"
  /\ \/ /\ forwarder.status = "running"
        /\ Len(forwarder.queue) < QueueSize
        /\ forwarder' = [forwarder EXCEPT !.queue =
             Append(@, <<Last(store.archived)>>)]
        /\ command' = [command EXCEPT !.pc = "finalizing"]
     \/ /\ forwarder.status # "running"
        /\ command' = [command EXCEPT !.pc = "done", !.ok = FALSE]
        /\ UNCHANGED forwarder
  /\ UNCHANGED <<config, collector, store, scrapers, published>>

(* finish_aggregation: the loop is told to stop, and awaited. *)
StopAggregation ==
  /\ command.pc = "finalizing"
  /\ collector' = [collector EXCEPT !.shutdown = TRUE]
  /\ command' = [command EXCEPT !.pc = "joining"]
  /\ UNCHANGED <<config, store, scrapers, forwarder, published>>

(* time_series: what the seconds of a series add up to. *)
Series(kind) == Cardinality({i \in 1..Len(collector.recorded) :
                               collector.recorded[i].kind = kind})

(* finalize and time_series read the aggregation, finish closes the archive,
   and trim_report lowers what of it is read to the end of the measurement
   and to the last block that is not empty. *)
Report ==
  /\ command.pc = "joining"
  /\ collector.loop = "ended"
  /\ store' = [store EXCEPT !.open = FALSE]
  /\ \E last \in 1..MaxTime :
       command' = [command EXCEPT !.pc = "reporting", !.cutoff = last]
  /\ UNCHANGED <<config, collector, scrapers, forwarder, published>>

-----------------------------------------------------------------------------
(* The reporters, one after the other over the report.                     *)

Retained == SelectSeq(store.archived, LAMBDA s : s.at <= command.cutoff)

Reporting(kind) ==
  /\ command.pc = "reporting"
  /\ published.next <= Len(config.reporters)
  /\ config.reporters[published.next] = kind

NoUpload == [chunks |-> 0, encoding |-> {}, prepared |-> {}, upload |-> 1,
             sending |-> <<>>]

(* try_for_each: the next reporter, or the first error ends them all. *)
NextReporter(done) == [done EXCEPT !.next = @ + 1, !.push = NoUpload, !.step = 1]

ReporterFails == command' = [command EXCEPT !.pc = "flushing", !.ok = FALSE]

RequestFails ==
  /\ command.failures < MaxFailures
  /\ command' = [command EXCEPT !.pc = "flushing", !.ok = FALSE,
                                !.failures = @ + 1]
  /\ UNCHANGED published

(* JsonReporter: the report, and the archive compressed beside it. *)
WriteJson ==
  /\ Reporting("json")
  /\ published' = NextReporter([published EXCEPT !.file = Retained])
  /\ UNCHANGED <<config, collector, store, scrapers, forwarder, command>>

(* ClickHouseReporter: blocks, samples by batches, receipts, then the run. *)
Rows == [i \in 1..Len(Chunks(Retained, config.batch)) |-> <<"samples", i>>]

InsertsRunFirst == <<<<"run", 1>>, <<"blocks", 1>>>> \o Rows \o <<<<"receipts", 1>>>> \* fault

Inserts == <<<<"blocks", 1>>>> \o Rows \o <<<<"receipts", 1>>, <<"run", 1>>>>

InsertRows ==
  /\ Reporting("clickhouse")
  /\ \/ /\ LET inserted == [published EXCEPT
                  !.tables = @ \cup {Inserts[published.step]}]
           IN published' = IF published.step = Len(Inserts)
                           THEN NextReporter(inserted)
                           ELSE [inserted EXCEPT !.step = @ + 1]
        /\ UNCHANGED command
     \/ RequestFails
  /\ UNCHANGED <<config, collector, store, scrapers, forwarder>>

(* PrometheusReporter::push_report: encoding tasks run beside the upload,
   which keeps the order of the chunks.  fill_encode_tasks keeps the workers
   busy whenever the loop turns. *)
Workers == IF config.workers > 1 THEN config.workers ELSE 1

Filled(push) ==
  LET chunks == Len(Chunks(Retained, config.batch))
      room == Workers - Cardinality(push.encoding)
      last == IF push.chunks + room < chunks THEN push.chunks + room ELSE chunks
  IN [push EXCEPT !.encoding = @ \cup (push.chunks + 1)..last, !.chunks = last]

StartPush ==
  /\ Reporting("remote")
  /\ published.push = NoUpload
  /\ published' = IF Retained = <<>> THEN NextReporter(published)
                  ELSE [published EXCEPT !.push = Filled(NoUpload)]
  /\ UNCHANGED <<config, collector, store, scrapers, forwarder, command>>

UploadsAny(push) == push.prepared \* fault

(* Which encoded chunk may be uploaded now. *)
Uploads(push) == {push.upload} \cap push.prepared

(* A task ends: joined beside the request that is in flight, or when there is
   nothing to upload. *)
ChunkEncoded(i) ==
  /\ Reporting("remote")
  /\ i \in published.push.encoding
  /\ published.push.sending # <<>> \/ Uploads(published.push) = {}
  /\ IF Encodable(Chunks(Retained, config.batch)[i])
     THEN /\ published' = [published EXCEPT !.push =
               Filled([published.push EXCEPT !.encoding = @ \ {i},
                                             !.prepared = @ \cup {i}])]
          /\ UNCHANGED command
     ELSE ReporterFails /\ UNCHANGED published
  /\ UNCHANGED <<config, collector, store, scrapers, forwarder>>

StartUpload ==
  /\ Reporting("remote")
  /\ published.push.sending = <<>>
  /\ \E i \in Uploads(published.push) :
       published' = [published EXCEPT
         !.push.prepared = @ \ {i},
         !.push.sending = Requests(Chunks(Retained, config.batch)[i])]
  /\ UNCHANGED <<config, collector, store, scrapers, forwarder, command>>

UploadRequest ==
  /\ Reporting("remote")
  /\ published.push.sending # <<>>
  /\ \/ /\ published' = [published EXCEPT
             !.uploaded = @ \o Head(published.push.sending),
             !.push.sending = Tail(@),
             !.push.upload = IF Len(published.push.sending) = 1 THEN @ + 1 ELSE @]
        /\ UNCHANGED command
     \/ RequestFails
  /\ UNCHANGED <<config, collector, store, scrapers, forwarder>>

EndPush ==
  /\ Reporting("remote")
  /\ published.push # NoUpload
  /\ published.push.chunks = Len(Chunks(Retained, config.batch))
  /\ published.push.encoding = {}
  /\ published.push.prepared = {}
  /\ published.push.sending = <<>>
  /\ published' = NextReporter(published)
  /\ UNCHANGED <<config, collector, store, scrapers, forwarder, command>>

ReportersEnd ==
  /\ command.pc = "reporting"
  /\ published.next > Len(config.reporters)
  /\ command' = [command EXCEPT !.pc = "flushing"]
  /\ UNCHANGED <<config, collector, store, scrapers, forwarder, published>>

(* Reporting::finish: whatever the reporters returned, the forwarder's queue
   is closed and drained; the reporters' error takes precedence. *)
CloseForwarder ==
  /\ command.pc = "flushing"
  /\ command' = [command EXCEPT !.pc = IF config.forward THEN "draining" ELSE "done"]
  /\ UNCHANGED <<config, collector, store, scrapers, forwarder, published>>

Finish ==
  /\ command.pc = "draining"
  /\ forwarder.status # "running"
  /\ command' = [command EXCEPT !.pc = "done",
                                !.ok = @ /\ forwarder.status = "ended"]
  /\ UNCHANGED <<config, collector, store, scrapers, forwarder, published>>

-----------------------------------------------------------------------------
Init ==
  /\ config \in PipelineRuns
  /\ collector = [count |-> [k \in {"sent", "success", "failed"} |-> 0],
                  channel |-> <<>>, recorded |-> <<>>, loop |-> "running",
                  shutdown |-> FALSE]
  /\ store = [open |-> TRUE, archived |-> <<>>, refused |-> FALSE]
  /\ scrapers = [s \in Sources |-> [pc |-> "waiting", ticks |-> 0, at |-> 0,
                                    extra |-> FALSE, made |-> 0, batch |-> <<>>]]
  /\ forwarder = [status |-> IF config.forward THEN "running" ELSE "none",
                  queue |-> <<>>, sending |-> <<>>, uploaded |-> <<>>]
  /\ command = [pc |-> "running", now |-> 1, stopping |-> 0, cutoff |-> 0,
                failures |-> 0, ok |-> TRUE]
  /\ published = [next |-> 1, step |-> 1, file |-> <<>>, tables |-> {},
                  uploaded |-> <<>>, push |-> NoUpload]

Scraping(s) == Tick(s) \/ Scrape(s) \/ Archive(s) \/ Enqueue(s) \/ ScraperStops(s)

Forwarding == TakeBatch \/ ForwardRequest \/ ForwarderEnds

Aggregation == Aggregate \/ AggregationEnds

Commanding ==
  \/ StopScrapers \/ StopNext \/ FinalSnapshot \/ FinalForward
  \/ StopAggregation \/ Report \/ WriteJson \/ InsertRows \/ StartPush
  \/ (\E i \in published.push.encoding : ChunkEncoded(i))
  \/ StartUpload \/ UploadRequest \/ EndPush \/ ReportersEnd
  \/ CloseForwarder \/ Finish

Next ==
  \/ (\E kind \in {"sent", "success", "failed"} : Record(kind))
  \/ Aggregation
  \/ (\E s \in Sources : Scraping(s))
  \/ Forwarding
  \/ TimePasses
  \/ Commanding

Spec == Init /\ [][Next]_vars

-----------------------------------------------------------------------------
OfSource(samples, s) == SelectSeq(samples, LAMBDA x : x.src = s)

(* Type invariant. *)
TypeOK ==
  /\ config.scrapers \in 0..2 /\ config.batch >= 1 /\ config.workers \in Nat
  /\ config.ticks \in Nat \* bound: ticks of a scraper
  /\ Range(config.reporters) \subseteq {"json", "clickhouse", "remote"}
  /\ collector.loop \in {"running", "ended"}
  /\ \A s \in Sources : scrapers[s].pc \in
       {"waiting", "scraping", "archiving", "forwarding", "ended"}
  /\ forwarder.status \in {"none", "running", "failed", "ended"}
  /\ Len(forwarder.queue) <= QueueSize
  /\ command.pc \in {"running", "stopping", "snapshot", "forwarding", "finalizing",
       "joining", "reporting", "flushing", "draining", "done"}
  /\ Cardinality(published.push.encoding) <= Workers

(* What the forwarder has sent of a source is the beginning of what the
   archive holds of it, in order and without a gap; and a command that
   succeeds has forwarded the whole archive (Reporting::finish drains the
   queue; scraper.rs archives a batch before it queues it). *)
ForwardedIsArchived ==
  /\ \A s \in 0..config.scrapers :
       IsPrefix(OfSource(forwarder.uploaded, s), OfSource(store.archived, s))
  /\ command.pc = "done" /\ command.ok /\ config.forward =>
       \A s \in 0..config.scrapers :
         OfSource(forwarder.uploaded, s) = OfSource(store.archived, s)

(* No sample comes after the archive is closed: the scrapers are awaited
   before that (ScraperHandle::stop, SampleStore::finish). *)
ArchiveIsWhole == ~store.refused

(* The final remote write sends what the report retains in the order of the
   archive, whatever order the encoding tasks end in, and all of it before
   the next reporter begins. *)
UploadIsInOrder ==
  /\ IsPrefix(published.uploaded, Retained)
  /\ "remote" \in Range(SubSeq(config.reporters, 1, published.next - 1))
       => published.uploaded = Retained

(* A run is visible in ClickHouse only with all of its details. *)
VisibleRunsAreWhole ==
  <<"run", 1>> \in published.tables =>
    {<<"blocks", 1>>, <<"receipts", 1>>} \cup Range(Rows) \subseteq published.tables

(* The time series and the latencies of a report add up to its counters: no
   event is left in a channel when the aggregation ends. *)
SeriesMatchCounters ==
  command.pc \in {"reporting", "flushing", "draining"} =>
    \A kind \in {"sent", "success", "failed"} :
      Series(kind) = collector.count[kind]
=============================================================================
