---------------------------- MODULE BlockReports ----------------------------
(***************************************************************************)
(* The end of bench send: the receipts of the measured blocks are fetched  *)
(* a few at a time and joined with what the senders registered             *)
(* (BlockReceiptCollector), the blocks' statistics are fetched again, and  *)
(* from both come the composition of every block, the gas metrics of every *)
(* label and the latencies from submission to inclusion.  The chain may be *)
(* replaced while this goes on.                                            *)
(***************************************************************************)
EXTENDS Integers, FiniteSets, Sequences, SequencesExt

CONSTANTS
  Measurements,   \* chains, registrations and cuts to explore, see TypeOK
  Fetches         \* BLOCK_RECEIPT_FETCH_CONCURRENCY and its like for stats

VARIABLES
  config,         \* the measurement; it never changes
  node,           \* which of the forks is canonical
  collection,     \* where the command is, the records and the statistics
  report          \* the parts of FinalReport made from them

vars == <<config, node, collection, report>>

BlockRange == config.first .. config.last
Chain == config.forks[node]

-----------------------------------------------------------------------------
(* The registrations: one per transaction, label and scenario instance. *)

DedupKey(r) == <<r.hash, r.input, r.instance>>

Requests(hash) ==
  LET sent == config.registered
      fresh(i) == \A j \in 1..i - 1 : DedupKey(sent[j]) # DedupKey(sent[i])
      mine == {i \in DOMAIN sent : sent[i].hash = hash /\ fresh(i)}
  IN [k \in 1..Cardinality(mine) |->
        sent[CHOOSE i \in mine : Cardinality({j \in mine : j <= i}) = k]]

(* Of a transaction that nobody registered, or that was found before, there
   is a record without labels. *)
RequestsOrNone(hash, found) ==
  LET known == Requests(hash)
  IN IF hash \in found \/ known = <<>>
     THEN <<[hash |-> hash, input |-> "", instance |-> 0, submitted |-> 0]>>
     ELSE known

(* System transactions use no gas. *)
Paid(txs) == SelectSeq(txs, LAMBDA tx : tx.gas # 0)

RecordsOf(number, tx, found) ==
  [k \in 1..Len(RequestsOrNone(tx.hash, found)) |->
     LET request == RequestsOrNone(tx.hash, found)[k]
     IN [hash |-> tx.hash, number |-> number, gas |-> tx.gas, success |-> tx.success,
         price |-> tx.price, input |-> request.input, submitted |-> request.submitted]]

(* Requests go out in the order of the blocks, so many at a time. *)
InFlight == {b \in collection.todo : Cardinality({c \in collection.todo : c < b}) < Fetches}

Next_(phase) == IF config.first > config.last THEN "report" ELSE phase

(* BlockReceiptCollector::finish: the senders are gone, all they registered
   is in the channel. *)
Finish ==
  /\ collection.at = "finish"
  /\ collection' = [collection EXCEPT !.at = Next_("receipts"), !.todo = BlockRange]
  /\ UNCHANGED <<config, node, report>>

ReceiptsArrive(b) ==
  /\ collection.at = "receipts" /\ b \in InFlight
  /\ collection' =
       IF b \notin DOMAIN Chain THEN [collection EXCEPT !.at = "failed"]
       ELSE LET txs == Paid(Chain[b].txs)
                more == FlattenSeq([i \in DOMAIN txs |->
                          RecordsOf(b, txs[i], collection.found)])
            IN [collection EXCEPT
                  !.todo = IF @ = {b} THEN BlockRange ELSE @ \ {b},
                  !.at = IF collection.todo = {b} THEN "stats" ELSE @,
                  !.records = @ \o more,
                  !.found = @ \cup {txs[i].hash : i \in DOMAIN txs}]
  /\ UNCHANGED <<config, node, report>>

(* collect_block_stats. *)
StatsArrive(b) ==
  /\ collection.at = "stats" /\ b \in InFlight
  /\ collection' =
       IF b \notin DOMAIN Chain THEN [collection EXCEPT !.at = "failed"]
       ELSE LET txs == Chain[b].txs
                gas == FoldSeq(LAMBDA tx, sum : sum + tx.gas, 0, txs)
            IN [collection EXCEPT
                  !.todo = @ \ {b},
                  !.at = IF collection.todo = {b} THEN "report" ELSE @,
                  !.stats = @ \cup {[number |-> b, stamp |-> Chain[b].stamp, gas |-> gas]}]
  /\ UNCHANGED <<config, node, report>>

-----------------------------------------------------------------------------
(* The report. *)

(* trim_trailing_empty_blocks leaves blocks alone that are all empty. *)
Trimmed(stats) ==
  LET real == {s.number : s \in {t \in stats : t.gas > 0}}
  IN IF real = {} THEN stats ELSE {s \in stats : s.number <= Max(real)}

Measured ==
  Trimmed({s \in collection.stats : config.from <= s.stamp /\ s.stamp <= config.until})

Retained ==
  SelectSeq(collection.records, LAMBDA r : \E s \in Measured : s.number = r.number)

CountedTwice(records) == DOMAIN records \* fault

(* In the composition a transaction counts once, under the label of its
   first record. *)
Counted(records) ==
  {i \in DOMAIN records : \A j \in 1..i - 1 : records[j].hash # records[i].hash}

Kinds(records, counted) ==
  LET of(kind) == {i \in counted : records[i].input = kind}
  IN [kind \in {records[i].input : i \in counted} |->
        [count |-> Cardinality(of(kind)),
         gas |-> FoldSet(LAMBDA i, sum : sum + records[i].gas, 0, of(kind)),
         reverted |-> Cardinality({i \in of(kind) : ~records[i].success})]]

Gas(kinds) == FoldSet(LAMBDA kind, sum : sum + kinds[kind].gas, 0, DOMAIN kinds)

(* block_composition refuses a block whose receipts do not use the gas that
   its header says. *)
Composition(records) ==
  LET counted == Counted(records)
  IN [blocks |-> [b \in {s.number : s \in Measured} |->
                    Kinds(records, {i \in counted : records[i].number = b})],
      summary |-> Kinds(records, counted)]

Fits(composition) ==
  \A s \in Measured : Gas(composition.blocks[s.number]) = s.gas

StampOf(number) == (CHOOSE s \in Measured : s.number = number).stamp

(* InclusionLatency::from_records: by label, what was submitted at a known
   time (0 is none). *)
Latencies(records) ==
  {[input |-> records[i].input, hash |-> records[i].hash,
    latency |-> StampOf(records[i].number) - records[i].submitted] :
     i \in {j \in DOMAIN records : records[j].submitted # 0}}

(* Receipt metrics by label: each record is a sample. *)
Samples(records) ==
  [input \in {records[i].input : i \in DOMAIN records} |->
     SelectSeq([i \in DOMAIN records |->
                  IF records[i].input = input
                  THEN <<records[i].gas, records[i].gas * records[i].price>> ELSE <<>>],
               LAMBDA sample : sample # <<>>)]

MakeReport ==
  /\ collection.at = "report"
  /\ LET composition == Composition(Retained)
     IN IF Fits(composition)
        THEN /\ collection' = [collection EXCEPT !.at = "done"]
             /\ report' = [composition |-> composition, metrics |-> Samples(Retained),
                           latencies |-> Latencies(Retained)]
        ELSE /\ collection' = [collection EXCEPT !.at = "failed"]
             /\ UNCHANGED report
  /\ UNCHANGED <<config, node>>

-----------------------------------------------------------------------------
(* The node adopts another fork. *)
Reorganise ==
  /\ node < Len(config.forks) /\ collection.at \notin {"done", "failed"}
  /\ node' = node + 1
  /\ UNCHANGED <<config, collection, report>>

Init ==
  /\ config \in Measurements
  /\ node = 1
  /\ collection = [at |-> "finish", todo |-> {}, records |-> <<>>, found |-> {}, stats |-> {}]
  /\ report = <<>>

Next ==
  \/ Finish
  \/ \E b \in BlockRange : ReceiptsArrive(b) \/ StatsArrive(b)
  \/ MakeReport
  \/ Reorganise

Spec == Init /\ [][Next]_vars

-----------------------------------------------------------------------------
(* Type invariant. *)
TypeOK ==
  /\ config.first \in Nat /\ config.last \in Nat
  /\ node \in DOMAIN config.forks
  /\ collection.at \in {"finish", "receipts", "stats", "report", "done", "failed"}
  /\ collection.todo \subseteq BlockRange
  /\ \A i \in DOMAIN collection.records : collection.records[i].number \in BlockRange

TotalOf(kinds, Part(_)) == FoldSet(LAMBDA kind, sum : sum + Part(kinds[kind]), 0, DOMAIN kinds)

(* On a chain that stays, block_composition never refuses the report, however
   often a transaction was registered and in whatever order the receipts
   came. *)
NoFalseMismatch == node = 1 => collection.at # "failed"

(* What is reported of the measured blocks is each of their transactions
   once, under the label it was first registered with, and the summary is
   the sum of the blocks; every registration with a time has its latency. *)
CompositionIsOfTheBlocks ==
  collection.at = "done" /\ node = 1 =>
    LET txs(b) == Paid(Chain[b].txs)
        hashes(b) == {txs(b)[i].hash : i \in DOMAIN txs(b)}
        first(hash) == IF Requests(hash) = <<>> THEN "" ELSE Requests(hash)[1].input
        blocks == report.composition.blocks
    IN /\ \A b \in DOMAIN blocks :
            \A kind \in DOMAIN blocks[b] \cup {first(h) : h \in hashes(b)} :
              /\ kind \in DOMAIN blocks[b]
              /\ blocks[b][kind].count = Cardinality({h \in hashes(b) : first(h) = kind})
       /\ TotalOf(report.composition.summary, LAMBDA k : k.count)
            = FoldSet(LAMBDA b, sum : sum + Cardinality(hashes(b)), 0, DOMAIN blocks)
       /\ \A i \in DOMAIN config.registered :
            LET r == config.registered[i]
            IN r.submitted # 0 =>
                 \A b \in {c \in DOMAIN blocks : r.hash \in hashes(c)} :
                   \E l \in report.latencies :
                     l.hash = r.hash /\ l.input = r.input
=============================================================================
