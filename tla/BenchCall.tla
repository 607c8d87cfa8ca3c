------------------------------- MODULE BenchCall -------------------------------
(***************************************************************************)
(* bench call (bench-cli/src/call.rs, bench-core/src/call.rs): a corpus of *)
(* requests is replayed at a fixed rate, requests over the limit being     *)
(* dropped, then by workers pass after pass, into one ReplayRecorder.      *)
(* Latencies are left out; ResponseScan is how an answer is digested.      *)
(***************************************************************************)
EXTENDS Integers, Sequences, FiniteSets, SequencesExt, FiniteSetsExt

CONSTANT CallRuns    \* corpora and arguments

\* A line is [method, params, label]; requests = -1 bounds the first loop by a
\* duration, of at most max_issued requests here.
CallAssumption == \A c \in CallRuns :
    /\ {c.measure, c.rate, c.block_tag, c.strip_fees} \subseteq BOOLEAN
    /\ c.lines \in Seq(Range(c.lines))
    /\ c.requests \in Nat \cup {-1} /\ c.passes \in Nat /\ c.max_issued \in Nat
    /\ c.max_concurrent \in Nat \ {0} /\ c.concurrency \in Nat \ {0} /\ c.digests # {}

VARIABLES
    config,    \* it never changes
    call,      \* where the command is, its corpus, and its counters
    flying,    \* requests that have been sent and not recorded
    recorder   \* RecorderState, with what was observed

vars == <<config, call, flying, recorder>>

Goes(at) == call' = [call EXCEPT !.at = at]
Fails == Goes("failed")
-----------------------------------------------------------------------------
(* The corpus                                                              *)

CallShaped == {"eth_call", "trace_call"}
BlockAddressed == {"trace_block"}
Transactions == {"trace_transaction"}
Allowed == CallShaped \cup BlockAddressed \cup Transactions

\* block_param_index, counted from 1; 0 for methods that have none.
BlockParam(method) == CASE method = "eth_call" -> 2 [] method = "trace_call" -> 3
                        [] method = "trace_block" -> 1 [] OTHER -> 0

\* CorpusOptions::rewrite: the tag replaces the block or is appended in its
\* place, and never where the block names the record.
WithTag(method, params) ==
    LET k == BlockParam(method)
    IN  CASE ~config.block_tag \/ method \notin CallShaped -> params
          [] OTHER -> IF k \in DOMAIN params THEN [params EXCEPT ![k] = "tag"]
                      ELSE IF k = Len(params) + 1 THEN Append(params, "tag") ELSE params

Rewritten(method, params) ==
    LET tagged == WithTag(method, params)
    IN  IF config.strip_fees /\ method \in CallShaped /\ tagged # <<>> /\ tagged[1] = "call with fees"
          THEN [tagged EXCEPT ![1] = "call"] ELSE tagged

\* reporting_key
KeyOf(line) == <<line.method, line.label>>

Chosen == {i \in DOMAIN config.lines : config.methods = {} \/ config.lines[i].method \in config.methods}
Replayed == [k \in 1 .. Cardinality(Chosen) |-> CHOOSE i \in Chosen : Cardinality({j \in Chosen : j <= i}) = k]

\* Corpus::read fails at the first line that is no record of an allowed method.
CorpusIsValid == \A i \in DOMAIN config.lines :
    config.lines[i].method \in Allowed /\ config.lines[i].label # "invalid"

LoadCorpus ==
    /\ call.at = "load"
    /\ IF ~CorpusIsValid \/ Replayed = <<>> THEN Fails
       ELSE call' = [call EXCEPT !.at = "prime", !.corpus = [s \in DOMAIN Replayed |->
              LET line == config.lines[Replayed[s]]
              IN  [record_index |-> Replayed[s], key |-> KeyOf(line),
                   params |-> Rewritten(line.method, line.params)]]]
    /\ UNCHANGED <<config, flying, recorder>>

Slots == DOMAIN call.corpus

\* identity and prime: every one of their requests must succeed.
Prime ==
    /\ call.at = "prime"
    /\ Fails \/ Goes("open_loop")
    /\ UNCHANGED <<config, flying, recorder>>
-----------------------------------------------------------------------------
(* The open loop                                                           *)

InFlight == Cardinality(flying)
Bounded == config.requests # -1

\* At its time a request is sent if a permit is free, and is dropped if not.
Issue ==
    /\ call.at = "open_loop" /\ config.rate
    /\ call.issued < IF Bounded THEN config.requests ELSE config.max_issued
    /\ \E slot \in Slots :
         IF InFlight < config.max_concurrent
           THEN /\ flying' = flying \cup {[slot |-> slot, ticket |-> call.issued]}
                /\ UNCHANGED recorder
           ELSE /\ recorder' = IF config.measure THEN [recorder EXCEPT !.dropped = Append(@, slot)] ELSE recorder
                /\ UNCHANGED flying
    /\ call' = [call EXCEPT !.issued = @ + 1]
    /\ UNCHANGED config

IssuedAll == IF Bounded THEN call.issued >= config.requests ELSE TRUE

OpenLoopEnds ==
    /\ call.at = "open_loop" /\ (config.rate => IssuedAll)
    /\ Goes("drain")
    /\ UNCHANGED <<config, flying, recorder>>

DrainAtOnce ==  \* fault
    /\ call.at = "drain"
    /\ Goes(IF config.measure /\ config.passes > 0 THEN "closed_loop" ELSE "finish")
    /\ UNCHANGED <<config, flying, recorder>>

\* acquire_many of all the permits; there is nothing to drain without a rate.
Drain ==
    /\ call.at = "drain" /\ flying = {}
    /\ Goes(IF config.measure /\ config.passes > 0 THEN "closed_loop" ELSE "finish")
    /\ UNCHANGED <<config, flying, recorder>>
-----------------------------------------------------------------------------
(* The closed loop                                                         *)

Total == config.passes * Len(call.corpus)

\* A worker takes the next ticket; after the last it ends.
TakeTicket ==
    /\ call.at = "closed_loop" /\ InFlight < config.concurrency /\ call.cursor < Total
    /\ flying' = flying \cup {[slot |-> (call.cursor % Len(call.corpus)) + 1, ticket |-> call.cursor]}
    /\ call' = [call EXCEPT !.cursor = @ + 1]
    /\ UNCHANGED <<config, recorder>>

PassOf(r) == r.ticket \div Len(call.corpus)

WorkersJoin ==
    /\ call.at = "closed_loop" /\ call.cursor = Total /\ flying = {}
    /\ Goes("finish")
    /\ UNCHANGED <<config, flying, recorder>>
-----------------------------------------------------------------------------
(* ReplayRecorder                                                          *)

NoAnswer == "none"
Answered == {"ok", "rpc_error"}
Failures == {"http_error", "transport_error", "timeout"}

ObserveFirst(r, slot, digest, authoritative) ==  \* fault
    CASE digest = NoAnswer \/ r.references[slot] = digest -> r
      [] r.references[slot] = NoAnswer -> [r EXCEPT !.references[slot] = digest]
      [] OTHER -> [r EXCEPT !.nondeterministic = Append(@, slot)]

\* observe: the first answer is the reference until the first pass has one.
Observe(r, slot, digest, authoritative) ==
    CASE digest = NoAnswer \/ r.references[slot] = digest -> r
      [] r.references[slot] = NoAnswer -> [r EXCEPT !.references[slot] = digest]
      [] OTHER -> [r EXCEPT !.nondeterministic = Append(@, slot),
                            !.references[slot] = IF authoritative THEN digest ELSE @]

Row(r, status, digest) ==
    [slot |-> r.slot, status |-> status, digest |-> digest,
     pass |-> IF call.at = "closed_loop" THEN PassOf(r) ELSE -1]

\* send, with any outcome, and record_open_loop or record_closed_loop.  The
\* permit is given back after the row is recorded.
Answer(r) ==
    /\ r \in flying
    /\ \E status \in Answered \cup {"timeout"} :
       \E digest \in IF status \in Answered THEN config.digests ELSE {NoAnswer} :
         recorder' =
           IF ~config.measure \/ call.at \notin {"open_loop", "drain", "closed_loop"} THEN recorder
           ELSE Observe([recorder EXCEPT !.rows = Append(@, Row(r, status, digest))], r.slot, digest,
                        call.at = "closed_loop" /\ PassOf(r) = 0)
    /\ flying' = flying \ {r}
    /\ UNCHANGED <<config, call>>

Count(S) == Cardinality({i \in DOMAIN recorder.rows : recorder.rows[i].status \in S})

\* finish, the outputs and the report; then the rate of failures decides.
Finish ==
    /\ call.at = "finish"
    /\ LET requests == Count(Answered \cup Failures)
       IN  call' = [call EXCEPT !.at = "done", !.responses = recorder.references,
                                !.refused = 100 * Count(Failures) > config.max_fail_rate_pct * requests]
    /\ UNCHANGED <<config, flying, recorder>>

Init ==
    /\ config \in CallRuns
    /\ call = [at |-> "load", corpus |-> <<>>, issued |-> 0, cursor |-> 0, responses |-> <<>>,
               refused |-> FALSE]
    /\ flying = {}
    /\ recorder = [rows |-> <<>>, dropped |-> <<>>, nondeterministic |-> <<>>,
                   references |-> [s \in DOMAIN Replayed |-> NoAnswer]]

Next == LoadCorpus \/ Prime \/ Issue \/ OpenLoopEnds \/ Drain \/ TakeTicket \/ WorkersJoin \/ Finish
          \/ \E r \in flying : Answer(r)
Spec == Init /\ [][Next]_vars
-----------------------------------------------------------------------------
TypeOK ==
    /\ call.at \in {"load", "prime", "open_loop", "drain", "closed_loop", "finish", "done", "failed"}
    /\ call.cursor <= Total /\ InFlight <= Max({config.max_concurrent, config.concurrency})
    /\ \A i \in DOMAIN recorder.rows : recorder.rows[i].status \in Answered \cup Failures

Rows(slot, pass) == {i \in DOMAIN recorder.rows : recorder.rows[i].slot = slot /\ recorder.rows[i].pass = pass}

\* A measurement accounts for every request once: each of the open loop is a
\* row or dropped, and each record of the corpus has one row in every pass,
\* however slow an answer was.
EveryRequestIsAccounted ==
    call.at = "done" /\ config.measure =>
      /\ flying = {}
      /\ Cardinality(UNION {Rows(slot, -1) : slot \in Slots}) + Len(recorder.dropped) = call.issued
      /\ \A slot \in Slots : \A pass \in 0 .. config.passes - 1 : Cardinality(Rows(slot, pass)) = 1

Seen(slot) == {recorder.rows[i].digest : i \in {j \in DOMAIN recorder.rows : recorder.rows[j].slot = slot}}
                \ {NoAnswer}

\* The digest that is written for a record is the one of the first pass if
\* that was answered, although a later pass may be answered before it; and a
\* record is reported as nondeterministic exactly if its answers differed.
ReferencesAreOfTheFirstPass ==
    call.at = "done" =>
      \A slot \in Slots :
        /\ \A i \in Rows(slot, 0) :
             recorder.rows[i].digest # NoAnswer => call.responses[slot] = recorder.rows[i].digest
        /\ call.responses[slot] \in Seen(slot) \cup {NoAnswer}
        /\ (slot \in ToSet(recorder.nondeterministic)) = (Cardinality(Seen(slot)) > 1)
=============================================================================
