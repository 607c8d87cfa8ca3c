-------------------------------- MODULE Extract --------------------------------
(***************************************************************************)
(* txgen extract and txgen extract-big-blocks (txgen-cli/src/extract.rs):  *)
(* blocks are fetched with several requests in flight, and written in      *)
(* order, as they are, as their transactions, as a corpus of read calls or *)
(* grouped into big blocks.                                                *)
(*                                                                         *)
(* extract has a fetch task, which passes the blocks through a bounded     *)
(* channel to the writer; extract-big-blocks reads the stream itself.      *)
(***************************************************************************)
EXTENDS AccessLists, Integers, FiniteSetsExt

CONSTANTS Extractions,  \* commands and chains
          HashWindow    \* 256 in the code

\* chain[n] is block n, [gas, txs, list]: txs are the gas limits of its
\* transactions.  The node has no block after the chain, and none of missing.
\* An extraction has a format, or "big" for extract-big-blocks, which goes on
\* for count big blocks of target gas; unusable says that a tracer or one of
\* the JSON options is.
Formats == {"blocks", "transactions", "calls", "traces", "big"}
ExtractAssumption ==
    /\ HashWindow \in Nat
    /\ \A c \in Extractions :
         /\ c.format \in Formats /\ c.from \in Nat \ {0} /\ c.to \in Nat
         /\ c.buffer \in Nat \ {0} /\ c.count \in Nat /\ c.target \in Nat
         /\ c.missing \subseteq DOMAIN c.chain /\ c.top \in Nat \cup {-1}

VARIABLES
    config,     \* it never changes
    stream,     \* next block to request, and the requests in flight, in order
    channel,    \* the fetch task, what it is sending, and what was sent
    writer      \* the lines written, and how the command stands

vars == <<config, stream, channel, writer>>

None == <<>>
Big == config.format = "big"
-----------------------------------------------------------------------------
(* What a block contributes                                                *)

Available(format) ==
    CASE format = "calls" -> <<"eth_call", "eth_estimateGas", "eth_createAccessList",
                               "debug_traceCall", "trace_call">>
      [] format = "traces" -> <<"debug_traceTransaction", "trace_transaction",
                                "trace_replayTransaction", "debug_traceBlockByNumber",
                                "trace_block", "trace_replayBlockTransactions">>
      [] OTHER -> <<>>
Default(format) ==
    CASE format = "calls" -> {"eth_call"}
      [] format = "traces" -> {"debug_traceTransaction", "trace_transaction"}
      [] OTHER -> {}

\* resolve_methods: in the order of the format.
Methods ==
    LET wanted == IF config.methods = {} THEN Default(config.format) ELSE config.methods
    IN  SelectSeq(Available(config.format), LAMBDA m : m \in wanted)

\* resolve_tracers
Tracers == IF config.tracers = <<>> THEN << <<"callTracer">> >> ELSE config.tracers

\* run_extract, resolve_corpus_config and run_extract_big_blocks: what is refused.
Refused ==
    \/ IF Big THEN config.count = 0 \/ config.target = 0 ELSE config.from > config.to
    \/ config.parent /\ config.format # "calls"
    \/ /\ config.format \notin {"calls", "traces"}
       /\ config.methods # {} \/ config.top # -1 \/ config.tracers # <<>>
    \/ config.top = 0 \/ config.unusable
    \/ ~(config.methods \subseteq ToSet(Available(config.format)))

\* fault: of two transactions with the same limit the later one is kept
SelectedLater(block) ==
    LET txs == config.chain[block].txs
        all == [i \in DOMAIN txs |-> i]
        byGas == SortSeq(all, LAMBDA i, j : txs[i] > txs[j] \/ (txs[i] = txs[j] /\ i > j))
    IN  IF config.top = -1 \/ config.top >= Len(txs) THEN all
        ELSE SortSeq(SubSeq(byGas, 1, config.top), <)

\* selected_transactions: the numbers of a block's transactions that are used.
Selected(block) ==
    LET txs == config.chain[block].txs
        all == [i \in DOMAIN txs |-> i]
        byGas == SortSeq(all, LAMBDA i, j : txs[i] > txs[j] \/ (txs[i] = txs[j] /\ i < j))
    IN  IF config.top = -1 \/ config.top >= Len(txs) THEN all
        ELSE SortSeq(SubSeq(byGas, 1, config.top), <)

Plain == <<"trace">>
StateDiff == <<"trace", "stateDiff">>

\* transaction_params and block_params: the labels of the records for a method.
OfTransaction(method) ==
    CASE method \in {"debug_traceTransaction", "debug_traceCall"} -> Tracers
      [] method \in {"trace_transaction", "eth_call", "eth_estimateGas", "eth_createAccessList"} -> <<None>>
      [] method = "trace_replayTransaction" -> <<StateDiff>>
      [] method = "trace_call" -> <<Plain, StateDiff>>
      [] OTHER -> <<>>
OfBlock(method) ==
    CASE method = "debug_traceBlockByNumber" -> Tracers
      [] method = "trace_block" -> <<None>>
      [] method = "trace_replayBlockTransactions" -> <<StateDiff>>
      [] OTHER -> <<>>

\* The state a call of a block runs on: 0 for the latest.
At(block) == IF config.parent THEN block - 1 ELSE 0
\* labels[m] are the labels of Methods[m].
Records(block, index, labels) ==
    FlattenSeq([m \in DOMAIN Methods |->
        [v \in DOMAIN labels[m] |-> [block |-> block, index |-> index, method |-> Methods[m],
                                     label |-> labels[m][v], at |-> At(block)]]])

\* write_extracted_blocks and write_corpus_records: the lines of a block.
Lines(block) ==
    CASE config.format = "blocks" -> <<[block |-> block]>>
      [] config.format = "transactions" ->
           [i \in DOMAIN config.chain[block].txs |-> [block |-> block, index |-> i]]
      [] OTHER ->
           LET selected == Selected(block)
               ofTransaction == [m \in DOMAIN Methods |-> OfTransaction(Methods[m])]
               ofBlock == [m \in DOMAIN Methods |-> OfBlock(Methods[m])]
           IN  FlattenSeq([k \in DOMAIN selected |-> Records(block, selected[k], ofTransaction)])
                 \o Records(block, 0, ofBlock)
-----------------------------------------------------------------------------
(* The stream: at most buffer requests are in flight, and the results come *)
(* in the order of the requests, whatever the order of the answers.  It    *)
(* asks for more only while it is polled.                                  *)

Polled ==
    IF Big THEN writer.at = "write" /\ writer.emitted < config.count
    ELSE channel.task = "fetch" /\ channel.sending = None

Request ==
    /\ Polled /\ Len(stream.flight) < config.buffer
    /\ Big \/ stream.next <= config.to
    /\ stream' = [next |-> stream.next + 1,
                  flight |-> Append(stream.flight, [block |-> stream.next, answer |-> "waiting"])]
    /\ UNCHANGED <<config, channel, writer>>

Answer ==
    /\ \E i \in DOMAIN stream.flight :
         /\ stream.flight[i].answer = "waiting"
         /\ LET found == stream.flight[i].block \in DOMAIN config.chain \ config.missing
            IN  stream' = [stream EXCEPT !.flight[i].answer = IF found THEN "block" ELSE "error"]
    /\ UNCHANGED <<config, channel, writer>>

\* fault: results are taken as they come
ReadyFirst ==
    /\ Polled
    /\ \E i \in DOMAIN stream.flight :
         /\ stream.flight[i].answer # "waiting"
         /\ stream' = [stream EXCEPT !.flight = RemoveAt(@, i)]
         /\ channel' = [channel EXCEPT !.sending = <<stream.flight[i]>>]
    /\ UNCHANGED <<config, writer>>

\* What the stream yields next.
Ready == Polled /\ stream.flight # <<>> /\ stream.flight[1].answer # "waiting"
-----------------------------------------------------------------------------
(* fetch_blocks                                                            *)

Yield ==
    /\ Ready /\ ~Big
    /\ stream' = [stream EXCEPT !.flight = Tail(@)]
    /\ channel' = [channel EXCEPT !.sending = <<stream.flight[1]>>]
    /\ UNCHANGED <<config, writer>>

\* A result waits for room in the channel; without a receiver, and after an
\* error, the task ends.
Send ==
    /\ channel.sending # None
    /\ LET done == writer.at # "write" \/ channel.sending[1].answer = "error"
       IN  /\ writer.at = "write" => Len(channel.queue) < config.buffer
           /\ channel' = [sending |-> None,
                          queue |-> IF writer.at = "write" THEN channel.queue \o channel.sending
                                    ELSE channel.queue,
                          task |-> IF done THEN "done" ELSE "fetch"]
           /\ stream' = IF done THEN [stream EXCEPT !.flight = <<>>] ELSE stream
    /\ UNCHANGED <<config, writer>>

EndOfRange ==
    /\ ~Big /\ Polled /\ stream.flight = <<>> /\ stream.next > config.to
    /\ channel' = [channel EXCEPT !.task = "done"]
    /\ UNCHANGED <<config, stream, writer>>
-----------------------------------------------------------------------------
(* run_extract and write_extracted_blocks                                  *)

\* Writing may fail at any line; the lines before it are on disk.
Write(lines) ==
    \/ writer' = [writer EXCEPT !.lines = @ \o lines]
    \/ \E n \in 0..Len(lines) - 1 :
         writer' = [writer EXCEPT !.lines = @ \o SubSeq(lines, 1, n), !.at = "failing"]

\* An error ends the writer, and closes the channel.
Receive ==
    /\ writer.at = "write" /\ channel.queue # <<>>
    /\ IF channel.queue[1].answer = "error" THEN writer' = [writer EXCEPT !.at = "failing"]
       ELSE Write(Lines(channel.queue[1].block))
    /\ channel' = [channel EXCEPT !.queue = Tail(@)]
    /\ UNCHANGED <<config, stream>>

Flush ==
    /\ IF Big THEN writer.at = "write" /\ writer.emitted = config.count
       ELSE writer.at = "write" /\ channel.queue = <<>> /\ channel.task = "done"
    /\ \E at \in {"flushed", "failing"} : writer' = [writer EXCEPT !.at = at]
    /\ UNCHANGED <<config, stream, channel>>

\* The fetch task is joined before the result of the writer is looked at.
Join ==
    /\ writer.at \in {"flushed", "failing"}
    /\ ~Big => channel.task = "done"
    /\ writer' = [writer EXCEPT !.at = IF @ = "flushed" THEN "ok" ELSE "failed"]
    /\ UNCHANGED <<config, stream, channel>>
-----------------------------------------------------------------------------
(* write_big_blocks                                                        *)

Gas(blocks) == FoldSeq(LAMBDA n, sum : config.chain[n].gas + sum, 0, blocks)
LastOf(seq, n) == SubSeq(seq, Max({1, Len(seq) - n + 1}), Len(seq))

BigBlock(blocks) ==
    [number |-> config.from + writer.emitted, blocks |-> blocks, hashes |-> writer.hashes,
     list |-> MergeLists([i \in DOMAIN blocks |-> config.chain[blocks[i]].list],
                         [i \in DOMAIN blocks |-> Len(config.chain[blocks[i]].txs)])]

\* fault: the hashes are those of the last big block only
TakeForgetting ==
    /\ Big /\ Ready
    /\ stream' = [stream EXCEPT !.flight = Tail(@)]
    /\ LET blocks == Append(writer.blocks, stream.flight[1].block)
       IN  IF stream.flight[1].answer = "error" THEN writer' = [writer EXCEPT !.at = "failing"]
           ELSE IF Gas(blocks) < config.target THEN writer' = [writer EXCEPT !.blocks = blocks]
           ELSE \/ writer' = [writer EXCEPT !.lines = Append(@, BigBlock(blocks)), !.blocks = <<>>,
                                            !.emitted = @ + 1, !.hashes = LastOf(blocks, HashWindow)]
                \/ writer' = [writer EXCEPT !.at = "failing"]
    /\ UNCHANGED <<config, channel>>

\* One block of the stream; the one that reaches the target ends a big block.
Take ==
    /\ Big /\ Ready
    /\ stream' = [stream EXCEPT !.flight = Tail(@)]
    /\ LET blocks == Append(writer.blocks, stream.flight[1].block)
       IN  IF stream.flight[1].answer = "error" THEN writer' = [writer EXCEPT !.at = "failing"]
           ELSE IF Gas(blocks) < config.target THEN writer' = [writer EXCEPT !.blocks = blocks]
           ELSE \/ writer' = [writer EXCEPT !.lines = Append(@, BigBlock(blocks)), !.blocks = <<>>,
                                            !.emitted = @ + 1, !.hashes = LastOf(@ \o blocks, HashWindow)]
                \/ writer' = [writer EXCEPT !.at = "failing"]
    /\ UNCHANGED <<config, channel>>
-----------------------------------------------------------------------------
Init ==
    /\ config \in Extractions
    /\ stream = [next |-> config.from, flight |-> <<>>]
    /\ channel = [task |-> IF Refused THEN "done" ELSE "fetch", sending |-> None, queue |-> <<>>]
    /\ writer = [at |-> IF Refused THEN "refused" ELSE "write", lines |-> <<>>, blocks |-> <<>>,
                 hashes |-> <<>>, emitted |-> 0]

Next ==
    \/ Request \/ Answer \/ Yield \/ Send \/ EndOfRange
    \/ Receive \/ Flush \/ Join \/ Take

Spec == Init /\ [][Next]_vars

-----------------------------------------------------------------------------
(* Properties                                                              *)

TypeOK ==
    /\ config \in Extractions
    /\ stream.next \in Nat /\ Len(stream.flight) <= config.buffer
    /\ \A i \in DOMAIN stream.flight : stream.flight[i].answer \in {"waiting", "block", "error"}
    /\ channel.task \in {"fetch", "done"} /\ Len(channel.queue) <= config.buffer
    /\ writer.at \in {"refused", "write", "flushed", "failing", "ok", "failed"}

\* The lines come in the order of the chain and of each block's transactions,
\* records of a whole block last, none twice; a transaction is used unless
\* enough others have more gas (or as much, and come first); and what a
\* failed command leaves is a prefix: if a line is there, so is every line of
\* an earlier block.  A command that succeeds has written every block.
\* (buffered, write_extracted_blocks, selected_transactions: "Ties keep the
\* earlier transaction, block order is preserved, and block-level records are
\* unaffected".)
Position(line) == IF line.index = 0 THEN Len(config.chain[line.block].txs) + 1 ELSE line.index
Chosen(block) ==
    LET txs == config.chain[block].txs
    IN  {i \in DOMAIN txs : config.format = "transactions" \/ config.top = -1
            \/ Cardinality({j \in DOMAIN txs : txs[j] > txs[i] \/ (txs[j] = txs[i] /\ j < i)}) < config.top}
Complete(block) ==
    LET lines == {k \in DOMAIN writer.lines : writer.lines[k].block = block}
    IN  CASE config.format = "blocks" -> Cardinality(lines) = 1
          [] config.format = "transactions" -> {writer.lines[k].index : k \in lines} = Chosen(block)
          [] OTHER ->
               \A m \in ToSet(Methods) :
                 /\ \A i \in Chosen(block) :
                      Cardinality({k \in lines : writer.lines[k].index = i /\ writer.lines[k].method = m})
                        = Len(OfTransaction(m))
                 /\ Cardinality({k \in lines : writer.lines[k].index = 0 /\ writer.lines[k].method = m})
                      = Len(OfBlock(m))
CorpusIsInOrder ==
    ~Big =>
        /\ \A k, l \in DOMAIN writer.lines : k < l =>
             LET a == writer.lines[k] b == writer.lines[l]
             IN  /\ a.block <= b.block /\ a # b
                 /\ a.block = b.block => config.format = "blocks" \/ Position(a) <= Position(b)
        /\ \A k \in DOMAIN writer.lines :
             LET line == writer.lines[k]
             IN  /\ line.block \in config.from..config.to
                 /\ \A n \in config.from..line.block - 1 : Complete(n)
                 /\ config.format # "blocks" => line.index \in Chosen(line.block) \cup {0}
        /\ writer.at = "ok" => \A n \in config.from..config.to : Complete(n)

\* The big blocks partition the chain from the first block on: each goes on
\* until it reaches the target and no further, and comes with the hashes of
\* the source blocks right before it, at most HashWindow of them.
BigBlocksPartition ==
    LET Before(k) == FlattenSeq([i \in 1..k - 1 |-> writer.lines[i].blocks])
    IN  Big =>
          /\ \A k \in DOMAIN writer.lines :
               LET big == writer.lines[k]
               IN  /\ \A i \in DOMAIN big.blocks : big.blocks[i] = config.from + Len(Before(k)) + i - 1
                   /\ Gas(big.blocks) >= config.target /\ Gas(Front(big.blocks)) < config.target
                   /\ big.number = config.from + k - 1
                   /\ ToSet(big.hashes) =
                        {n \in config.from..big.blocks[1] - 1 : n >= big.blocks[1] - HashWindow}
          /\ writer.at = "ok" => Len(writer.lines) = config.count

\* The merged list of a big block tells the same story as the lists of its
\* blocks one after the other: every change is there, at an index that is
\* larger than those of all earlier changes (of any account), and a slot is
\* listed as read if it was read and never written.
Later(c, d) == c.of[1] > d.of[1] \/ (c.of[1] = d.of[1] /\ c.of[2] > d.of[2])
ChangesOf(account) == ToSet(account.values) \cup UNION {ToSet(account.storage[s]) : s \in DOMAIN account.storage}
SameStory(big) ==
    LET lists == {config.chain[big.blocks[i]].list : i \in DOMAIN big.blocks}
        Mentions(a) == {l \in lists : a \in DOMAIN l}
        all == UNION {ChangesOf(big.list[a]) : a \in DOMAIN big.list}
    IN  /\ DOMAIN big.list = UNION {DOMAIN l : l \in lists}
        /\ \A c, d \in all : c.at > d.at <=> Later(c, d)
        /\ \A a \in DOMAIN big.list :
             /\ {c.of : c \in ToSet(big.list[a].values)} =
                    UNION {{c.of : c \in ToSet(l[a].values)} : l \in Mentions(a)}
             /\ DOMAIN big.list[a].storage = UNION {DOMAIN l[a].storage : l \in Mentions(a)}
             /\ big.list[a].reads =
                    UNION {l[a].reads : l \in Mentions(a)} \ DOMAIN big.list[a].storage
             /\ \A s \in DOMAIN big.list[a].storage :
                  LET changes == big.list[a].storage[s]
                  IN  \A i, j \in DOMAIN changes : i < j => Later(changes[j], changes[i])
MergedListIsChronological == Big => \A k \in DOMAIN writer.lines : SameStory(writer.lines[k])

\* The command has ended, and the fetch task with it, even when the writer
\* failed while the channel was full.
Over == writer.at \in {"refused", "ok", "failed"} /\ (Big \/ channel.task = "done")
=============================================================================
