------------------------------- MODULE SendBlocks -------------------------------
(***************************************************************************)
(* bench send-blocks (bench-cli/src/send_blocks.rs): the blocks of a chain *)
(* are submitted one by one to an engine, a new payload and then a         *)
(* forkchoice update.  With --reorg, batches of blocks are preceded by a   *)
(* synthetic fork of the same length, which is built by the engine and     *)
(* then abandoned; with --mempool, by their transactions.                  *)
(*                                                                         *)
(* A block is <<n, 0>> on the chain of the input, or <<n, k>> on the k-th  *)
(* synthetic fork.                                                         *)
(***************************************************************************)
EXTENDS Integers, Sequences, FiniteSets, SequencesExt, FiniteSetsExt

CONSTANTS BlockRuns,      \* inputs and arguments
          Checkpoint,     \* 32 in the code
          DropInterval    \* 10 in the code

\* An input line is [number, big, txs], a transaction [blob, selected]; every
\* is the period of --wait-for-persistence, 0 for never.
BlockAssumption ==
    /\ Checkpoint \in Nat \ {0} /\ DropInterval \in Nat \ {0}
    /\ \A c \in BlockRuns :
         /\ c.depth \in Nat /\ c.gap \in Nat /\ c.every \in Nat /\ c.mempool \in BOOLEAN
         /\ c.mempool => c.depth = 0
         /\ c.lines \in Seq(Range(c.lines)) /\ \A i \in DOMAIN c.lines : c.lines[i].number \in Nat
         /\ \A i \in DOMAIN c.lines : c.lines[i].number = c.lines[1].number + i - 1

VARIABLES
    config,     \* it never changes
    replay,     \* where the command is, ReorgState and MetricsCollector
    engine,     \* the blocks it knows, its head, and the updates it was sent
    mempool     \* MempoolStats

vars == <<config, replay, engine, mempool>>

Fails == replay' = [replay EXCEPT !.at = "failed"]
Canonical(number) == <<number, 0>>
None == <<>>
-----------------------------------------------------------------------------
(* ReorgState                                                              *)

\* push: what becomes of the state, and the blocks that are due.
Push(line) ==
    CASE replay.gap_remaining > 0 ->
           [replay EXCEPT !.gap_remaining = @ - 1, !.due = <<line>>, !.at = "canonical"]
      [] replay.gap_remaining = 0 /\ Len(replay.pending) + 1 < config.depth ->
           [replay EXCEPT !.pending = Append(@, line)]
      [] OTHER ->
           LET batch == Append(replay.pending, line)
               branch == Canonical(batch[1].number - 1)
           IN  [replay EXCEPT !.gap_remaining = config.gap, !.pending = <<>>, !.due = batch,
                              !.at = "build", !.branch = branch, !.parent = branch,
                              !.fork = replay.fork + 1, !.index = 1]

\* The lines of a batch are read one by one; without --reorg each is due at once.
ReadLine ==
    /\ replay.at = "read" /\ replay.position < Len(config.lines)
    /\ LET line == config.lines[replay.position + 1]
           next == CASE config.depth > 0 -> Push(line)
                     [] config.mempool -> [replay EXCEPT !.due = <<line>>, !.at = "mempool"]
                     [] OTHER -> [replay EXCEPT !.due = <<line>>, !.at = "canonical"]
       IN  IF line.big /\ (config.depth > 0 \/ config.mempool) THEN Fails
           ELSE replay' = [next EXCEPT !.position = replay.position + 1, !.index = 1]
    /\ UNCHANGED <<config, engine, mempool>>

\* fault: an incomplete batch is forgotten at the end of the input
EndWithoutBatch ==
    /\ replay.at = "read" /\ replay.position = Len(config.lines)
    /\ replay' = [replay EXCEPT !.at = "done"]
    /\ UNCHANGED <<config, engine, mempool>>

\* finish: the blocks of an incomplete batch are canonical.
EndOfInput ==
    /\ replay.at = "read" /\ replay.position = Len(config.lines)
    /\ replay' = IF replay.pending = <<>> THEN [replay EXCEPT !.at = "done"]
                 ELSE [replay EXCEPT !.due = replay.pending, !.pending = <<>>, !.at = "canonical", !.index = 1]
    /\ UNCHANGED <<config, engine, mempool>>

Line == replay.due[replay.index]
-----------------------------------------------------------------------------
(* The transactions of a block                                             *)

\* extract_reorg_transactions: without blobs, and without every tenth.
ReorgTransactions(txs) ==
    LET plain == SelectSeq(txs, LAMBDA tx : ~tx.blob)
    IN  [k \in {i \in DOMAIN plain : i % DropInterval # 0} |-> plain[k]]

\* submit_to_mempool, once the head has reached the parent: any of the
\* selected transactions may be refused; another failure, or a head that does
\* not come, ends the command.
SubmitToMempool ==
    /\ replay.at = "mempool"
    /\ LET plain == {i \in DOMAIN Line.txs : ~Line.txs[i].blob}
           selected == {i \in plain : Line.txs[i].selected}
       IN  \/ /\ engine.head # None => engine.head[1] >= Line.number - 1
              /\ \E refused \in SUBSET selected :
                   mempool' = [mempool EXCEPT !.accepted = @ + Cardinality(selected \ refused),
                                 !.rejected = @ + Cardinality(refused),
                                 !.blobs = @ + Len(Line.txs) - Cardinality(plain),
                                 !.unselected = @ + Cardinality(plain \ selected)]
              /\ replay' = [replay EXCEPT !.at = "canonical"]
           \/ Fails /\ UNCHANGED mempool
    /\ UNCHANGED <<config, engine>>
-----------------------------------------------------------------------------
(* Forkchoice                                                              *)

ForkOnFork(parent) == [safe |-> parent, finalized |-> parent]  \* fault

\* Synthetic blocks, and the canonical ones that replace them, are anchored
\* at the parent of the batch.
Anchored(parent) == [safe |-> replay.branch, finalized |-> replay.branch]

\* submit_block: a batch is anchored, a big block anchors itself; otherwise
\* the block before is safe and the last checkpoint, or else the first safe
\* block, is finalized.
ForkchoiceOf(line) ==
    LET block == Canonical(line.number)
        safe == IF replay.prev = None THEN block ELSE replay.prev
    IN  CASE replay.branch # None -> Anchored(block)
          [] line.big -> [safe |-> block, finalized |-> block]
          [] OTHER -> [safe |-> safe, finalized |-> IF replay.finalized = None THEN safe ELSE replay.finalized]

\* WaitForPersistence::should_wait, with the 0-based index of the block.
ShouldWait(index) == config.every > 0 /\ (index + 1) % config.every = 0
-----------------------------------------------------------------------------
(* Submission                                                              *)

\* process_synthetic_block: testing_buildBlockV1 on the fork's last block.
Build ==
    /\ replay.at = "build"
    /\ \/ replay' = [replay EXCEPT !.at = "payload", !.block = <<Line.number, replay.fork>>,
                       !.forkchoice = Anchored(replay.parent), !.wait = ShouldWait(replay.submitted + replay.index - 1),
                       !.txs = DOMAIN ReorgTransactions(Line.txs)]
       \/ Fails
    /\ UNCHANGED <<config, engine, mempool>>

\* process_block and process_big_block
SubmitBlock ==
    /\ replay.at = "canonical"
    /\ replay' = [replay EXCEPT !.at = "payload", !.block = Canonical(Line.number),
                    !.forkchoice = ForkchoiceOf(Line), !.wait = ShouldWait(replay.submitted),
                    !.finalized = IF replay.branch = None /\ ~Line.big
                                    THEN ForkchoiceOf(Line).finalized ELSE @,
                    !.txs = DOMAIN Line.txs]
    /\ UNCHANGED <<config, engine, mempool>>

ParentOf(block) ==
    IF block[2] = 0 \/ block = <<replay.branch[1] + 1, block[2]>> THEN Canonical(block[1] - 1)
    ELSE <<block[1] - 1, block[2]>>

\* reth_newPayload must be VALID: the parent is known, and the block accepted.
NewPayload ==
    /\ replay.at = "payload"
    /\ \/ /\ engine.known # {} => ParentOf(replay.block) \in engine.known
          /\ engine' = [engine EXCEPT !.known = @ \cup {replay.block, ParentOf(replay.block)}]
          /\ replay' = [replay EXCEPT !.at = "forkchoice"]
       \/ Fails /\ UNCHANGED engine
    /\ UNCHANGED <<config, mempool>>

\* The last block of the fork is followed by the batch's own blocks.
AfterFork == IF replay.index < Len(replay.due) THEN [replay EXCEPT !.at = "build", !.index = @ + 1]
             ELSE [replay EXCEPT !.at = "canonical", !.index = 1]

AfterBlock == IF replay.index < Len(replay.due) THEN [replay EXCEPT !.at = "canonical", !.index = @ + 1]
              ELSE [replay EXCEPT !.at = "read", !.index = 1, !.due = <<>>, !.branch = None]

\* reth_forkchoiceUpdated, and record_success for a block of the input.
Forkchoice ==
    /\ replay.at = "forkchoice"
    /\ \/ /\ engine' = [engine EXCEPT !.head = replay.block,
                          !.updates = Append(@, [head |-> replay.block, safe |-> replay.forkchoice.safe,
                                                 finalized |-> replay.forkchoice.finalized])]
          /\ replay' = IF replay.block[2] # 0 THEN [AfterFork EXCEPT !.parent = replay.block]
                       ELSE [AfterBlock EXCEPT !.submitted = @ + 1, !.prev = replay.block,
                               !.finalized = IF replay.block[1] % Checkpoint = 0 THEN replay.block ELSE @]
       \/ Fails /\ UNCHANGED engine
    /\ UNCHANGED <<config, mempool>>
-----------------------------------------------------------------------------
Init ==
    /\ config \in BlockRuns
    /\ replay = [at |-> "read", position |-> 0, pending |-> <<>>, gap_remaining |-> 0, due |-> <<>>,
                 index |-> 1, branch |-> None, parent |-> None, fork |-> 0, block |-> None,
                 forkchoice |-> None, wait |-> FALSE, txs |-> {}, submitted |-> 0, prev |-> None,
                 finalized |-> None]
    /\ engine = [known |-> {}, head |-> None, updates |-> <<>>]
    /\ mempool = [accepted |-> 0, rejected |-> 0, blobs |-> 0, unselected |-> 0]

Next == ReadLine \/ EndOfInput \/ SubmitToMempool \/ Build \/ SubmitBlock \/ NewPayload \/ Forkchoice
Spec == Init /\ [][Next]_vars
-----------------------------------------------------------------------------
TypeOK ==
    /\ replay.at \in {"read", "mempool", "build", "canonical", "payload", "forkchoice", "done", "failed"}
    /\ replay.position \in 0 .. Len(config.lines) /\ replay.gap_remaining \in 0 .. config.gap
    /\ engine.head \in engine.known \cup {None} /\ replay.wait \in BOOLEAN

\* The blocks of fork k, in the order of their numbers, start above the block
\* that the first update of the fork names.
BranchOf(k) == LET fork == {i \in DOMAIN engine.updates : engine.updates[i].head[2] = k}
               IN  engine.updates[Min(fork)].head[1] - 1

\* a is b or one of its ancestors.
Descends(b, a) ==
    IF b[2] = 0 THEN a[2] = 0 /\ a[1] <= b[1]
    ELSE IF a[2] = 0 THEN a[1] <= BranchOf(b[2]) ELSE a[2] = b[2] /\ a[1] <= b[1]

\* However reorganisations, gaps, checkpoints and the end of the input fall
\* together, no update abandons a block that an earlier one finalized or
\* called safe: every head descends from it.
FinalizedIsKept ==
    \A j \in DOMAIN engine.updates : \A i \in 1 .. j :
      /\ Descends(engine.updates[j].head, engine.updates[i].finalized)
      /\ Descends(engine.updates[j].head, engine.updates[i].safe)

\* The engine ends at the last block of the input, having been sent every
\* block in order and once, and a fork of exactly the asked depth before each
\* batch.
InputIsReplayed ==
    LET head(i) == engine.updates[i].head
        of(k) == {i \in DOMAIN engine.updates : head(i)[2] = k}
    IN  replay.at = "done" =>
          /\ {head(i) : i \in of(0)} = {Canonical(config.lines[i].number) : i \in DOMAIN config.lines}
          /\ \A i, j \in of(0) : i < j => head(i)[1] < head(j)[1]
          /\ config.lines # <<>> => engine.head = Canonical(Last(config.lines).number)
          /\ \A k \in 1 .. replay.fork : Cardinality(of(k)) = config.depth
          /\ replay.fork = IF config.depth = 0 THEN 0
                           ELSE (Len(config.lines) + config.gap) \div (config.depth + config.gap)
=============================================================================
