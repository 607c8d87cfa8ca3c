---------------------------- MODULE ScenarioWaits -----------------------------
(***************************************************************************)
(* The wait steps of a scenario on one chain that is reorganised           *)
(* (txgen-cli/src/scenario/wait.rs), and the scanner that all log waits    *)
(* of the chain share (scenario/log_hub.rs).  Every action of a wait or of *)
(* the scanner is one answer of the query RPC, or one critical section.    *)
(*                                                                         *)
(* A block has at most one log, which is also its transaction: `log` is    *)
(* the event's topic.  A block's hash commits to its ancestors, so that    *)
(* the hash of block n is the chain up to n.                               *)
(***************************************************************************)
EXTENDS Integers, Sequences, FiniteSets, FiniteSetsExt, SequencesExt

CONSTANTS WaitConfigs,   \* the waits of a scenario, and the bounds of its chain
          ScanRetries    \* SCAN_RETRY_ATTEMPTS, 5 in the code

\* want[w] is the request of wait w; window is RECENT_LOG_RESCAN_BLOCKS, which
\* is 64, and at least max_height where no history is searched; max_height, max_reorgs and max_errors
\* bound the chain, its reorganisations, and the scan requests that fail.
ScenarioWaitsAssumption ==
    /\ ScanRetries \in Nat \ {0}
    /\ \A c \in WaitConfigs :
         /\ {c.max_height, c.max_reorgs, c.max_errors} \subseteq Nat /\ c.window \in Nat \ {0}
         /\ \A w \in DOMAIN c.want :
              /\ c.want[w].kind \in {"log", "receipt"}
              /\ c.want[w].start \in Nat \ {0} /\ c.want[w].confirmations \in Nat
              /\ c.want[w].events \in Seq(SUBSET Nat)
              /\ c.want[w].max_block_range \in Nat \ {0} /\ c.want[w].anonymous \in BOOLEAN

VARIABLES
    config,      \* it never changes
    chain,       \* the canonical blocks after the genesis block
    past,        \* what reorganisations replaced
    hub,         \* LogPollHub: the registry, and what its scanner task keeps
    scan,        \* the scan that is under way
    updates,     \* the watch channel's latest value
    unseen,      \* waits whose receiver has not seen it
    wait         \* where each wait stands

vars == <<config, chain, past, hub, scan, updates, unseen, wait>>

Wait == DOMAIN config.want
Topic(w) == config.want[w].topic
Confirmations(w) == config.want[w].confirmations
Height == Len(chain)
NoLog == "-"
None == <<[log |-> NoLog, fork |-> -1]>>  \* the hash of no block
Hash(n) == IF n <= Height THEN SubSeq(chain, 1, n) ELSE None
Through(from, to, range) == Min({from + range - 1, to})
-----------------------------------------------------------------------------
(* LogPollHub                                                              *)

Window0 == [generation |-> 0, ok |-> FALSE, epoch |-> 0, head |-> 0, start |-> 0, logs |-> {}]
Scan0 == [at |-> "off", generation |-> 0, plan |-> {}, hash |-> None, head |-> 0,
          cursor |-> 0, start |-> 0, logs |-> {}]

\* watch::Sender::send: the value is replaced for every receiver; without
\* one it is not even stored.
Publish(u) ==
    IF hub.interests = {} THEN UNCHANGED <<updates, unseen>>
    ELSE updates' = u /\ unseen' = hub.interests

\* A wait's subscription, which starts the scanner unless it runs.
Subscribed(w) ==
    /\ hub' = [hub EXCEPT !.generation = @ + 1, !.interests = @ \cup {w}, !.running = TRUE,
                          !.checkpoint = IF hub.running THEN @ ELSE None,
                          !.epoch = IF hub.running THEN @ ELSE 0,
                          !.failures = IF hub.running THEN @ ELSE 0]
    /\ scan' = IF hub.running THEN scan ELSE [Scan0 EXCEPT !.at = "tick"]

\* LogWindowSubscription::drop; the ids are the waits.
Unsubscribed(w) ==
    IF w \in hub.interests
      THEN hub' = [hub EXCEPT !.generation = @ + 1, !.interests = @ \ {w}]
      ELSE UNCHANGED hub

\* tick_plan; with nobody left the scanner stops under the same lock.
Tick ==
    /\ scan.at = "tick"
    /\ IF hub.interests = {}
         THEN hub' = [hub EXCEPT !.running = FALSE] /\ scan' = Scan0
         ELSE /\ scan' = [Scan0 EXCEPT !.at = "head", !.head = Height, !.plan = hub.interests,
                                       !.generation = hub.generation]
              /\ UNCHANGED hub
    /\ UNCHANGED <<config, chain, past, updates, unseen, wait>>

StartOfCoverage ==
    LET starts == {config.want[w].start : w \in scan.plan}
    IN  Max({scan.head - (config.window - 1), Min(starts)})

ReadLogs(h) == scan' = [scan EXCEPT !.at = "logs", !.hash = h, !.cursor = StartOfCoverage,
                                    !.start = StartOfCoverage]
NewEpoch == hub' = [hub EXCEPT !.checkpoint = None, !.epoch = @ + 1]

\* The head's hash, and the checkpoint if it is at the head or above it.
HeadHash ==
    /\ scan.at = "head"
    /\ LET h == Hash(scan.head)
           last == hub.checkpoint
       IN  CASE h = None -> scan' = [scan EXCEPT !.at = "tick"] /\ hub' = [hub EXCEPT !.failures = 0]
             [] h # None /\ last # None /\ Len(last) < scan.head ->
                  scan' = [scan EXCEPT !.at = "checkpoint", !.hash = h] /\ UNCHANGED hub
             [] OTHER -> /\ ReadLogs(h)
                         /\ IF last \in {None, h} THEN UNCHANGED hub ELSE NewEpoch
    /\ UNCHANGED <<config, chain, past, updates, unseen, wait>>

\* Is the checkpoint, below the head, still canonical?
CheckAncestor ==
    /\ scan.at = "checkpoint"
    /\ ReadLogs(scan.hash)
    /\ IF Hash(Len(hub.checkpoint)) = hub.checkpoint THEN UNCHANGED hub ELSE NewEpoch
    /\ UNCHANGED <<config, chain, past, updates, unseen, wait>>

\* union_filter: no topic restricts a query for an anonymous event.
Selected(block) == \/ block.log \in {Topic(w) : w \in scan.plan}
                   \/ block.log # NoLog /\ \E w \in scan.plan : config.want[w].anonymous

Chunk == Through(scan.cursor, scan.head, Min({config.want[w].max_block_range : w \in scan.plan}))

\* One eth_getLogs request.
GetLogs ==
    /\ scan.at = "logs" /\ scan.cursor <= scan.head
    /\ scan' = [scan EXCEPT !.cursor = Chunk + 1,
                            !.logs = @ \cup {Hash(n) : n \in {k \in scan.cursor .. Min({Chunk, Height}) :
                                                                Selected(chain[k])}}]
    /\ UNCHANGED <<config, chain, past, hub, updates, unseen, wait>>

Scanned == [generation |-> scan.generation, ok |-> TRUE, epoch |-> hub.epoch,
            head |-> scan.head, start |-> scan.start, logs |-> scan.logs]

CommitBlindly ==  \* fault
    /\ scan.at = "logs" /\ scan.cursor > scan.head
    /\ hub' = [hub EXCEPT !.checkpoint = scan.hash, !.failures = 0]
    /\ Publish(Scanned)
    /\ scan' = [Scan0 EXCEPT !.at = "tick"]
    /\ UNCHANGED <<config, chain, past, wait>>

\* Publish the window only if the head is what it was before the scan.
Commit ==
    /\ scan.at = "logs" /\ scan.cursor > scan.head
    /\ IF Hash(scan.head) = scan.hash
         THEN /\ hub' = [hub EXCEPT !.checkpoint = scan.hash, !.failures = 0]
              /\ Publish(Scanned)
         ELSE /\ hub' = [hub EXCEPT !.checkpoint = None, !.epoch = @ + 1, !.failures = 0]
              /\ UNCHANGED <<updates, unseen>>
    /\ scan' = [Scan0 EXCEPT !.at = "tick"]
    /\ UNCHANGED <<config, chain, past, wait>>

\* A request fails; after so many in a row the waits are told.
ScanFails ==
    /\ scan.at \in {"head", "checkpoint", "logs"} /\ hub.errors < config.max_errors
    /\ LET failures == hub.failures + 1
       IN  /\ hub' = [hub EXCEPT !.errors = @ + 1,
                                 !.failures = IF failures < ScanRetries THEN failures ELSE 0]
           /\ IF failures < ScanRetries THEN UNCHANGED <<updates, unseen>>
              ELSE Publish([Window0 EXCEPT !.generation = scan.generation])
    /\ scan' = [Scan0 EXCEPT !.at = "tick"]
    /\ UNCHANGED <<config, chain, past, wait>>
-----------------------------------------------------------------------------
(* A log wait: wait_for_log_observed                                       *)

Wait0 == [at |-> "new", generation |-> 0, epoch |-> -1, next |-> 0, head |-> 0, queue |-> {},
          from |-> 0, cursor |-> 0, through |-> 0, before |-> None, found |-> None, depth |-> 0, events |-> <<>>]
Ended == {"done", "failed"}

Becomes(w, r) == wait' = [wait EXCEPT ![w] = r]

\* It returns; of its state only the outcome remains.
End(w, r) == /\ Becomes(w, [Wait0 EXCEPT !.at = r.at, !.found = r.found, !.depth = r.depth])
             /\ Unsubscribed(w)

\* find_first_canonical_log over a range.
Find(r, from, through) == [r EXCEPT !.at = "before", !.from = from, !.cursor = from,
                                                !.through = through]

\* The next candidate of the window, or the next window.
Continue(w, r) ==
    IF r.queue = {} THEN [r EXCEPT !.at = "window", !.next = Max({@, r.head + 1})]
    ELSE Find([r EXCEPT !.queue = @ \ {Min(r.queue)}], config.want[w].start, Min(r.queue))

SubscribeWait(w) ==
    /\ config.want[w].kind = "log" /\ wait[w].at = "new"
    /\ Subscribed(w)
    /\ Becomes(w, [Wait0 EXCEPT !.at = "window", !.next = config.want[w].start,
                                !.generation = hub.generation + 1])
    /\ unseen' = unseen \ {w}
    /\ UNCHANGED <<config, chain, past, updates>>

\* LogInterest::matches and the decoding of the event; the logs are sorted, so
\* that the first candidate is the lowest.
Candidates(w) ==
    LET mine == {Len(h) : h \in {g \in updates.logs : Last(g).log = Topic(w)}}
    IN  {n \in mine : n >= config.want[w].start}

Received(w, next) ==
    LET r == [wait[w] EXCEPT !.epoch = updates.epoch, !.next = next, !.head = updates.head,
                             !.queue = Candidates(w)]
    IN  IF updates.start > next THEN Find(r, next, updates.start - 1) ELSE Continue(w, r)

\* next_window; a new epoch starts over.
NextWindow(w) ==
    /\ wait[w].at = "window" /\ w \in unseen
    /\ unseen' = unseen \ {w}
    /\ CASE ~updates.ok -> End(w, [wait[w] EXCEPT !.at = "failed"])
         [] updates.ok /\ updates.generation < wait[w].generation -> UNCHANGED <<wait, hub>>
         [] OTHER -> /\ Becomes(w, Received(w, IF updates.epoch = wait[w].epoch
                                                 THEN wait[w].next ELSE config.want[w].start))
                     /\ UNCHANGED hub
    /\ UNCHANGED <<config, chain, past, scan, updates>>

Waiting == <<config, chain, past, hub, scan, updates, unseen>>

EndpointBefore(w) ==
    /\ wait[w].at = "before"
    /\ Becomes(w, IF Hash(wait[w].through) = None THEN Continue(w, wait[w])
                  ELSE [wait[w] EXCEPT !.at = "search", !.before = Hash(wait[w].through)])
    /\ UNCHANGED Waiting

\* One eth_getLogs request.
Search(w) ==
    /\ wait[w].at = "search"
    /\ LET end == Through(wait[w].cursor, wait[w].through, config.want[w].max_block_range)
           hits == {k \in wait[w].cursor .. Min({end, Height}) : chain[k].log = Topic(w)}
       IN  Becomes(w, CASE hits # {} -> [wait[w] EXCEPT !.at = "after", !.found = Hash(Min(hits))]
                        [] hits = {} /\ end = wait[w].through ->
                             [wait[w] EXCEPT !.at = "after", !.found = None]
                        [] OTHER -> [wait[w] EXCEPT !.cursor = end + 1])
    /\ UNCHANGED Waiting

AfterSearch(w) ==
    CASE wait[w].found = None -> Continue(w, wait[w])
      [] wait[w].found # None /\ Confirmations(w) = 0 -> [wait[w] EXCEPT !.at = "block"]
      [] OTHER -> [wait[w] EXCEPT !.at = "depth"]

\* What was found counts only if the range has not changed meanwhile.
EndpointAfter(w) ==
    /\ wait[w].at = "after"
    /\ Becomes(w, IF Hash(wait[w].through) = wait[w].before THEN AfterSearch(w)
                  ELSE [wait[w] EXCEPT !.at = "before", !.cursor = wait[w].from])
    /\ UNCHANGED Waiting

TargetCountingInclusion(w) == Len(wait[w].found) + Confirmations(w) - 1  \* fault

Target(w) == Len(wait[w].found) + Confirmations(w)
Deep(w) == updates.ok /\ updates.head >= Target(w)

\* wait_for_head, which looks at the scanner's latest window first.
WaitForHead(w) ==
    /\ config.want[w].kind = "log" /\ wait[w].at = "depth"
    /\ \/ Deep(w) /\ Becomes(w, [wait[w] EXCEPT !.at = "block"]) /\ UNCHANGED hub
       \/ ~updates.ok /\ End(w, [wait[w] EXCEPT !.at = "failed"])
    /\ unseen' = unseen \ {w}
    /\ UNCHANGED <<config, chain, past, scan, updates>>

\* canonical_block, then latest_head without waiting.
FinalizeLog(w) ==
    /\ config.want[w].kind = "log" /\ wait[w].at = "block"
    /\ IF Hash(Len(wait[w].found)) = wait[w].found /\ (Confirmations(w) = 0 \/ Deep(w))
         THEN End(w, [wait[w] EXCEPT !.at = "done",
                        !.depth = IF Confirmations(w) = 0 THEN 0 ELSE updates.head - Len(wait[w].found)])
         ELSE Becomes(w, Continue(w, wait[w])) /\ UNCHANGED hub
    /\ UNCHANGED <<config, chain, past, scan, updates, unseen>>
-----------------------------------------------------------------------------
(* A receipt wait: wait_for_confirmed_receipt                              *)

\* eth_getTransactionReceipt: the block of the transaction, if it is in one.
Receipt(w) == LET hits == {k \in DOMAIN chain : chain[k].log = Topic(w)}
              IN  IF hits = {} THEN None ELSE Hash(Min(hits))

FetchReceipt(w) ==
    /\ config.want[w].kind = "receipt" /\ wait[w].at \in {"new", "receipt"}
    /\ Receipt(w) # None
    /\ Becomes(w, [wait[w] EXCEPT !.found = Receipt(w),
                                  !.at = IF Confirmations(w) = 0 THEN "refetch" ELSE "confirm"])
    /\ UNCHANGED Waiting

WaitForConfirmations(w) ==
    /\ wait[w].at = "confirm" /\ Height >= Target(w)
    /\ Becomes(w, [wait[w] EXCEPT !.at = "refetch"])
    /\ UNCHANGED Waiting

\* A receipt that vanished or moved was reorganised away.
Refetch(w) ==
    /\ wait[w].at = "refetch"
    /\ Becomes(w, [wait[w] EXCEPT !.at = IF Receipt(w) = wait[w].found THEN "block" ELSE "receipt"])
    /\ UNCHANGED Waiting

\* complete_receipt_event_assignment: want[w].events has, for every required
\* event, the positions of the receipt's logs that match it.
Completes(events, taken) ==
    \E f \in [DOMAIN events -> UNION ToSet(events)] :
        IsInjective(f) /\ \A e \in DOMAIN events : f[e] \in events[e] \ taken

FirstMatches(events) ==  \* fault
    FoldLeft(LAMBDA logs, event : Append(logs, Min((event \ ToSet(logs)) \cup {99})), <<>>, events)

\* Each event takes its first log that leaves one to all later events.
Assignment(events) ==
    FoldLeft(LAMBDA logs, event :
               LET later == SubSeq(events, Len(logs) + 2, Len(events))
                   free == {k \in event \ ToSet(logs) : Completes(later, ToSet(logs) \cup {k})}
               IN  Append(logs, Min(free)),
             <<>>, events)

Assigned(w, depth) ==
    LET events == config.want[w].events
    IN  IF Completes(events, {})
          THEN [wait[w] EXCEPT !.at = "done", !.depth = depth, !.events = Assignment(events)]
          ELSE [wait[w] EXCEPT !.at = "failed"]

ConfirmBlock(w) ==
    /\ config.want[w].kind = "receipt" /\ wait[w].at = "block"
    /\ Becomes(w, CASE Hash(Len(wait[w].found)) # wait[w].found -> [wait[w] EXCEPT !.at = "receipt"]
                    [] Hash(Len(wait[w].found)) = wait[w].found /\ Confirmations(w) = 0 -> Assigned(w, 0)
                    [] OTHER -> [wait[w] EXCEPT !.at = "depth"])
    /\ UNCHANGED Waiting

CurrentDepth(w) ==
    /\ config.want[w].kind = "receipt" /\ wait[w].at = "depth"
    /\ Becomes(w, IF Height >= Target(w) THEN Assigned(w, Height - Len(wait[w].found))
                  ELSE [wait[w] EXCEPT !.at = "receipt"])
    /\ UNCHANGED Waiting

\* A deadline, a cancelled instance or a failing request of its own.
GiveUp(w) ==
    /\ wait[w].at \notin Ended
    /\ End(w, [wait[w] EXCEPT !.at = "failed"])
    /\ UNCHANGED <<config, chain, past, scan, updates, unseen>>
-----------------------------------------------------------------------------
(* The chain                                                               *)

Transactions == {Topic(w) : w \in {v \in Wait : config.want[v].kind = "receipt"}}
Mined == {chain[k].log : k \in DOMAIN chain}

Watched == \E w \in Wait : wait[w].at \notin Ended

Mine ==
    /\ Watched /\ Height < config.max_height
    /\ \E log \in {NoLog} \cup {Topic(w) : w \in Wait} :
         /\ log \in Transactions => log \notin Mined
         /\ chain' = Append(chain, [log |-> log, fork |-> Cardinality(past)])
    /\ UNCHANGED <<config, past, hub, scan, updates, unseen, wait>>

\* The last blocks are replaced, the first of them at once.
Reorganise ==
    /\ Watched /\ Cardinality(past) < config.max_reorgs
    /\ \E n \in 0 .. Height - 1 : chain' = SubSeq(chain, 1, n)
    /\ past' = past \cup {chain}
    /\ UNCHANGED <<config, hub, scan, updates, unseen, wait>>
-----------------------------------------------------------------------------
Init ==
    /\ config \in WaitConfigs
    /\ chain = <<>> /\ past = {}
    /\ hub = [generation |-> 0, interests |-> {}, running |-> FALSE, checkpoint |-> None,
              epoch |-> 0, failures |-> 0, errors |-> 0]
    /\ scan = Scan0 /\ updates = Window0 /\ unseen = {}
    /\ wait = [w \in Wait |-> Wait0]

Scanner == Tick \/ HeadHash \/ CheckAncestor \/ GetLogs \/ Commit
Progress(w) ==
    \/ SubscribeWait(w) \/ NextWindow(w) \/ EndpointBefore(w) \/ Search(w) \/ EndpointAfter(w)
    \/ WaitForHead(w) \/ FinalizeLog(w)
    \/ FetchReceipt(w) \/ WaitForConfirmations(w) \/ Refetch(w) \/ ConfirmBlock(w) \/ CurrentDepth(w)

Next == \/ Scanner \/ ScanFails \/ Mine \/ Reorganise
        \/ \E w \in Wait : Progress(w) \/ GiveUp(w)

Spec == Init /\ [][Next]_vars

-----------------------------------------------------------------------------
(* Properties                                                              *)

\* The state is well typed.
TypeOK ==
    /\ config \in WaitConfigs /\ Height <= config.max_height
    /\ hub.interests \subseteq Wait /\ unseen \subseteq Wait
    /\ hub.failures \in 0 .. ScanRetries - 1 /\ hub.errors \in 0 .. config.max_errors
    /\ hub.epoch \in Nat /\ hub.running = (scan.at # "off")
    /\ scan.at \in {"off", "tick", "head", "checkpoint", "logs"}
    /\ \A w \in Wait : wait[w].at \in Ended \cup
         {"new", "window", "before", "search", "after", "depth", "block", "receipt", "confirm", "refetch"}

HadDepth(w) == \E c \in past \cup {chain} :
    IsPrefix(wait[w].found, c) /\ Len(c) >= Len(wait[w].found) + Confirmations(w)

\* A log wait "returns the first canonical match", whatever the shared scanner
\* published, skipped or scanned with another wait's filter, as long as nothing
\* is reorganised and too few requests fail for the waits to be told; "a receipt
\* remained canonical through its requested confirmation depth", whatever is.
EndsWithCanonicalMatch ==
    \A w \in Wait : wait[w].at = "done" =>
        LET h == wait[w].found
        IN  /\ Last(h).log = Topic(w)
            /\ \E c \in past \cup {chain} : IsPrefix(h, c)
            /\ config.want[w].kind = "receipt" => HadDepth(w)
            /\ config.want[w].kind = "log" =>
                 /\ Len(h) >= config.want[w].start
                 /\ past = {} /\ hub.errors < ScanRetries =>
                      \A k \in config.want[w].start .. Len(h) - 1 : h[k].log # Topic(w)

\* "A log wait decides on what the scanner published as one chain": the logs of
\* a window are those of one chain, none between its ends left out.
WindowIsOneChain ==
    updates.ok => \E c \in past \cup {chain} :
        /\ updates.head <= Len(c)
        /\ \A w \in Wait : wait[w].generation \in 1 .. updates.generation /\ w \in hub.interests =>
             {h \in updates.logs : Last(h).log = Topic(w)}
               = {SubSeq(c, 1, n) : n \in {k \in updates.start .. updates.head : c[k].log = Topic(w)}}

\* "Honors confirmations, and discards removed or reorged candidates after
\* canonical verification": a log wait reports a log that was, at some time, as
\* many blocks below the head of its chain as the step asks for.
LogsAreConfirmed ==
    \A w \in Wait : wait[w].at = "done" /\ config.want[w].kind = "log" => HadDepth(w)

\* "Required events are assigned to distinct logs": whenever that is possible,
\* and then the first in the order of the events.
EventsAreAssigned ==
    \A w \in Wait : wait[w].at = "done" =>
        LET events == config.want[w].events
            a == wait[w].events
            all == {f \in [DOMAIN events -> UNION ToSet(events)] :
                      IsInjective(f) /\ \A e \in DOMAIN events : f[e] \in events[e]}
        IN  config.want[w].kind = "receipt" =>
              /\ a \in all
              /\ \A f \in all : f = a \/ \E e \in DOMAIN a : a[e] < f[e] /\ \A d \in 1 .. e - 1 : a[d] = f[d]

\* A log that stays on the chain, as deep as it has to be, ends the wait for
\* it, unless the waits were told that the scanner's requests fail, or an
\* earlier match still waits for a head that has not come.
LogStays(w) ==
    /\ w \in Wait /\ Cardinality(past) = config.max_reorgs
    /\ wait[w].at \notin Ended \cup {"new"} /\ config.want[w].kind = "log"
    /\ \E k \in config.want[w].start .. Height : chain[k].log = Topic(w) /\ k + Confirmations(w) <= Height
Settled(w) == w \in Wait => \/ wait[w].at \in Ended \/ hub.errors >= ScanRetries
                            \/ wait[w].at = "depth" /\ Target(w) > Height
=============================================================================
