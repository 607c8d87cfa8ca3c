--------------------------- MODULE ReceiptTracker ----------------------------
(***************************************************************************)
(* Shared inclusion observation of bench-core (receipt_tracker.rs).        *)
(* Submitting tasks prepare, register the signed hash, submit, and wait.   *)
(* One scanner task per run follows the chain's head block by block and    *)
(* resolves the interests it meets; it stops when nobody is interested and *)
(* the next prepare starts another.  An action on the tracker is one       *)
(* critical section of Inner::state, or one answer to a scanner's request. *)
(*                                                                         *)
(* Time is block height: a transaction with expires_at = e # 0 can be in   *)
(* blocks below e only.  RECEIPT_TIMEOUT and cancellation are Abandon.     *)
(***************************************************************************)
EXTENDS Integers, Sequences, FiniteSets, SequencesExt

CONSTANTS Tx,             \* transaction hashes
          Reg,            \* calls of prepare()
          Expiries,       \* signed deadlines, 0 for none
          BlocksPerScan,  \* the 64 blocks of one scan
          MaxRuns,        \* bound: scanner tasks started
          MaxHeight,      \* bound: height of the chain
          MaxRollbacks    \* bound: blocks undone

ASSUME ReceiptTrackerAssumption ==
    /\ Tx # {}
    /\ Expiries \subseteq Nat
    /\ {BlocksPerScan, MaxRuns} \subseteq Nat \ {0}
    /\ {MaxHeight, MaxRollbacks} \subseteq Nat

VARIABLES
    running, preparing, ready, pending,  \* Inner::state; ready[n] is the channel of run n
    run,         \* runs started so far
    scanner,     \* the task of each run: where it is, next_block (0: None), head
    stage,       \* where each submitting task stands
    subscribed,  \* the run whose ready channel it listens to
    interest,    \* what it registered: hash, needs_receipt
    result,      \* what its oneshot holds
    submitted, chain, expires_at, rollbacks

tracker == <<running, preparing, ready, pending, run>>
clients == <<stage, subscribed, interest, result>>
world == <<submitted, chain, expires_at, rollbacks>>
vars == <<tracker, scanner, clients, world>>

Run == 1 .. MaxRuns
Height == Len(chain)
Gone == {"done", "failed"}
-----------------------------------------------------------------------------
(* Submitting tasks                                                        *)

Start == /\ run < MaxRuns
         /\ running' = TRUE
         /\ run' = run + 1
         /\ ready' = [ready EXCEPT ![run + 1] = "none"]
         /\ scanner' = [scanner EXCEPT ![run + 1].at = "check"]

PrepareStartingWhenFirst(r) ==  \* fault
    /\ stage[r] = "new"
    /\ IF preparing = 0 THEN Start ELSE UNCHANGED <<running, run, ready, scanner>>
    /\ preparing' = preparing + 1
    /\ stage' = [stage EXCEPT ![r] = "preparing"]
    /\ subscribed' = [subscribed EXCEPT ![r] = run']
    /\ UNCHANGED <<pending, interest, result, world>>

Prepare(r) ==
    /\ stage[r] = "new"
    /\ IF running THEN UNCHANGED <<running, run, ready, scanner>> ELSE Start
    /\ preparing' = preparing + 1
    /\ stage' = [stage EXCEPT ![r] = "preparing"]
    /\ subscribed' = [subscribed EXCEPT ![r] = run']
    /\ UNCHANGED <<pending, interest, result, world>>

PrepareReturns(r) ==
    /\ stage[r] = "preparing"
    /\ \/ /\ ready[subscribed[r]] = "ok"
          /\ stage' = [stage EXCEPT ![r] = "prepared"]
          /\ UNCHANGED preparing
       \/ /\ ready[subscribed[r]] = "error"
          /\ stage' = [stage EXCEPT ![r] = "failed"]
          /\ preparing' = preparing - 1
    /\ UNCHANGED <<running, ready, pending, run, scanner, subscribed, interest, result, world>>

\* Callers register before anybody dispatches the transaction.
Register(r) ==
    /\ stage[r] = "prepared"
    /\ \E h \in Tx \ submitted, needs \in BOOLEAN :
         IF running /\ ready[run] = "ok"
           THEN /\ pending' = pending \cup {r}
                /\ interest' = [interest EXCEPT ![r] = [hash |-> h, receipt |-> needs]]
                /\ stage' = [stage EXCEPT ![r] = "registered"]
           ELSE /\ stage' = [stage EXCEPT ![r] = "refused"]
                /\ UNCHANGED <<pending, interest>>
    /\ UNCHANGED <<running, preparing, ready, run, scanner, subscribed, result, world>>

\* ReceiptRegistration::drop, a critical section of its own.
DropRegistration(r) ==
    /\ stage[r] \in {"registered", "refused"}
    /\ preparing' = preparing - 1
    /\ stage' = [stage EXCEPT ![r] = IF @ = "registered" THEN "waiting" ELSE "failed"]
    /\ UNCHANGED <<running, ready, pending, run, scanner, subscribed, interest, result, world>>

Submit(r) ==
    /\ stage[r] = "waiting"
    /\ submitted' = submitted \cup {interest[r].hash}
    /\ UNCHANGED <<tracker, scanner, clients, chain, expires_at, rollbacks>>

Observe(r) ==
    /\ stage[r] = "waiting" /\ result[r] # "none"
    /\ stage' = [stage EXCEPT ![r] = IF result[r] = "failed" THEN "failed" ELSE "done"]
    /\ UNCHANGED <<tracker, scanner, subscribed, interest, result, world>>

\* A timeout, or the task is dropped.
Abandon(r) ==
    /\ stage[r] \in {"preparing", "prepared", "waiting"}
    /\ preparing' = preparing - (IF stage[r] = "waiting" THEN 0 ELSE 1)
    /\ pending' = pending \ {r}
    /\ stage' = [stage EXCEPT ![r] = "failed"]
    /\ UNCHANGED <<running, ready, run, scanner, subscribed, interest, result, world>>
-----------------------------------------------------------------------------
(* Inner::run and scan                                                     *)

At(n, place) == scanner[n].at = place
Goto(n, place) == scanner' = [scanner EXCEPT ![n].at = place]
Resolve(rs, value) == /\ pending' = pending \ rs
                      /\ result' = [r \in Reg |-> IF r \in rs THEN value ELSE result[r]]

StopBeforeRegistration(n) ==  \* fault
    /\ At(n, "check")
    /\ IF pending = {} /\ (preparing = 0 \/ scanner[n].next # 0)
         THEN running' = FALSE /\ Goto(n, "done")
         ELSE UNCHANGED running /\ Goto(n, "head")
    /\ UNCHANGED <<preparing, ready, pending, run, clients, world>>

StopWithoutPreparing(n) ==  \* fault
    /\ At(n, "check")
    /\ IF preparing = 0
         THEN running' = FALSE /\ Goto(n, "done")
         ELSE UNCHANGED running /\ Goto(n, "head")
    /\ UNCHANGED <<preparing, ready, pending, run, clients, world>>

StopIfIdle(n) ==
    /\ At(n, "check")
    /\ IF pending = {} /\ preparing = 0
         THEN running' = FALSE /\ Goto(n, "done")
         ELSE UNCHANGED running /\ Goto(n, "head")
    /\ UNCHANGED <<preparing, ready, pending, run, clients, world>>

\* The head that registrations wait for.
Baseline(n) ==
    /\ At(n, "head") /\ scanner[n].next = 0
    /\ scanner' = [scanner EXCEPT ![n].at = "check", ![n].next = Height + 1]
    /\ ready' = [ready EXCEPT ![run] = "ok"]
    /\ UNCHANGED <<running, preparing, pending, run, clients, world>>

ReadHeadKeepingCursor(n) ==  \* fault
    /\ At(n, "head") /\ scanner[n].next # 0
    /\ scanner' = [scanner EXCEPT ![n] =
           [at |-> IF @.next > Height THEN "check" ELSE "block",
            next |-> @.next, head |-> Height, left |-> BlocksPerScan]]
    /\ UNCHANGED <<tracker, clients, world>>

\* A cursor that is ahead of a rolled-back head comes back to it.
ReadHead(n) ==
    /\ At(n, "head") /\ scanner[n].next # 0
    /\ LET number == IF Height + 1 < scanner[n].next THEN Height + 1 ELSE scanner[n].next
       IN  scanner' = [scanner EXCEPT ![n] =
               [at |-> IF number > Height THEN "check" ELSE "block",
                next |-> number, head |-> Height, left |-> BlocksPerScan]]
    /\ UNCHANGED <<tracker, clients, world>>

Interested(n) == {r \in pending : interest[r].hash \in chain[scanner[n].next]}

\* dispatch_hashes: hash-only interests are resolved, the others need receipts.
FetchBlock(n) ==
    /\ At(n, "block") /\ scanner[n].next <= Height
    /\ LET found == Interested(n)
           needing == {r \in found : interest[r].receipt}
       IN  /\ Resolve(found \ needing, "included")
           /\ Goto(n, IF needing = {} THEN "expire" ELSE "receipts")
    /\ UNCHANGED <<running, preparing, ready, run, stage, subscribed, interest, world>>

FetchReceipts(n) ==
    /\ At(n, "receipts") /\ scanner[n].next <= Height
    /\ Resolve(Interested(n), "receipt")
    /\ Goto(n, "expire")
    /\ UNCHANGED <<running, preparing, ready, run, stage, subscribed, interest, world>>

Overdue(timestamp) == {r \in pending : expires_at[interest[r].hash] \in 1 .. timestamp}

Advance(n) ==
    scanner' = [scanner EXCEPT ![n].next = @ + 1, ![n].left = @ - 1,
                               ![n].at = IF scanner[n].next < scanner[n].head /\ scanner[n].left > 1
                                           THEN "block" ELSE "check"]

ExpireByHead(n) ==  \* fault
    /\ At(n, "expire")
    /\ Resolve(Overdue(scanner[n].head), "expired")
    /\ Advance(n)
    /\ UNCHANGED <<running, preparing, ready, run, stage, subscribed, interest, world>>

Expire(n) ==
    /\ At(n, "expire")
    /\ Resolve(Overdue(scanner[n].next), "expired")
    /\ Advance(n)
    /\ UNCHANGED <<running, preparing, ready, run, stage, subscribed, interest, world>>

Asking(n) == scanner[n].at \in {"head", "block", "receipts"}

ScanFailsStartingOver(n) ==  \* fault
    /\ Asking(n)
    /\ scanner' = [scanner EXCEPT ![n].at = "check", ![n].next = 0]
    /\ UNCHANGED <<tracker, clients, world>>

\* The block asked for is gone, or not available yet.
BlockMissing(n) ==
    /\ scanner[n].at \in {"block", "receipts"} /\ scanner[n].next > Height
    /\ Goto(n, "check")
    /\ UNCHANGED <<tracker, clients, world>>

\* A transport error or RPC_TIMEOUT.
ScanFails(n) ==
    /\ Asking(n)
    /\ Goto(n, "check")
    /\ UNCHANGED <<tracker, clients, world>>

UnsupportedSilently(n) ==  \* fault
    /\ Asking(n)
    /\ Resolve(pending, "failed")
    /\ running' = FALSE
    /\ Goto(n, "done")
    /\ UNCHANGED <<preparing, ready, run, stage, subscribed, interest, world>>

UnsupportedResetting(n) ==  \* fault
    /\ Asking(n)
    /\ ready' = [ready EXCEPT ![run] = "error"]
    /\ Resolve(pending, "failed")
    /\ running' = FALSE /\ preparing' = 0
    /\ Goto(n, "done")
    /\ UNCHANGED <<run, stage, subscribed, interest, world>>

\* The endpoint answers that it does not know the method.
Unsupported(n) ==
    /\ Asking(n)
    /\ ready' = [ready EXCEPT ![run] = "error"]
    /\ Resolve(pending, "failed")
    /\ running' = FALSE
    /\ Goto(n, "done")
    /\ UNCHANGED <<preparing, run, stage, subscribed, interest, world>>
-----------------------------------------------------------------------------
(* The chain                                                               *)

OnChain == UNION ToSet(chain)

Mine ==
    /\ Height < MaxHeight
    /\ \E block \in SUBSET (submitted \ OnChain) :
         /\ \A h \in block : expires_at[h] = 0 \/ Height + 1 < expires_at[h]
         /\ chain' = Append(chain, block)
    /\ UNCHANGED <<tracker, scanner, clients, submitted, expires_at, rollbacks>>

Rollback ==
    /\ rollbacks < MaxRollbacks /\ chain # <<>>
    /\ chain' = Front(chain)
    /\ rollbacks' = rollbacks + 1
    /\ UNCHANGED <<tracker, scanner, clients, submitted, expires_at>>
-----------------------------------------------------------------------------
Init ==
    /\ running = FALSE /\ preparing = 0 /\ pending = {} /\ run = 0
    /\ ready = [n \in Run |-> "none"]
    /\ scanner = [n \in Run |-> [at |-> "new", next |-> 0, head |-> 0, left |-> 0]]
    /\ stage = [r \in Reg |-> "new"]
    /\ subscribed = [r \in Reg |-> 0]
    /\ interest \in [Reg -> [hash : {CHOOSE h \in Tx : TRUE}, receipt : {FALSE}]]
    /\ result = [r \in Reg |-> "none"]
    /\ submitted = {} /\ chain = <<>> /\ rollbacks = 0
    /\ expires_at \in [Tx -> Expiries]

Answer(n) == Baseline(n) \/ ReadHead(n) \/ FetchBlock(n) \/ FetchReceipts(n)
Own(r) == PrepareReturns(r) \/ Register(r) \/ DropRegistration(r) \/ Observe(r)

Next ==
    \/ Mine \/ Rollback
    \/ \E r \in Reg : Prepare(r) \/ Own(r) \/ Submit(r) \/ Abandon(r)
    \/ \E n \in Run : \/ StopIfIdle(n) \/ Answer(n) \/ BlockMissing(n) \/ Expire(n)
                      \/ ScanFails(n) \/ Unsupported(n)

Spec == Init /\ [][Next]_vars

-----------------------------------------------------------------------------
(* Properties                                                              *)

\* The state is well typed; "preparing" is never decremented below zero,
\* which would wrap in the code and keep the scanner alive for ever.
TypeOK ==
    /\ running \in BOOLEAN /\ preparing \in Nat /\ run \in 0 .. MaxRuns
    /\ ready \in [Run -> {"none", "ok", "error"}] /\ pending \in SUBSET Reg
    /\ scanner \in [Run -> [at : {"new", "check", "head", "block", "receipts", "expire", "done"},
                            next : Nat, head : Nat, left : 0 .. BlocksPerScan]]
    /\ stage \in [Reg -> {"new", "preparing", "prepared", "registered", "refused", "waiting"}
                            \cup Gone]
    /\ subscribed \in [Reg -> 0 .. MaxRuns]
    /\ interest \in [Reg -> [hash : Tx, receipt : BOOLEAN]]
    /\ result \in [Reg -> {"none", "included", "receipt", "expired", "failed"}]
    /\ submitted \in SUBSET Tx /\ chain \in Seq(SUBSET Tx)
    /\ expires_at \in [Tx -> Expiries] /\ rollbacks \in 0 .. MaxRollbacks

Live == {n \in Run : scanner[n].at \notin {"new", "done"}}

\* "HTTP endpoints use one head poller": a prepare that races the last
\* scanner's stop either joins it or starts the only other one.
OneScanner == Live = IF running THEN {run} ELSE {}

\* A caller that got its starting head can register: the scanner behind it
\* does not stop in between unless the endpoint turned out not to support it.
PreparedIsWatched ==
    \A r \in Reg : stage[r] = "prepared" /\ ready[subscribed[r]] = "ok"
                     => running /\ run = subscribed[r]

\* prepare() does not need its timeout: whoever still waits for a starting head
\* has a scanner at work behind it, however its start raced a stop, a failure
\* or an endpoint that lacks the methods.
StartingHeadIsComing ==
    \A r \in Reg : stage[r] = "preparing" /\ ready[subscribed[r]] = "none" => subscribed[r] \in Live

\* Scanners are there for those who rely on them, one at a time.
ScannersServe == OneScanner /\ PreparedIsWatched /\ StartingHeadIsComing

\* "Even inclusion before the submission response is covered": the scanner has
\* still to read every block that holds a hash somebody waits for.
NoMissedInclusion ==
    \A r \in pending : \A h \in DOMAIN chain :
        interest[r].hash \in chain[h]
          => \E n \in Live : scanner[n].next \in 1 .. h

\* A slot is given back as expired only if the transaction is in no block,
\* however far the endpoint's head was behind or ahead of the scanner.
ExpiredNeverIncluded ==
    \A r \in Reg : result[r] = "expired" => interest[r].hash \notin OnChain

\* As long as the chain loses no block, what the tracker says, or will say, of a
\* transaction is true.
InclusionsAreKept == rollbacks = 0 => NoMissedInclusion /\ ExpiredNeverIncluded

\* Once the transaction is in a block, its waiter hears of it, or was dropped,
\* unless the chain loses a block.
Unheard(r) == r \in pending /\ interest[r].hash \in OnChain /\ rollbacks = 0

\* "A rolled-back head must not leave the cursor ahead indefinitely."
Ahead(n) == n \in Live /\ scanner[n].next > Height + 1
=============================================================================
