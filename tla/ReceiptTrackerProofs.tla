------------------------ MODULE ReceiptTrackerProofs -------------------------
(***************************************************************************)
(* Proofs about ReceiptTracker, for any number of submitting tasks, of     *)
(* scanner runs, of blocks and of blocks undone.                           *)
(*                                                                         *)
(* The counter of preparing tasks and the set of pending ones keep the     *)
(* last scanner at work, so a task listens to that scanner or has been     *)
(* told of an error.  The scanner's cursor is behind everything the        *)
(* pending tasks still wait for.                                           *)
(***************************************************************************)
EXTENDS ReceiptTracker, FiniteSetTheorems, SequenceTheorems, TLAPS

\* Tasks between prepare() and the end of their registration.
Preparers == {r \in Reg : stage[r] \in {"preparing", "prepared", "registered", "refused"}}
CountInv == IsFiniteSet(Preparers) /\ preparing = Cardinality(Preparers)

\* Runs follow one another, and what the last one has published is what its
\* cursor says.
RunInv ==
    /\ \A n \in Run : /\ n > run => scanner[n].at = "new" /\ scanner[n].next = 0
                      /\ n < run => scanner[n].at = "done"
    /\ running => /\ run \in Run
                  /\ scanner[run].at \notin {"new", "done"}
                  /\ ready[run] = IF scanner[run].next = 0 THEN "none" ELSE "ok"
    /\ run \in Run /\ ~running => scanner[run].at = "done"
    /\ \A n \in Run : scanner[n].at \in {"block", "receipts", "expire"} =>
           scanner[n].next > 0 /\ scanner[n].left > 0

\* Who prepares listens to the scanner at work, or to one that failed.
ListenInv ==
    \A r \in Preparers : /\ subscribed[r] \in Run
                         /\ \/ subscribed[r] = run /\ running
                            \/ subscribed[r] <= run /\ ready[subscribed[r]] = "error"

\* Who is pending has no answer yet, and a scanner that has its cursor.
PendingInv ==
    /\ \A r \in Reg : stage[r] \in {"new", "preparing", "prepared"}
                        => r \notin pending /\ result[r] = "none"
    /\ \A r \in pending : stage[r] \in {"registered", "waiting"} /\ result[r] = "none"
    /\ pending # {} => running /\ scanner[run].next > 0

\* A transaction is mined once it is submitted and before it expires.
ChainInv ==
    \A h \in DOMAIN chain : \A x \in chain[h] :
        x \in submitted /\ (expires_at[x] = 0 \/ h < expires_at[x])

\* The cursor is behind the chain, and the pending tasks behind the cursor.
CursorInv ==
    /\ running => /\ scanner[run].next <= Height + 1
                  /\ scanner[run].at \in {"block", "receipts", "expire"} => scanner[run].next <= scanner[run].head
                  /\ scanner[run].at \in {"block", "receipts", "expire"} => scanner[run].head <= Height
    /\ \A r \in pending : \A h \in DOMAIN chain : interest[r].hash \in chain[h] =>
           scanner[run].next <= h /\ (scanner[run].at = "expire" => scanner[run].next # h)
    /\ \A r \in Reg : result[r] = "expired" =>
           /\ expires_at[interest[r].hash] \in 1 .. Height
           /\ interest[r].hash \notin OnChain

IInv ==
    /\ TypeOK /\ CountInv /\ RunInv /\ ListenInv /\ PendingInv /\ ChainInv
    /\ rollbacks = 0 => CursorInv

-----------------------------------------------------------------------------
(* Steps of the scanner                                                    *)

Scanners == [Run -> [at : {"new", "check", "head", "block", "receipts", "expire", "done"},
                     next : Nat, head : Nat, left : 0 .. BlocksPerScan]]
Reading == {"block", "receipts", "expire"}

\* What a step does to the scanner of run n.
Moves(n, at, next, head, left) ==
    /\ scanner' \in Scanners
    /\ scanner'[n].at = at /\ scanner'[n].next = next
    /\ scanner'[n].head = head /\ scanner'[n].left = left
    /\ \A m \in Run : m # n => scanner'[m] = scanner[m]

Scanner == [at : {"new", "check", "head", "block", "receipts", "expire", "done"},
            next : Nat, head : Nat, left : 0 .. BlocksPerScan]

LEMMA Updates ==
    ASSUME TypeOK, NEW n \in Run, NEW s \in Scanner, scanner' = [scanner EXCEPT ![n] = s]
    PROVE  Moves(n, s.at, s.next, s.head, s.left)
<1>1. scanner \in [Run -> Scanner]
  BY DEF TypeOK, Scanner
<1>2. scanner' \in [Run -> Scanner] /\ scanner'[n] = s /\ \A m \in Run : m # n => scanner'[m] = scanner[m]
  BY <1>1
<1> QED BY <1>2 DEF Moves, Scanners, Scanner

LEMMA MovesTo ==
    ASSUME TypeOK, NEW n \in Run,
           NEW at \in {"new", "check", "head", "block", "receipts", "expire", "done"},
           NEW next \in Nat, NEW head \in Nat, NEW left \in 0 .. BlocksPerScan,
           scanner' = [scanner EXCEPT ![n] = [at |-> at, next |-> next, head |-> head, left |-> left]]
    PROVE  Moves(n, at, next, head, left)
BY DEF TypeOK, Moves, Scanners

LEMMA GotoMoves ==
    ASSUME TypeOK, NEW n \in Run,
           NEW place \in {"check", "head", "block", "receipts", "expire", "done"}, Goto(n, place)
    PROVE  Moves(n, place, scanner[n].next, scanner[n].head, scanner[n].left)
<1>1. scanner \in Scanners
  BY DEF TypeOK, Scanners
<1> DEFINE s == [scanner[n] EXCEPT !.at = place]
<1>2. scanner' = [scanner EXCEPT ![n] = s]
  BY DEF Goto
<1>3. /\ s \in Scanner /\ s.at = place /\ s.next = scanner[n].next
      /\ s.head = scanner[n].head /\ s.left = scanner[n].left
  BY <1>1 DEF Scanners, Scanner
<1> HIDE DEF s
<1>4. Moves(n, s.at, s.next, s.head, s.left)
  BY <1>2, <1>3, Updates
<1> QED BY <1>3, <1>4

LEMMA ChainHeight == TypeOK => Height \in Nat /\ DOMAIN chain = 1 .. Height
BY DEF TypeOK, Height

\* A scanner at work is the last one.
LEMMA AtWork ==
    ASSUME TypeOK, RunInv, NEW n \in Run, scanner[n].at \notin {"new", "done"}
    PROVE  n = run /\ running
<1>1. n \in Nat /\ run \in Nat
  BY DEF TypeOK, Run
<1>2. n = run
  BY <1>1 DEF RunInv
<1> QED BY <1>2 DEF RunInv, TypeOK

LEMMA StartMoves ==
    ASSUME TypeOK, RunInv, Start
    PROVE  /\ run' = run + 1 /\ run' \in Run /\ running'
           /\ scanner[run'].at = "new" /\ scanner[run'].next = 0
           /\ Moves(run', "check", scanner[run'].next, scanner[run'].head, scanner[run'].left)
           /\ ready' = [ready EXCEPT ![run'] = "none"]
<1>1. run' = run + 1 /\ run' \in Run /\ run' > run /\ run' \in Nat
  BY ReceiptTrackerAssumption DEF Start, TypeOK, Run
<1>2. Goto(run', "check")
  BY <1>1 DEF Start, Goto
<1> QED BY <1>1, <1>2, GotoMoves DEF Start, RunInv

LEMMA BaselineMoves ==
    ASSUME TypeOK, RunInv, NEW n \in Run, Baseline(n)
    PROVE  /\ n = run /\ running /\ scanner[n].at = "head" /\ scanner[n].next = 0
           /\ Moves(n, "check", Height + 1, scanner[n].head, scanner[n].left)
<1>1. scanner[n].at = "head" /\ scanner[n].next = 0
  BY DEF Baseline, At
<1>2. Height + 1 \in Nat
  BY ChainHeight
<1>3. scanner' = [scanner EXCEPT ![n].at = "check", ![n].next = Height + 1]
  BY DEF Baseline
<1>4. Moves(n, "check", Height + 1, scanner[n].head, scanner[n].left)
  <2> DEFINE goal == Height + 1
  <2>1. goal \in Nat /\ scanner' = [scanner EXCEPT ![n].at = "check", ![n].next = goal]
    BY <1>2, <1>3
  <2> HIDE DEF goal
  <2>2. Moves(n, "check", goal, scanner[n].head, scanner[n].left)
    BY ZenonT(60), <2>1 DEF TypeOK, Moves, Scanners
  <2> QED BY <2>2 DEF goal
<1> QED BY <1>1, <1>4, AtWork

LEMMA ReadHeadMoves ==
    ASSUME TypeOK, RunInv, NEW n \in Run, ReadHead(n)
    PROVE  /\ n = run /\ running /\ scanner[n].at = "head" /\ scanner[n].next > 0
           /\ \E number \in Nat :
                /\ number > 0 /\ number <= scanner[n].next /\ number <= Height + 1
                /\ scanner[n].next <= Height + 1 => number = scanner[n].next
                /\ Moves(n, IF number > Height THEN "check" ELSE "block", number, Height, BlocksPerScan)
<1>1. /\ scanner[n].at = "head" /\ scanner[n].next \in Nat /\ scanner[n].next > 0
      /\ Height \in Nat /\ BlocksPerScan \in 0 .. BlocksPerScan
  BY SMTT(60), ChainHeight, ReceiptTrackerAssumption DEF ReadHead, At, TypeOK
<1> DEFINE number == IF Height + 1 < scanner[n].next THEN Height + 1 ELSE scanner[n].next
<1>2. /\ number \in Nat /\ number > 0 /\ number <= scanner[n].next /\ number <= Height + 1
      /\ scanner[n].next <= Height + 1 => number = scanner[n].next
  BY <1>1
<1>3. scanner' = [scanner EXCEPT ![n] = [at |-> IF number > Height THEN "check" ELSE "block",
                                         next |-> number, head |-> Height, left |-> BlocksPerScan]]
  BY DEF ReadHead
<1> HIDE DEF number
<1>4. Moves(n, IF number > Height THEN "check" ELSE "block", number, Height, BlocksPerScan)
  BY <1>1, <1>2, <1>3, MovesTo
<1>5. n = run /\ running
  BY <1>1, AtWork
<1> QED BY <1>1, <1>2, <1>4, <1>5

LEMMA AdvanceMoves ==
    ASSUME TypeOK, RunInv, NEW n \in Run, Expire(n)
    PROVE  /\ n = run /\ running /\ scanner[n].at = "expire" /\ scanner[n].next > 0
           /\ Moves(n, IF scanner[n].next < scanner[n].head /\ scanner[n].left > 1 THEN "block" ELSE "check",
                    scanner[n].next + 1, scanner[n].head, scanner[n].left - 1)
<1>1. scanner[n].at = "expire"
  BY DEF Expire, At
<1>0. scanner \in Scanners
  BY DEF TypeOK, Scanners
<1>2. /\ scanner[n].next \in Nat /\ scanner[n].left \in 0 .. BlocksPerScan
      /\ scanner[n].next > 0 /\ scanner[n].left > 0 /\ scanner[n].head \in Nat
  BY <1>0, <1>1 DEF Scanners, RunInv
<1> DEFINE at == IF scanner[n].next < scanner[n].head /\ scanner[n].left > 1 THEN "block" ELSE "check"
           next == scanner[n].next + 1
           left == scanner[n].left - 1
<1>3. /\ next \in Nat /\ left \in 0 .. BlocksPerScan /\ at \in {"block", "check"}
      /\ scanner' = [scanner EXCEPT ![n].next = next, ![n].left = left, ![n].at = at]
  BY <1>2, ReceiptTrackerAssumption DEF Expire, Advance
<1> HIDE DEF at, next, left
<1> DEFINE s == [[[scanner[n] EXCEPT !.next = next] EXCEPT !.left = left] EXCEPT !.at = at]
<1>4. /\ s \in Scanner /\ s.at = at /\ s.next = next
      /\ s.head = scanner[n].head /\ s.left = left
  BY <1>0, <1>3 DEF Scanners, Scanner
<1>6. scanner' = [scanner EXCEPT ![n] = s]
  BY <1>0, <1>3 DEF Scanners
<1> HIDE DEF s
<1>7. Moves(n, s.at, s.next, s.head, s.left)
  BY <1>4, <1>6, Updates
<1>5. Moves(n, at, next, scanner[n].head, left)
  BY <1>4, <1>7
<1> QED BY <1>1, <1>2, <1>5, AtWork DEF at, next, left

-----------------------------------------------------------------------------
(* Kinds of steps                                                          *)

TaskStep(r) ==
    \/ Prepare(r) \/ PrepareReturns(r) \/ Register(r) \/ DropRegistration(r) \/ Observe(r) \/ Abandon(r)

ScannerStep(n) ==
    \/ StopIfIdle(n) \/ Baseline(n) \/ ReadHead(n) \/ FetchBlock(n) \/ FetchReceipts(n)
    \/ BlockMissing(n) \/ Expire(n) \/ ScanFails(n) \/ Unsupported(n)

WorldStep ==
    /\ UNCHANGED <<tracker, scanner, clients>>
    /\ Mine \/ Rollback \/ (\E r \in Reg : Submit(r)) \/ UNCHANGED world

LEMMA StepKinds ==
    ASSUME [Next]_vars
    PROVE  (\E r \in Reg : TaskStep(r)) \/ (\E n \in Run : ScannerStep(n)) \/ WorldStep
<1>1. Mine => WorldStep
  BY DEF Mine, WorldStep
<1>2. Rollback => WorldStep
  BY DEF Rollback, WorldStep
<1>3. ASSUME NEW r \in Reg, Submit(r) PROVE WorldStep
  BY <1>3 DEF Submit, WorldStep
<1>4. UNCHANGED vars => WorldStep
  BY DEF vars, tracker, clients, world, WorldStep
<1> QED BY <1>1, <1>2, <1>3, <1>4 DEF Next, Own, Answer, TaskStep, ScannerStep

LEMMA ScannerFrame ==
    ASSUME NEW n \in Run, ScannerStep(n)
    PROVE  UNCHANGED <<preparing, run, stage, subscribed, interest, submitted, chain, expires_at, rollbacks>>
BY DEF ScannerStep, StopIfIdle, Baseline, ReadHead, FetchBlock, FetchReceipts, BlockMissing, Expire,
   ScanFails, Unsupported, tracker, clients, world

LEMMA TaskFrame ==
    ASSUME NEW r \in Reg, TaskStep(r)
    PROVE  UNCHANGED <<result, submitted, chain, expires_at, rollbacks>>
BY DEF TaskStep, Prepare, PrepareReturns, Register, DropRegistration, Observe, Abandon, tracker, world

\* A step of a scanner is one of the last scanner.  It ends the scanner, or
\* leaves it at work and answers some pending tasks.
Ends(n) ==
    /\ running' = FALSE /\ pending' = {}
    /\ Moves(n, "done", scanner[n].next, scanner[n].head, scanner[n].left)
    /\ \/ /\ preparing = 0
          /\ ready' = ready
       \/ ready' = [ready EXCEPT ![n] = "error"]
    /\ \A r \in Reg : result'[r] = result[r] \/ (r \in pending /\ result'[r] = "failed")

Proceeds(n) ==
    /\ running' = running /\ pending' \subseteq pending
    /\ scanner' \in Scanners /\ scanner'[n].at \notin {"new", "done"}
    /\ \A m \in Run : m # n => scanner'[m] = scanner[m]
    /\ scanner'[n].at \in Reading => scanner'[n].next > 0 /\ scanner'[n].left > 0
    /\ scanner[n].next > 0 => scanner'[n].next > 0
    /\ \/ /\ ready' = ready
          /\ scanner'[n].next = 0 <=> scanner[n].next = 0
       \/ /\ ready' = [ready EXCEPT ![n] = "ok"]
          /\ scanner'[n].next > 0
    /\ \A r \in Reg : \/ result'[r] = result[r]
                      \/ /\ r \in pending \ pending'
                         /\ result'[r] \in {"included", "receipt", "expired"}

\* What Resolve does, task by task.
LEMMA Resolved ==
    ASSUME NEW rs \in SUBSET pending, NEW value, Resolve(rs, value)
    PROVE  /\ pending' = pending \ rs
           /\ \A r \in Reg : result'[r] = result[r] \/ (r \in pending \ pending' /\ result'[r] = value)
BY DEF Resolve

LEMMA ScannerSteps ==
    ASSUME TypeOK, RunInv, NEW n \in Run, ScannerStep(n)
    PROVE  /\ n = run /\ running /\ scanner[n].at \notin {"new", "done"}
           /\ Ends(n) \/ Proceeds(n)
<1>0. /\ scanner \in Scanners /\ scanner[n].next \in Nat /\ pending \in SUBSET Reg
      /\ scanner[n].at \in Reading => scanner[n].next > 0 /\ scanner[n].left > 0
  BY DEF TypeOK, Scanners, RunInv, Reading
<1>1. scanner[n].at \notin {"new", "done"}
  BY DEF ScannerStep, StopIfIdle, Baseline, ReadHead, FetchBlock, FetchReceipts, BlockMissing, Expire,
         ScanFails, Unsupported, At, Asking
<1>2. n = run /\ running
  BY <1>1, AtWork
<1> DEFINE Stays(place) == Moves(n, place, scanner[n].next, scanner[n].head, scanner[n].left)
<1>3. ASSUME NEW place \in {"check", "head", "block", "receipts", "expire"}, Goto(n, place),
             place \in Reading => scanner[n].at \in Reading,
             UNCHANGED <<running, ready>>, pending' \subseteq pending,
             \A r \in Reg : \/ result'[r] = result[r]
                            \/ /\ r \in pending \ pending'
                               /\ result'[r] \in {"included", "receipt", "expired"}
      PROVE  Proceeds(n)
  <2>1. Stays(place)
    BY <1>3, GotoMoves
  <2> QED BY <1>0, <1>3, <2>1 DEF Moves, Proceeds
<1>4. CASE StopIfIdle(n)
  <2>1. CASE pending = {} /\ preparing = 0
    <3>1. Goto(n, "done") /\ running' = FALSE /\ UNCHANGED <<ready, pending, result>>
      BY <1>4, <2>1 DEF StopIfIdle, clients
    <3>2. Stays("done")
      BY <3>1, GotoMoves
    <3> QED BY <1>1, <1>2, <2>1, <3>1, <3>2 DEF Ends
  <2>2. CASE ~(pending = {} /\ preparing = 0)
    <3>1. Goto(n, "head") /\ UNCHANGED <<running, ready, pending, result>>
      BY <1>4, <2>2 DEF StopIfIdle, clients
    <3>2. Proceeds(n)
      BY <1>3, <3>1 DEF Reading
    <3> QED BY <1>1, <1>2, <3>2
  <2> QED BY <2>1, <2>2
<1>5. CASE Baseline(n)
  <2>1. Moves(n, "check", Height + 1, scanner[n].head, scanner[n].left) /\ Height \in Nat
    BY <1>5, BaselineMoves, ChainHeight
  <2>2. ready' = [ready EXCEPT ![n] = "ok"] /\ UNCHANGED <<running, pending, result>>
    BY <1>2, <1>5 DEF Baseline, clients
  <2>3. Proceeds(n)
    BY <2>1, <2>2 DEF Moves, Proceeds, Reading
  <2> QED BY <1>1, <1>2, <2>3
<1>6. CASE ReadHead(n)
  <2>1. PICK number \in Nat : /\ number > 0
                              /\ Moves(n, IF number > Height THEN "check" ELSE "block", number, Height, BlocksPerScan)
    BY <1>6, ReadHeadMoves
  <2>2. UNCHANGED <<running, ready, pending, result>> /\ scanner[n].next > 0
    BY <1>0, <1>6 DEF ReadHead, tracker, clients
  <2>3. Proceeds(n)
    BY <2>1, <2>2, ReceiptTrackerAssumption DEF Moves, Proceeds, Reading
  <2> QED BY <1>1, <1>2, <2>3
<1>7. CASE FetchBlock(n)
  <2> DEFINE found == Interested(n)
             rs == found \ {r \in found : interest[r].receipt}
  <2>1. /\ Resolve(rs, "included") /\ UNCHANGED <<running, ready>> /\ scanner[n].at = "block"
        /\ Goto(n, "expire") \/ Goto(n, "receipts")
    BY <1>7 DEF FetchBlock, At
  <2>2. rs \in SUBSET pending
    BY DEF Interested
  <2> HIDE DEF rs
  <2>3. Proceeds(n)
    BY <1>3, <2>1, <2>2, Resolved DEF Reading
  <2> QED BY <1>1, <1>2, <2>3
<1>8. CASE FetchReceipts(n)
  <2>1. /\ Resolve(Interested(n), "receipt") /\ UNCHANGED <<running, ready>> /\ scanner[n].at = "receipts"
        /\ Goto(n, "expire") /\ Interested(n) \in SUBSET pending
    BY <1>8 DEF FetchReceipts, At, Interested
  <2>3. Proceeds(n)
    BY <1>3, <2>1, Resolved DEF Reading
  <2> QED BY <1>1, <1>2, <2>3
<1>9. CASE BlockMissing(n) \/ ScanFails(n)
  <2>1. Goto(n, "check") /\ UNCHANGED <<running, ready, pending, result>>
    BY <1>9 DEF BlockMissing, ScanFails, tracker, clients
  <2>2. Proceeds(n)
    BY <1>3, <2>1 DEF Reading
  <2> QED BY <1>1, <1>2, <2>2
<1>10. CASE Expire(n)
  <2>1. Moves(n, IF scanner[n].next < scanner[n].head /\ scanner[n].left > 1 THEN "block" ELSE "check",
                 scanner[n].next + 1, scanner[n].head, scanner[n].left - 1)
    BY <1>10, AdvanceMoves
  <2>2. /\ Resolve(Overdue(scanner[n].next), "expired") /\ UNCHANGED <<running, ready>>
        /\ Overdue(scanner[n].next) \in SUBSET pending /\ scanner[n].at = "expire"
    BY <1>10 DEF Expire, Overdue, At
  <2>3. /\ pending' \subseteq pending
        /\ \A r \in Reg : result'[r] = result[r] \/ (r \in pending \ pending' /\ result'[r] = "expired")
    BY <2>2, Resolved
  <2>4. scanner[n].left \in Nat
    BY <1>0 DEF Scanners
  <2>5. Proceeds(n)
    BY <1>0, <2>1, <2>2, <2>3, <2>4 DEF Moves, Proceeds, Reading
  <2> QED BY <1>1, <1>2, <2>5
<1>11. CASE Unsupported(n)
  <2>1. /\ Resolve(pending, "failed") /\ running' = FALSE /\ Goto(n, "done")
        /\ ready' = [ready EXCEPT ![n] = "error"]
    BY <1>2, <1>11 DEF Unsupported
  <2>2. Stays("done")
    BY <2>1, GotoMoves
  <2>3. Ends(n)
    BY <2>1, <2>2, Resolved DEF Ends
  <2> QED BY <1>1, <1>2, <2>3
<1> QED BY <1>4, <1>5, <1>6, <1>7, <1>8, <1>9, <1>10, <1>11 DEF ScannerStep

-----------------------------------------------------------------------------
(* The invariant                                                           *)

LEMMA CountSame ==
    ASSUME CountInv, preparing' = preparing, Preparers' = Preparers PROVE CountInv'
BY DEF CountInv

LEMMA CountUp ==
    ASSUME CountInv, NEW r, r \notin Preparers, Preparers' = Preparers \cup {r}, preparing' = preparing + 1
    PROVE  CountInv'
<1>1. IsFiniteSet(Preparers') /\ Cardinality(Preparers') = Cardinality(Preparers) + 1
  BY FS_AddElement DEF CountInv
<1> QED BY <1>1 DEF CountInv

LEMMA CountDown ==
    ASSUME CountInv, NEW r, r \in Preparers, Preparers' = Preparers \ {r}, preparing' = preparing - 1
    PROVE  CountInv'
<1>1. IsFiniteSet(Preparers') /\ Cardinality(Preparers') = Cardinality(Preparers) - 1
  BY FS_RemoveElement DEF CountInv
<1> QED BY <1>1 DEF CountInv

LEMMA CountInvStep == ASSUME IInv, [Next]_vars PROVE CountInv'
<1>0. TypeOK /\ CountInv /\ DOMAIN stage = Reg /\ preparing \in Nat
  BY DEF IInv, TypeOK
<1>1. CASE UNCHANGED <<stage, preparing>>
  BY <1>0, <1>1, CountSame DEF Preparers
<1>2. ASSUME NEW r \in Reg, TaskStep(r) PROVE CountInv'
  <2>1. CASE Prepare(r)
    <3>1. stage[r] = "new" /\ stage' = [stage EXCEPT ![r] = "preparing"] /\ preparing' = preparing + 1
      BY <2>1 DEF Prepare
    <3>2. r \notin Preparers /\ Preparers' = Preparers \cup {r}
      BY <1>0, <3>1 DEF Preparers
    <3> QED BY <1>0, <3>1, <3>2, CountUp
  <2>2. ASSUME stage[r] \in {"preparing", "prepared", "registered", "refused"},
               \E s \in {"waiting", "failed"} : stage' = [stage EXCEPT ![r] = s],
               preparing' = preparing - 1
        PROVE  CountInv'
    <3>1. r \in Preparers /\ Preparers' = Preparers \ {r}
      BY <1>0, <2>2 DEF Preparers
    <3> QED BY <1>0, <2>2, <3>1, CountDown
  <2>3. ASSUME stage[r] \in {"preparing", "prepared"},
               \E s \in {"prepared", "registered", "refused"} : stage' = [stage EXCEPT ![r] = s],
               preparing' = preparing
        PROVE  CountInv'
    <3>1. Preparers' = Preparers
      BY <1>0, <2>3 DEF Preparers
    <3> QED BY <1>0, <2>3, <3>1, CountSame
  <2>4. ASSUME stage[r] = "waiting", \E s \in {"done", "failed"} : stage' = [stage EXCEPT ![r] = s],
               preparing' = preparing
        PROVE  CountInv'
    <3>1. Preparers' = Preparers
      BY <1>0, <2>4 DEF Preparers
    <3> QED BY <1>0, <2>4, <3>1, CountSame
  <2>5. CASE PrepareReturns(r)
    BY <2>2, <2>3, <2>5 DEF PrepareReturns
  <2>6. CASE Register(r)
    BY <2>3, <2>6 DEF Register
  <2>7. CASE DropRegistration(r)
    BY <2>2, <2>7 DEF DropRegistration
  <2>8. CASE Observe(r)
    <3>1. stage[r] = "waiting" /\ preparing' = preparing
      BY <2>8 DEF Observe, tracker
    <3>2. \E s \in {"done", "failed"} : stage' = [stage EXCEPT ![r] = s]
      BY <2>8 DEF Observe
    <3> QED BY <2>4, <3>1, <3>2
  <2>9. CASE Abandon(r)
    <3>1. stage' = [stage EXCEPT ![r] = "failed"] /\ stage[r] \in {"preparing", "prepared", "waiting"}
      BY <2>9 DEF Abandon
    <3>2. preparing' = preparing - (IF stage[r] = "waiting" THEN 0 ELSE 1)
      BY <2>9 DEF Abandon
    <3>3. CASE stage[r] = "waiting"
      BY <1>0, <2>4, <3>1, <3>2, <3>3
    <3>4. CASE stage[r] # "waiting"
      BY <2>2, <3>1, <3>2, <3>4
    <3> QED BY <3>3, <3>4
  <2> QED BY <1>2, <2>1, <2>5, <2>6, <2>7, <2>8, <2>9 DEF TaskStep
<1>3. ASSUME NEW n \in Run, ScannerStep(n) PROVE CountInv'
  BY <1>1, <1>3, ScannerFrame
<1>4. CASE WorldStep
  BY <1>1, <1>4 DEF WorldStep, tracker, clients
<1> QED BY <1>2, <1>3, <1>4, StepKinds

LEMMA RunInvStep == ASSUME IInv, [Next]_vars PROVE RunInv'
<1>0. TypeOK /\ RunInv /\ CountInv /\ ListenInv /\ PendingInv /\ run \in Nat /\ DOMAIN ready = Run
  BY DEF IInv, TypeOK
<1>1. CASE UNCHANGED <<run, running, ready, scanner>>
  BY <1>0, <1>1 DEF RunInv
<1>2. ASSUME NEW r \in Reg, TaskStep(r) PROVE RunInv'
  <2>1. CASE Prepare(r) /\ ~running
    <3>1. running' /\ Start
      BY <2>1 DEF Prepare, Start
    <3>2. /\ run' = run + 1 /\ run' \in Run /\ run' \in Nat
          /\ Moves(run', "check", 0, scanner[run'].head, scanner[run'].left)
          /\ ready' = [ready EXCEPT ![run'] = "none"]
      BY <1>0, <3>1, StartMoves DEF Run
    <3>3. /\ ready'[run'] = "none" /\ scanner'[run'].at = "check" /\ scanner'[run'].next = 0
          /\ \A m \in Run : m # run' => scanner'[m] = scanner[m]
      BY <1>0, <3>2 DEF Moves
    <3>4. \A m \in Run : m \in Nat /\ (m < run' /\ m # run => m < run)
      BY <1>0, <3>2 DEF Run
    <3>5. run \in Run => scanner[run].at = "done"
      BY <1>0, <2>1 DEF RunInv
    <3>6. \A m \in Run : /\ m > run' => scanner'[m].at = "new" /\ scanner'[m].next = 0
                         /\ m < run' => scanner'[m].at = "done"
      BY <1>0, <3>2, <3>3, <3>4, <3>5 DEF RunInv
    <3>7. \A m \in Run : scanner'[m].at \in {"block", "receipts", "expire"} =>
              scanner'[m].next > 0 /\ scanner'[m].left > 0
      BY <1>0, <3>3 DEF RunInv
    <3> QED BY <3>1, <3>2, <3>3, <3>6, <3>7 DEF RunInv
  <2>2. CASE ~(Prepare(r) /\ ~running)
    <3>1. UNCHANGED <<run, running, ready, scanner>>
      BY <1>2, <2>2 DEF TaskStep, Prepare, PrepareReturns, Register, DropRegistration, Observe, Abandon, tracker
    <3> QED BY <1>1, <3>1
  <2> QED BY <2>1, <2>2
<1>3. ASSUME NEW n \in Run, ScannerStep(n) PROVE RunInv'
  <2>1. /\ n = run /\ running /\ run' = run
        /\ Ends(n) \/ Proceeds(n)
    BY <1>0, <1>3, ScannerSteps, ScannerFrame
  <2>2. CASE Ends(n)
    <3>1. /\ scanner'[n].at = "done" /\ ~running'
          /\ \A m \in Run : m # n => scanner'[m] = scanner[m]
      BY <2>2 DEF Ends, Moves
    <3> QED BY <1>0, <2>1, <3>1 DEF RunInv
  <2>3. CASE Proceeds(n)
    <3>1. /\ scanner'[n].at \notin {"new", "done"} /\ running'
          /\ \A m \in Run : m # n => scanner'[m] = scanner[m]
          /\ scanner'[n].at \in Reading => scanner'[n].next > 0 /\ scanner'[n].left > 0
      BY <2>1, <2>3 DEF Proceeds
    <3>2. ready'[n] = IF scanner'[n].next = 0 THEN "none" ELSE "ok"
      <4>1. ready[n] = IF scanner[n].next = 0 THEN "none" ELSE "ok"
        BY <1>0, <2>1 DEF RunInv
      <4>2. CASE ready' = ready /\ (scanner'[n].next = 0 <=> scanner[n].next = 0)
        BY <4>1, <4>2
      <4>3. CASE ready' = [ready EXCEPT ![n] = "ok"] /\ scanner'[n].next > 0
        BY <1>0, <4>3
      <4> QED BY <2>3, <4>2, <4>3 DEF Proceeds
    <3> QED BY <1>0, <2>1, <3>1, <3>2 DEF RunInv, Reading
  <2> QED BY <2>1, <2>2, <2>3
<1>4. CASE WorldStep
  BY <1>1, <1>4 DEF WorldStep, tracker
<1> QED BY <1>2, <1>3, <1>4, StepKinds

LEMMA ListenInvStep == ASSUME IInv, [Next]_vars PROVE ListenInv'
<1>0. /\ TypeOK /\ RunInv /\ CountInv /\ ListenInv /\ run \in Nat
      /\ DOMAIN ready = Run /\ DOMAIN stage = Reg /\ DOMAIN subscribed = Reg
  BY DEF IInv, TypeOK
<1>1. ASSUME Preparers' \subseteq Preparers, UNCHANGED <<run, running, ready, subscribed>> PROVE ListenInv'
  BY <1>0, <1>1 DEF ListenInv
<1>2. ASSUME NEW r \in Reg, Prepare(r) PROVE ListenInv'
  <2>1. /\ subscribed' = [subscribed EXCEPT ![r] = run']
        /\ \A q \in Preparers' : q = r \/ q \in Preparers
    <3>1. stage' = [stage EXCEPT ![r] = "preparing"] /\ subscribed' = [subscribed EXCEPT ![r] = run']
      BY <1>2 DEF Prepare
    <3> QED BY <1>0, <3>1 DEF Preparers
  <2>2. CASE running
    <3>1. UNCHANGED <<running, run, ready>> /\ run \in Run
      BY <1>0, <1>2, <2>2 DEF Prepare, RunInv
    <3> QED BY <1>0, <2>1, <2>2, <3>1 DEF ListenInv, Preparers
  <2>3. CASE ~running
    <3>1. running' /\ run' = run + 1 /\ run' \in Run /\ ready' = [ready EXCEPT ![run'] = "none"]
      BY <1>0, <1>2, <2>3, StartMoves DEF Prepare
    <3>2. \A q \in Preparers : subscribed[q] \in Run /\ subscribed[q] <= run /\ ready[subscribed[q]] = "error"
      BY <1>0, <2>3 DEF ListenInv
    <3>3. \A q \in Preparers : subscribed[q] # run' /\ subscribed[q] <= run'
      BY <1>0, <3>1, <3>2 DEF Run
    <3> QED BY <1>0, <2>1, <3>1, <3>2, <3>3 DEF ListenInv, Preparers
  <2> QED BY <2>2, <2>3
<1>3. ASSUME NEW r \in Reg, TaskStep(r), ~Prepare(r) PROVE ListenInv'
  <2>1. UNCHANGED <<run, running, ready, subscribed>>
    BY <1>3 DEF TaskStep, PrepareReturns, Register, DropRegistration, Observe, Abandon, tracker
  <2>2. \/ stage[r] = "waiting" /\ \E s \in {"done", "failed"} : stage' = [stage EXCEPT ![r] = s]
        \/ stage[r] \in {"preparing", "prepared", "registered", "refused"}
    BY <1>3 DEF TaskStep, PrepareReturns, Register, DropRegistration, Observe, Abandon
  <2>3. \A q \in Reg : q # r => stage'[q] = stage[q]
    BY <1>0, <1>3 DEF TaskStep, PrepareReturns, Register, DropRegistration, Observe, Abandon
  <2>4. Preparers' \subseteq Preparers
    BY <1>0, <2>2, <2>3 DEF Preparers
  <2> QED BY <1>1, <2>1, <2>4
<1>4. ASSUME NEW n \in Run, ScannerStep(n) PROVE ListenInv'
  <2>1. /\ n = run /\ running /\ UNCHANGED <<run, stage, subscribed, preparing>>
        /\ Ends(n) \/ Proceeds(n)
    BY <1>0, <1>4, ScannerSteps, ScannerFrame
  <2>2. Preparers' = Preparers
    BY <2>1 DEF Preparers
  <2>3. CASE Ends(n)
    <3>1. CASE preparing = 0
      <4>1. Preparers = {}
        BY <1>0, <3>1, FS_EmptySet DEF CountInv
      <4> QED BY <2>2, <4>1 DEF ListenInv
    <3>2. CASE ready' = [ready EXCEPT ![n] = "error"]
      <4>1. \A q \in Preparers : subscribed[q] \in Run /\ subscribed[q] <= run
                                 /\ (subscribed[q] = n \/ ready[subscribed[q]] = "error")
        BY <1>0, <2>1 DEF ListenInv
      <4>2. \A q \in Preparers : ready'[subscribed[q]] = "error"
        BY <1>0, <3>2, <4>1
      <4> QED BY <2>1, <2>2, <4>1, <4>2 DEF ListenInv
    <3> QED BY <2>3, <3>1, <3>2 DEF Ends
  <2>4. CASE Proceeds(n)
    <3>1. running' /\ \A m \in Run : m # n => ready'[m] = ready[m]
      BY <1>0, <2>1, <2>4 DEF Proceeds
    <3> QED BY <1>0, <2>1, <2>2, <3>1 DEF ListenInv
  <2> QED BY <2>1, <2>3, <2>4
<1>5. CASE WorldStep
  BY <1>1, <1>5 DEF WorldStep, tracker, clients, Preparers
<1> QED BY <1>2, <1>3, <1>4, <1>5, StepKinds

LEMMA PendingInvStep == ASSUME IInv, [Next]_vars PROVE PendingInv'
<1>0. /\ TypeOK /\ RunInv /\ PendingInv /\ pending \subseteq Reg
      /\ DOMAIN stage = Reg /\ DOMAIN result = Reg
      /\ running => scanner[run].next \in Nat
  <2>1. TypeOK /\ RunInv /\ PendingInv /\ scanner \in Scanners
    BY DEF IInv, TypeOK, Scanners
  <2> QED BY <2>1 DEF TypeOK, RunInv, Scanners
<1>1. ASSUME NEW r \in Reg, Prepare(r) PROVE PendingInv'
  <2>1. /\ stage[r] = "new" /\ stage' = [stage EXCEPT ![r] = "preparing"]
        /\ UNCHANGED <<pending, result>>
        /\ running => UNCHANGED <<running, run, scanner>>
    BY <1>1 DEF Prepare
  <2>2. \A q \in Reg : q # r => stage'[q] = stage[q]
    BY <1>0, <2>1
  <2>3. stage'[r] = "preparing"
    BY <1>0, <2>1
  <2> QED BY <1>0, <2>1, <2>2, <2>3 DEF PendingInv
<1>2. ASSUME NEW r \in Reg, TaskStep(r), ~Prepare(r) PROVE PendingInv'
  <2>1. UNCHANGED <<run, running, scanner, result>>
    BY <1>2 DEF TaskStep, PrepareReturns, Register, DropRegistration, Observe, Abandon, tracker
  <2>2. \A q \in Reg : q # r => stage'[q] = stage[q]
    BY <1>0, <1>2 DEF TaskStep, PrepareReturns, Register, DropRegistration, Observe, Abandon
  <2>3. CASE PrepareReturns(r)
    <3>1. /\ stage[r] = "preparing" /\ stage'[r] \in {"prepared", "failed"} /\ pending' = pending
      BY <1>0, <2>3 DEF PrepareReturns
    <3> QED BY <1>0, <2>1, <2>2, <3>1 DEF PendingInv
  <2>4. CASE Register(r)
    <3>1. /\ stage[r] = "prepared"
          /\ \/ /\ running /\ ready[run] = "ok" /\ pending' = pending \cup {r} /\ stage'[r] = "registered"
             \/ /\ pending' = pending /\ stage'[r] = "refused"
      BY <1>0, <2>4 DEF Register
    <3>2. running /\ ready[run] = "ok" => scanner[run].next > 0
      BY <1>0 DEF RunInv
    <3> QED BY <1>0, <2>1, <2>2, <3>1, <3>2 DEF PendingInv
  <2>5. CASE DropRegistration(r)
    <3>1. /\ stage[r] \in {"registered", "refused"} /\ pending' = pending
          /\ stage'[r] = IF stage[r] = "registered" THEN "waiting" ELSE "failed"
      BY <1>0, <2>5 DEF DropRegistration
    <3> QED BY <1>0, <2>1, <2>2, <3>1 DEF PendingInv
  <2>6. CASE Observe(r)
    <3>1. /\ stage[r] = "waiting" /\ result[r] # "none" /\ stage'[r] \in {"done", "failed"} /\ pending' = pending
      BY <1>0, <2>6 DEF Observe, tracker
    <3> QED BY <1>0, <2>1, <2>2, <3>1 DEF PendingInv
  <2>7. CASE Abandon(r)
    <3>1. stage'[r] = "failed" /\ pending' = pending \ {r}
      BY <1>0, <2>7 DEF Abandon
    <3> QED BY <1>0, <2>1, <2>2, <3>1 DEF PendingInv
  <2> QED BY <1>2, <2>3, <2>4, <2>5, <2>6, <2>7 DEF TaskStep
<1>3. ASSUME NEW n \in Run, ScannerStep(n) PROVE PendingInv'
  <2>1. /\ n = run /\ running /\ UNCHANGED <<run, stage>>
        /\ Ends(n) \/ Proceeds(n)
    BY <1>0, <1>3, ScannerSteps, ScannerFrame
  <2>2. CASE Ends(n)
    BY <1>0, <2>1, <2>2 DEF Ends, PendingInv
  <2>3. CASE Proceeds(n)
    BY <1>0, <2>1, <2>3 DEF Proceeds, PendingInv
  <2> QED BY <2>1, <2>2, <2>3
<1>4. CASE WorldStep
  BY <1>0, <1>4 DEF WorldStep, tracker, clients, PendingInv
<1> QED BY <1>1, <1>2, <1>3, <1>4, StepKinds

LEMMA OnChainBlocks ==
    \A x : x \in OnChain <=> \E h \in DOMAIN chain : x \in chain[h]
BY DEF OnChain, ToSet

\* The block that is mined is the last of the chain.
LEMMA MinedBlock ==
    ASSUME TypeOK, Mine
    PROVE  \E block \in SUBSET (submitted \ OnChain) :
             /\ \A x \in block : expires_at[x] = 0 \/ Height + 1 < expires_at[x]
             /\ chain' \in Seq(SUBSET Tx) /\ Height \in Nat /\ Height' = Height + 1
             /\ DOMAIN chain = 1 .. Height /\ DOMAIN chain' = 1 .. Height + 1
             /\ \A h \in DOMAIN chain : chain'[h] = chain[h]
             /\ chain'[Height + 1] = block
<1>1. PICK block \in SUBSET (submitted \ OnChain) :
             /\ \A x \in block : expires_at[x] = 0 \/ Height + 1 < expires_at[x]
             /\ chain' = Append(chain, block)
  BY DEF Mine
<1>2. chain \in Seq(SUBSET Tx) /\ block \in SUBSET Tx
  BY DEF TypeOK
<1>3. /\ chain' \in Seq(SUBSET Tx) /\ Len(chain) \in Nat /\ Len(chain') = Len(chain) + 1
      /\ DOMAIN chain = 1 .. Len(chain) /\ DOMAIN chain' = 1 .. Len(chain) + 1
      /\ \A h \in DOMAIN chain : chain'[h] = chain[h]
      /\ chain'[Len(chain) + 1] = block
  BY <1>1, <1>2
<1> QED BY <1>1, <1>3 DEF Height

LEMMA ChainInvStep == ASSUME IInv, [Next]_vars PROVE ChainInv'
<1>0. TypeOK /\ ChainInv
  BY DEF IInv
<1>1. ASSUME submitted \subseteq submitted', UNCHANGED <<chain, expires_at>> PROVE ChainInv'
  BY <1>0, <1>1 DEF ChainInv
<1>2. ASSUME NEW r \in Reg, TaskStep(r) PROVE ChainInv'
  BY <1>1, <1>2, TaskFrame
<1>3. ASSUME NEW n \in Run, ScannerStep(n) PROVE ChainInv'
  BY <1>1, <1>3, ScannerFrame
<1>4. CASE WorldStep
  <2>1. CASE Mine
    <3>1. UNCHANGED <<submitted, expires_at>>
      BY <2>1 DEF Mine
    <3>2. PICK block \in SUBSET (submitted \ OnChain) :
             /\ \A x \in block : expires_at[x] = 0 \/ Height + 1 < expires_at[x]
             /\ Height \in Nat /\ DOMAIN chain = 1 .. Height /\ DOMAIN chain' = 1 .. Height + 1
             /\ \A h \in DOMAIN chain : chain'[h] = chain[h]
             /\ chain'[Height + 1] = block
      BY <1>0, <2>1, MinedBlock
    <3>3. \A h \in DOMAIN chain' : h \in DOMAIN chain \/ h = Height + 1
      BY <3>2
    <3> QED BY <1>0, <3>1, <3>2, <3>3 DEF ChainInv
  <2>2. CASE Rollback
    <3>1. /\ chain \in Seq(SUBSET Tx) /\ chain # <<>> /\ chain' = SubSeq(chain, 1, Len(chain) - 1)
          /\ UNCHANGED <<submitted, expires_at>>
      BY <1>0, <2>2 DEF TypeOK, Rollback, Front
    <3>2. \A h \in DOMAIN chain' : h \in DOMAIN chain /\ chain'[h] = chain[h]
      BY <3>1
    <3> QED BY <1>0, <3>1, <3>2 DEF ChainInv
  <2>3. ASSUME NEW r \in Reg, Submit(r) PROVE ChainInv'
    BY <1>1, <2>3 DEF Submit
  <2>4. CASE UNCHANGED world
    BY <1>1, <2>4 DEF world
  <2> QED BY <1>4, <2>1, <2>2, <2>3, <2>4 DEF WorldStep
<1> QED BY <1>2, <1>3, <1>4, StepKinds

LEMMA CursorInvStep == ASSUME IInv, [Next]_vars, rollbacks' = 0 PROVE CursorInv'
<1>0. /\ TypeOK /\ RunInv /\ PendingInv /\ ChainInv
      /\ pending \subseteq Reg /\ Height \in Nat /\ DOMAIN chain = 1 .. Height
      /\ scanner \in Scanners /\ \A n \in Run : scanner[n].next \in Nat /\ scanner[n].head \in Nat
      /\ running => run \in Run
  <2>1. TypeOK /\ RunInv /\ PendingInv /\ ChainInv /\ scanner \in Scanners
    BY DEF IInv, TypeOK, Scanners
  <2> QED BY <2>1, ChainHeight DEF TypeOK, RunInv, Scanners
<1>1. rollbacks = 0 /\ CursorInv
  <2>1. rollbacks \in Nat /\ ~Rollback
    BY <1>0 DEF TypeOK, Rollback
  <2>2. UNCHANGED rollbacks
    BY <2>1, StepKinds, TaskFrame, ScannerFrame DEF WorldStep, Mine, Submit, world
  <2> QED BY <2>2 DEF IInv
<1>2. ASSUME NEW r \in Reg, TaskStep(r) PROVE CursorInv'
  <2>0. UNCHANGED <<result, submitted, chain, expires_at>> /\ Height' = Height /\ OnChain' = OnChain
    BY <1>2, TaskFrame DEF Height, OnChain
  <2>1. ASSUME pending' \subseteq pending, UNCHANGED <<running, run, scanner, interest>> PROVE CursorInv'
    BY <1>0, <1>1, <2>0, <2>1 DEF CursorInv
  <2>2. CASE Prepare(r)
    <3>1. UNCHANGED <<pending, interest>>
      BY <2>2 DEF Prepare
    <3>2. CASE running
      <4>1. UNCHANGED <<running, run, scanner>>
        BY <2>2, <3>2 DEF Prepare
      <4> QED BY <2>1, <3>1, <4>1
    <3>3. CASE ~running
      <4>1. /\ run' \in Run /\ scanner[run'].next = 0
            /\ Moves(run', "check", scanner[run'].next, scanner[run'].head, scanner[run'].left)
        BY <1>0, <2>2, <3>3, StartMoves DEF Prepare
      <4>2. scanner'[run'].at = "check" /\ scanner'[run'].next = 0
        BY <4>1 DEF Moves
      <4>3. pending = {}
        BY <1>0, <3>3 DEF PendingInv
      <4> QED BY <1>0, <1>1, <2>0, <3>1, <4>2, <4>3 DEF CursorInv
    <3> QED BY <3>2, <3>3
  <2>3. CASE Register(r)
    <3>1. PICK h \in Tx \ submitted : \E needs \in BOOLEAN :
             \/ /\ pending' = pending \cup {r}
                /\ interest' = [interest EXCEPT ![r] = [hash |-> h, receipt |-> needs]]
             \/ UNCHANGED <<pending, interest>>
      BY <2>3 DEF Register
    <3>2. CASE UNCHANGED <<pending, interest>>
      BY <2>1, <2>3, <3>2 DEF Register
    <3>3. CASE /\ pending' = pending \cup {r}
               /\ \E needs \in BOOLEAN : interest' = [interest EXCEPT ![r] = [hash |-> h, receipt |-> needs]]
      <4>1. interest'[r].hash = h /\ \A q \in Reg : q # r => interest'[q] = interest[q]
        BY <1>0, <3>3 DEF TypeOK
      <4>2. \A i \in DOMAIN chain : h \notin chain[i]
        BY <1>0, <3>1 DEF ChainInv
      <4>3. result[r] = "none" /\ UNCHANGED <<running, run, scanner>>
        BY <1>0, <2>3 DEF PendingInv, Register
      <4> QED BY <1>0, <1>1, <2>0, <3>3, <4>1, <4>2, <4>3 DEF CursorInv
    <3> QED BY <3>1, <3>2, <3>3
  <2>4. CASE PrepareReturns(r) \/ DropRegistration(r) \/ Observe(r) \/ Abandon(r)
    <3>1. pending' \subseteq pending /\ UNCHANGED <<running, run, scanner, interest>>
      BY <2>4 DEF PrepareReturns, DropRegistration, Observe, Abandon, tracker
    <3> QED BY <2>1, <3>1
  <2> QED BY <1>2, <2>2, <2>3, <2>4 DEF TaskStep
<1>3. ASSUME NEW n \in Run, ScannerStep(n) PROVE CursorInv'
  <2>0. /\ n = run /\ running /\ scanner[n].at \notin {"new", "done"}
        /\ UNCHANGED <<run, interest, submitted, chain, expires_at>>
        /\ Height' = Height /\ OnChain' = OnChain
        /\ Ends(n) \/ Proceeds(n)
    BY <1>0, <1>3, ScannerSteps, ScannerFrame DEF Height, OnChain
  <2>1. /\ scanner[n].next \in Nat /\ scanner[n].next <= Height + 1
        /\ scanner[n].at \in Reading => /\ scanner[n].next <= scanner[n].head
                                       /\ scanner[n].head <= Height
        /\ \A r \in pending : \A h \in DOMAIN chain : interest[r].hash \in chain[h] =>
               scanner[n].next <= h /\ (scanner[n].at = "expire" => scanner[n].next # h)
    BY <1>0, <1>1, <2>0 DEF CursorInv, Reading
  <2>2. ASSUME NEW at, NEW next, NEW head, NEW left, Moves(n, at, next, head, left), next <= Height + 1,
               at \in Reading => next <= head /\ head <= Height, running' = running, pending' \subseteq pending,
               \A r \in pending' : \A h \in DOMAIN chain : interest[r].hash \in chain[h] =>
                   next <= h /\ (at = "expire" => next # h),
               \A r \in Reg : result'[r] = "expired" => result[r] = "expired"
        PROVE  CursorInv'
    <3>1. scanner'[n].at = at /\ scanner'[n].next = next /\ scanner'[n].head = head
      BY <2>2 DEF Moves
    <3> QED BY <1>1, <2>0, <2>2, <3>1 DEF CursorInv, Reading
  <2> DEFINE Stays(at) == Moves(n, at, scanner[n].next, scanner[n].head, scanner[n].left)
  <2>3. ASSUME NEW at \in {"check", "head", "block", "receipts"}, Goto(n, at),
               at \in Reading => scanner[n].at \in Reading, running' = running, pending' \subseteq pending,
               \A r \in Reg : result'[r] = "expired" => result[r] = "expired"
        PROVE  CursorInv'
    <3>1. Stays(at)
      BY <1>0, <2>3, GotoMoves
    <3> QED BY <2>1, <2>2, <2>3, <3>1
  <2>4. CASE Ends(n)
    <3>1. ~running' /\ pending' = {} /\ \A r \in Reg : result'[r] = "expired" => result[r] = "expired"
      BY <2>4 DEF Ends
    <3> QED BY <1>1, <2>0, <3>1 DEF CursorInv
  <2>5. CASE StopIfIdle(n)
    <3>1. CASE Goto(n, "head") /\ running' = running
      BY <2>3, <2>5, <3>1 DEF StopIfIdle, clients, Reading
    <3>2. CASE running' = FALSE
      BY <2>0, <2>4, <3>2 DEF Proceeds
    <3> QED BY <2>5, <3>1, <3>2 DEF StopIfIdle
  <2>6. CASE Baseline(n)
    <3>1. scanner[n].next = 0 /\ Moves(n, "check", Height + 1, scanner[n].head, scanner[n].left)
      BY <1>0, <2>6, BaselineMoves
    <3>2. pending = {}
      BY <1>0, <2>0, <3>1 DEF PendingInv
    <3>3. UNCHANGED <<pending, result, running>>
      BY <2>6 DEF Baseline, clients
    <3> QED BY <1>0, <2>2, <3>1, <3>2, <3>3 DEF Reading
  <2>7. CASE ReadHead(n)
    <3>1. PICK number \in Nat :
              /\ number <= Height + 1 /\ (scanner[n].next <= Height + 1 => number = scanner[n].next)
              /\ Moves(n, IF number > Height THEN "check" ELSE "block", number, Height, BlocksPerScan)
      BY <1>0, <2>7, ReadHeadMoves
    <3>2. number = scanner[n].next
      BY <2>1, <3>1
    <3>3. UNCHANGED <<pending, result, running>>
      BY <2>7 DEF ReadHead, tracker, clients
    <3> DEFINE at == IF number > Height THEN "check" ELSE "block"
    <3>4. at # "expire" /\ (at \in Reading => number <= Height)
      BY <1>0 DEF Reading
    <3> HIDE DEF at
    <3>5. Moves(n, at, number, Height, BlocksPerScan)
      BY <3>1 DEF at
    <3> QED BY <1>0, <2>1, <2>2, <3>1, <3>2, <3>3, <3>4, <3>5
  <2>8. CASE FetchBlock(n)
    <3> DEFINE found == Interested(n)
               needing == {r \in found : interest[r].receipt}
               rs == found \ needing
    <3>1. /\ scanner[n].at = "block" /\ Resolve(rs, "included") /\ running' = running
          /\ \/ needing = {} /\ Goto(n, "expire")
             \/ Goto(n, "receipts")
      BY <2>8 DEF FetchBlock, At
    <3>2. rs \in SUBSET pending /\ (needing = {} => rs = found)
      BY DEF Interested
    <3> HIDE DEF rs, needing
    <3>3. /\ pending' = pending \ rs
          /\ \A r \in Reg : result'[r] = "expired" => result[r] = "expired"
      BY <3>1, <3>2, Resolved
    <3>4. CASE Goto(n, "receipts")
      BY <2>3, <3>1, <3>3, <3>4 DEF Reading
    <3>5. CASE needing = {} /\ Goto(n, "expire")
      <4>1. Stays("expire")
        BY <1>0, <3>5, GotoMoves
      <4>2. \A r \in pending' : interest[r].hash \notin chain[scanner[n].next]
        BY <3>2, <3>3, <3>5 DEF Interested
      <4> QED BY <2>1, <2>2, <3>1, <3>3, <4>1, <4>2 DEF Reading
    <3> QED BY <3>1, <3>4, <3>5
  <2>9. CASE FetchReceipts(n)
    <3>1. /\ scanner[n].at = "receipts" /\ Resolve(Interested(n), "receipt") /\ running' = running
          /\ Goto(n, "expire") /\ Interested(n) \in SUBSET pending
      BY <2>9 DEF FetchReceipts, At, Interested
    <3>2. /\ pending' = pending \ Interested(n)
          /\ \A r \in Reg : result'[r] = "expired" => result[r] = "expired"
      BY <3>1, Resolved
    <3>3. Stays("expire")
      BY <1>0, <3>1, GotoMoves
    <3>4. \A r \in pending' : interest[r].hash \notin chain[scanner[n].next]
      BY <3>2 DEF Interested
    <3> QED BY <2>1, <2>2, <3>1, <3>2, <3>3, <3>4 DEF Reading
  <2>10. CASE BlockMissing(n) \/ ScanFails(n)
    <3>1. Goto(n, "check") /\ UNCHANGED <<running, pending, result>>
      BY <2>10 DEF BlockMissing, ScanFails, tracker, clients
    <3> QED BY <2>3, <3>1 DEF Reading
  <2>11. CASE Expire(n)
    <3> DEFINE at == IF scanner[n].next < scanner[n].head /\ scanner[n].left > 1 THEN "block" ELSE "check"
    <3>1. scanner[n].at = "expire" /\ Moves(n, at, scanner[n].next + 1, scanner[n].head, scanner[n].left - 1)
      BY <1>0, <2>11, AdvanceMoves
    <3>2. scanner[n].next <= scanner[n].head /\ scanner[n].head <= Height
      BY <2>1, <3>1 DEF Reading
    <3>3. at # "expire" /\ (at \in Reading => scanner[n].next + 1 <= scanner[n].head)
      BY <1>0, <2>1, <3>2 DEF Reading
    <3>4. /\ Resolve(Overdue(scanner[n].next), "expired") /\ running' = running
          /\ Overdue(scanner[n].next) \in SUBSET pending
      BY <2>11 DEF Expire, Overdue
    <3>5. /\ pending' = pending \ Overdue(scanner[n].next)
          /\ \A r \in Reg : \/ result'[r] = result[r]
                            \/ r \in pending /\ r \in Overdue(scanner[n].next)
      BY <3>4, Resolved
    <3> HIDE DEF at
    <3>6. scanner'[n].at = at /\ scanner'[n].next = scanner[n].next + 1 /\ scanner'[n].head = scanner[n].head
      BY <3>1 DEF Moves
    <3>7. \A r \in pending' : \A h \in DOMAIN chain : interest[r].hash \in chain[h] =>
              scanner[n].next + 1 <= h
      BY <1>0, <2>1, <3>1, <3>5
    <3>8. \A r \in Reg : result'[r] = "expired" =>
              expires_at[interest[r].hash] \in 1 .. Height /\ interest[r].hash \notin OnChain
      <4> SUFFICES ASSUME NEW r \in Reg, result'[r] = "expired"
                   PROVE  expires_at[interest[r].hash] \in 1 .. Height /\ interest[r].hash \notin OnChain
        OBVIOUS
      <4>1. CASE result'[r] = result[r]
        BY <1>1, <4>1 DEF CursorInv
      <4>2. CASE r \in pending /\ r \in Overdue(scanner[n].next)
        <5>1. expires_at[interest[r].hash] \in 1 .. scanner[n].next
          BY <4>2 DEF Overdue
        <5>2. scanner[n].next <= Height
          BY <1>0, <2>0, <3>2
        <5>3. \A h \in DOMAIN chain : interest[r].hash \notin chain[h]
          BY <1>0, <2>1, <4>2, <5>1 DEF ChainInv
        <5> QED BY <1>0, <2>1, <5>1, <5>2, <5>3, OnChainBlocks
      <4> QED BY <3>5, <4>1, <4>2
    <3> QED BY <1>0, <2>0, <2>1, <3>2, <3>3, <3>4, <3>6, <3>7, <3>8 DEF CursorInv, Reading
  <2>12. CASE Unsupported(n)
    <3>1. running' = FALSE
      BY <2>12 DEF Unsupported
    <3> QED BY <2>0, <2>4, <3>1 DEF Proceeds
  <2> QED BY <1>3, <2>5, <2>6, <2>7, <2>8, <2>9, <2>10, <2>11, <2>12 DEF ScannerStep
<1>4. CASE WorldStep
  <2>1. CASE Mine
    <3>1. UNCHANGED <<submitted, expires_at, running, run, scanner, pending, interest, result>>
      BY <2>1 DEF Mine, tracker, clients
    <3>2. PICK block \in SUBSET (submitted \ OnChain) :
             /\ \A x \in block : expires_at[x] = 0 \/ Height + 1 < expires_at[x]
             /\ Height' = Height + 1 /\ DOMAIN chain' = 1 .. Height + 1
             /\ \A h \in DOMAIN chain : chain'[h] = chain[h]
             /\ chain'[Height + 1] = block
      BY <1>0, <2>1, MinedBlock
    <3>3. \A h \in DOMAIN chain' : h \in DOMAIN chain \/ h = Height + 1
      BY <1>0, <3>2
    <3>4. pending # {} => running /\ run \in Run
      BY <1>0 DEF PendingInv
    <3>5. running => /\ scanner[run].next \in Nat /\ scanner[run].head \in Nat
                     /\ scanner[run].next <= Height + 1
                     /\ scanner[run].at \in Reading => scanner[run].next <= scanner[run].head
                                                       /\ scanner[run].head <= Height
      BY <1>0, <1>1 DEF CursorInv, Reading
    <3>6. \A r \in pending : \A h \in DOMAIN chain' : interest[r].hash \in chain'[h] =>
              scanner[run].next <= h /\ (scanner[run].at = "expire" => scanner[run].next # h)
      <4> SUFFICES ASSUME NEW r \in pending, NEW h \in DOMAIN chain', interest[r].hash \in chain'[h]
                   PROVE  scanner[run].next <= h /\ (scanner[run].at = "expire" => scanner[run].next # h)
        OBVIOUS
      <4>1. CASE h \in DOMAIN chain
        BY <1>1, <3>2, <4>1 DEF CursorInv
      <4>2. CASE h = Height + 1
        BY <1>0, <3>4, <3>5, <4>2 DEF Reading
      <4> QED BY <3>3, <4>1, <4>2
    <3>7. \A r \in Reg : result[r] = "expired" =>
              /\ expires_at[interest[r].hash] \in 1 .. Height + 1
              /\ \A h \in DOMAIN chain' : interest[r].hash \notin chain'[h]
      <4> SUFFICES ASSUME NEW r \in Reg, result[r] = "expired"
                   PROVE  /\ expires_at[interest[r].hash] \in 1 .. Height + 1
                          /\ \A h \in DOMAIN chain' : interest[r].hash \notin chain'[h]
        OBVIOUS
      <4>1. expires_at[interest[r].hash] \in 1 .. Height /\ interest[r].hash \notin OnChain
        BY <1>1 DEF CursorInv
      <4>2. interest[r].hash \notin block
        BY <1>0, <3>2, <4>1
      <4> QED BY <1>0, <3>2, <3>3, <4>1, <4>2, OnChainBlocks
    <3>8. OnChain' = UNION {chain'[h] : h \in DOMAIN chain'}
      BY DEF OnChain, ToSet
    <3>9. \A r \in Reg : result[r] = "expired" => interest[r].hash \notin OnChain'
      BY <3>7, <3>8
    <3> QED BY <1>0, <3>1, <3>2, <3>5, <3>6, <3>7, <3>9 DEF CursorInv, Reading
  <2>2. CASE ~Mine
    <3>1. UNCHANGED <<chain, expires_at, running, run, scanner, pending, interest, result>>
      BY <1>0, <1>1, <1>4, <2>2 DEF WorldStep, Rollback, Submit, tracker, clients, world, TypeOK
    <3> QED BY <1>1, <3>1 DEF CursorInv, Height, OnChain
  <2> QED BY <2>1, <2>2
<1> QED BY <1>2, <1>3, <1>4, StepKinds

LEMMA TypeOKStep == ASSUME IInv, [Next]_vars, CountInv' PROVE TypeOK'
<1>0. TypeOK /\ RunInv /\ run \in Nat /\ scanner \in Scanners
  BY DEF IInv, TypeOK, Scanners
<1>1. preparing' \in Nat
  BY FS_CardinalityType DEF CountInv
<1> DEFINE World == /\ submitted \in SUBSET Tx /\ chain \in Seq(SUBSET Tx)
                    /\ expires_at \in [Tx -> Expiries] /\ rollbacks \in 0 .. MaxRollbacks
           Tasks == /\ stage \in [Reg -> {"new", "preparing", "prepared", "registered", "refused", "waiting"}
                                            \cup Gone]
                    /\ subscribed \in [Reg -> 0 .. MaxRuns]
                    /\ interest \in [Reg -> [hash : Tx, receipt : BOOLEAN]]
           Results == result \in [Reg -> {"none", "included", "receipt", "expired", "failed"}]
           Tracker == /\ run \in 0 .. MaxRuns /\ ready \in [Run -> {"none", "ok", "error"}]
                      /\ pending \in SUBSET Reg
           Flag == running \in BOOLEAN
<1>2. World /\ Tasks /\ Results /\ Tracker /\ Flag
  BY <1>0 DEF TypeOK
<1>3. ASSUME World', Tasks', Results', Tracker', Flag', scanner' \in Scanners PROVE TypeOK'
  BY <1>1, <1>3 DEF TypeOK, Scanners
<1>4. ASSUME NEW r \in Reg, TaskStep(r) PROVE TypeOK'
  <2>1. World' /\ Results'
    BY <1>2, <1>4, TaskFrame
  <2>2. CASE Prepare(r)
    <3>1. Tracker' /\ Flag' /\ scanner' \in Scanners /\ run' \in 0 .. MaxRuns
      <4>1. pending' = pending
        BY <2>2 DEF Prepare
      <4>2. CASE running
        <5>1. UNCHANGED <<running, run, ready, scanner>>
          BY <2>2, <4>2 DEF Prepare
        <5> QED BY <1>0, <1>2, <4>1, <5>1
      <4>3. CASE ~running
        <5>1. /\ running' = TRUE /\ run' \in Run /\ ready' = [ready EXCEPT ![run'] = "none"]
              /\ Moves(run', "check", scanner[run'].next, scanner[run'].head, scanner[run'].left)
          BY <1>0, <2>2, <4>3, StartMoves DEF Prepare, Start
        <5>2. run' \in 0 .. MaxRuns /\ scanner' \in Scanners
          BY <5>1 DEF Run, Moves
        <5>3. ready' \in [Run -> {"none", "ok", "error"}]
          BY <1>2, <5>1
        <5> QED BY <1>2, <4>1, <5>1, <5>2, <5>3
      <4> QED BY <4>2, <4>3
    <3>2. /\ stage' = [stage EXCEPT ![r] = "preparing"] /\ subscribed' = [subscribed EXCEPT ![r] = run']
          /\ interest' = interest
      BY <2>2 DEF Prepare
    <3>3. Tasks'
      BY <1>2, <3>1, <3>2
    <3> QED BY <1>3, <2>1, <3>1, <3>3
  <2>3. CASE ~Prepare(r)
    <3>1. UNCHANGED <<running, run, ready, scanner, subscribed>>
      BY <1>4, <2>3 DEF TaskStep, PrepareReturns, Register, DropRegistration, Observe, Abandon, tracker
    <3>2. pending' \in SUBSET Reg
      BY <1>2, <1>4, <2>3 DEF TaskStep, PrepareReturns, Register, DropRegistration, Observe, Abandon, tracker
    <3>3. \E s \in {"prepared", "registered", "refused", "waiting", "done", "failed"} :
              stage' = [stage EXCEPT ![r] = s]
      BY <1>4, <2>3 DEF TaskStep, PrepareReturns, Register, DropRegistration, Observe, Abandon
    <3>4. stage' \in [Reg -> {"new", "preparing", "prepared", "registered", "refused", "waiting"} \cup Gone]
      BY <1>2, <3>3 DEF Gone
    <3>5. \/ interest' = interest
          \/ \E i \in [hash : Tx, receipt : BOOLEAN] : interest' = [interest EXCEPT ![r] = i]
      <4>1. CASE Register(r)
        <5>1. PICK h \in Tx, needs \in BOOLEAN :
                \/ interest' = interest
                \/ interest' = [interest EXCEPT ![r] = [hash |-> h, receipt |-> needs]]
          BY <4>1 DEF Register
        <5> QED BY <5>1
      <4>2. CASE ~Register(r)
        BY <1>4, <2>3, <4>2 DEF TaskStep, PrepareReturns, DropRegistration, Observe, Abandon
      <4> QED BY <4>1, <4>2
    <3>6. interest' \in [Reg -> [hash : Tx, receipt : BOOLEAN]]
      BY <1>2, <3>5
    <3>7. Tasks'
      BY <1>2, <3>1, <3>4, <3>6
    <3> QED BY <1>0, <1>2, <1>3, <2>1, <3>1, <3>2, <3>7
  <2> QED BY <2>2, <2>3
<1>5. ASSUME NEW n \in Run, ScannerStep(n) PROVE TypeOK'
  <2>1. Ends(n) \/ Proceeds(n)
    BY <1>0, <1>5, ScannerSteps
  <2>2. World' /\ Tasks' /\ run' = run
    BY <1>2, <1>5, ScannerFrame
  <2>3. scanner' \in Scanners
    BY <2>1 DEF Ends, Proceeds, Moves
  <2>4. pending' \in SUBSET Reg /\ ready' \in [Run -> {"none", "ok", "error"}]
    BY <1>2, <2>1 DEF Ends, Proceeds
  <2>5. Flag'
    BY <1>2, <2>1 DEF Ends, Proceeds
  <2>6. Results'
    <3>1. \A rs, v : v \in {"included", "receipt", "expired", "failed"} /\ Resolve(rs, v) => Results'
      BY <1>2 DEF Resolve
    <3>2. UNCHANGED result => Results'
      BY <1>2
    <3> QED BY <1>5, <3>1, <3>2 DEF ScannerStep, StopIfIdle, Baseline, ReadHead, FetchBlock, FetchReceipts,
            BlockMissing, Expire, ScanFails, Unsupported, tracker, clients
  <2> QED BY <1>2, <1>3, <2>2, <2>3, <2>4, <2>5, <2>6
<1>6. CASE WorldStep
  <2>1. Tasks' /\ Results' /\ Tracker' /\ Flag' /\ scanner' \in Scanners
    BY <1>0, <1>2, <1>6 DEF WorldStep, tracker, clients
  <2>2. CASE Mine
    <3>1. chain' \in Seq(SUBSET Tx)
      BY <1>0, <2>2, MinedBlock
    <3>2. World'
      BY <1>2, <2>2, <3>1 DEF Mine
    <3> QED BY <1>3, <2>1, <3>2
  <2>3. CASE Rollback
    <3>1. chain' = SubSeq(chain, 1, Len(chain) - 1) /\ chain # <<>> /\ UNCHANGED <<submitted, expires_at>>
      BY <2>3 DEF Rollback, Front
    <3>2. rollbacks' \in 0 .. MaxRollbacks
      BY <1>2, <2>3, ReceiptTrackerAssumption DEF Rollback
    <3>3. World'
      BY <1>2, <3>1, <3>2
    <3> QED BY <1>3, <2>1, <3>3
  <2>4. ASSUME NEW r \in Reg, Submit(r) PROVE TypeOK'
    <3>1. interest[r].hash \in Tx /\ submitted' = submitted \cup {interest[r].hash}
      BY <1>2, <2>4 DEF Submit
    <3>2. World'
      BY <1>2, <2>4, <3>1 DEF Submit
    <3> QED BY <1>3, <2>1, <3>2
  <2>5. CASE UNCHANGED world
    <3>1. World'
      BY <1>2, <2>5 DEF world
    <3> QED BY <1>3, <2>1, <3>1
  <2> QED BY <1>6, <2>2, <2>3, <2>4, <2>5 DEF WorldStep
<1> QED BY <1>4, <1>5, <1>6, StepKinds

LEMMA IInvInit == Init => IInv
<1> SUFFICES ASSUME Init PROVE IInv
  OBVIOUS
<1>1. TypeOK
  <2>1. (CHOOSE h \in Tx : TRUE) \in Tx
    BY ReceiptTrackerAssumption
  <2>2. interest \in [Reg -> [hash : Tx, receipt : BOOLEAN]]
    BY <2>1 DEF Init
  <2>3. /\ scanner \in Scanners /\ ready \in [Run -> {"none", "ok", "error"}] /\ run \in 0 .. MaxRuns
        /\ chain \in Seq(SUBSET Tx) /\ rollbacks \in 0 .. MaxRollbacks
    BY ReceiptTrackerAssumption DEF Init, Scanners
  <2>4. subscribed \in [Reg -> 0 .. MaxRuns]
    BY ReceiptTrackerAssumption DEF Init
  <2> QED BY <2>2, <2>3, <2>4 DEF Init, TypeOK, Scanners
<1>2. Preparers = {} /\ pending = {} /\ chain = <<>> /\ ~running /\ run = 0
  BY DEF Init, Preparers
<1>3. CountInv
  BY <1>2, FS_EmptySet DEF Init, CountInv
<1>4. RunInv
  <2>1. \A n \in Run : n > 0 /\ scanner[n].at = "new" /\ scanner[n].next = 0
    BY DEF Init, Run
  <2> QED BY <1>2, <2>1, ReceiptTrackerAssumption DEF RunInv, Run
<1>5. ListenInv /\ PendingInv
  BY <1>2 DEF Init, ListenInv, PendingInv
<1>6. ChainInv
  BY <1>2 DEF ChainInv
<1>7. CursorInv
  BY <1>2 DEF Init, CursorInv
<1> QED BY <1>1, <1>3, <1>4, <1>5, <1>6, <1>7 DEF IInv

\* Every reachable state satisfies the invariant.
THEOREM TrackerInductive == Spec => []IInv
<1>1. IInv /\ [Next]_vars => IInv'
  BY TypeOKStep, CountInvStep, RunInvStep, ListenInvStep, PendingInvStep, ChainInvStep, CursorInvStep DEF IInv
<1> QED BY IInvInit, <1>1, PTL DEF Spec

-----------------------------------------------------------------------------
(* The properties                                                          *)

\* TypeOK: among others, the counter of preparing tasks never wraps.
THEOREM TypeCorrect == Spec => []TypeOK
<1>1. IInv => TypeOK
  BY DEF IInv
<1> QED BY <1>1, TrackerInductive, PTL

\* ScannersServe: one scanner at a time, and one behind everybody who waits
\* for a starting head or has it.
THEOREM ScannersAreThere == Spec => []ScannersServe
<1>1. ASSUME IInv PROVE ScannersServe
  <2>1. /\ TypeOK /\ RunInv /\ ListenInv /\ run \in Nat /\ DOMAIN stage = Reg
    BY <1>1 DEF IInv, TypeOK
  <2>2. OneScanner
    <3>1. \A n \in Run : scanner[n].at \notin {"new", "done"} <=> running /\ n = run
      BY <2>1, AtWork DEF RunInv
    <3>2. running => run \in Run
      BY <2>1 DEF RunInv
    <3> QED BY <3>1, <3>2 DEF OneScanner, Live
  <2>3. PreparedIsWatched
    BY <2>1 DEF PreparedIsWatched, ListenInv, Preparers
  <2>4. StartingHeadIsComing
    <3> SUFFICES ASSUME NEW r \in Reg, stage[r] = "preparing", ready[subscribed[r]] = "none"
                 PROVE  subscribed[r] \in Live
      BY DEF StartingHeadIsComing
    <3>1. subscribed[r] = run /\ running
      BY <2>1 DEF ListenInv, Preparers
    <3> QED BY <2>2, <3>1 DEF OneScanner
  <2> QED BY <2>2, <2>3, <2>4 DEF ScannersServe
<1> QED BY <1>1, TrackerInductive, PTL

\* InclusionsAreKept: while the chain loses no block, the scanner has still to
\* read each block somebody waits for, and "expired" is final.
THEOREM InclusionsKept == Spec => []InclusionsAreKept
<1>1. ASSUME IInv PROVE InclusionsAreKept
  <2> SUFFICES ASSUME rollbacks = 0 PROVE NoMissedInclusion /\ ExpiredNeverIncluded
    BY DEF InclusionsAreKept
  <2>1. TypeOK /\ RunInv /\ PendingInv /\ CursorInv
    BY <1>1 DEF IInv
  <2>2. NoMissedInclusion
    <3> SUFFICES ASSUME NEW r \in pending, NEW h \in DOMAIN chain, interest[r].hash \in chain[h]
                 PROVE  \E n \in Live : scanner[n].next \in 1 .. h
      BY DEF NoMissedInclusion
    <3>1. run \in Run /\ run \in Live /\ scanner[run].next > 0
      BY <2>1 DEF PendingInv, RunInv, Live
    <3>2. scanner \in Scanners /\ DOMAIN chain = 1 .. Height /\ Height \in Nat
      BY <2>1, ChainHeight DEF TypeOK, Scanners
    <3>3. scanner[run].next \in 1 .. h
      BY <2>1, <3>1, <3>2 DEF CursorInv, Scanners
    <3> QED BY <3>1, <3>3
  <2>3. ExpiredNeverIncluded
    BY <2>1 DEF CursorInv, ExpiredNeverIncluded
  <2> QED BY <2>2, <2>3
<1> QED BY <1>1, TrackerInductive, PTL
=============================================================================
