------------------------------ MODULE SetupOrder ------------------------------
(***************************************************************************)
(* The order in which a batch of setup transactions can be submitted       *)
(* (txgen-core/src/setup.rs): receipts that a transaction declares it      *)
(* depends on, next to the order of its scheduling keys.  A batch is a     *)
(* sequence of [id, depends_on, keys].                                     *)
(***************************************************************************)
EXTENDS Integers, Sequences, FiniteSets, FiniteSetsExt, SequencesExt

Ids(txs) == {txs[i].id : i \in DOMAIN txs}

FirstWithKey(txs, i, key) ==  \* fault
    LET earlier == {j \in 1 .. i - 1 : key \in txs[j].keys}
    IN  IF earlier = {} THEN {} ELSE {Min(earlier)}

\* previous.insert(key, index): only the last earlier transaction of a key.
LastWithKey(txs, i, key) ==
    LET earlier == {j \in 1 .. i - 1 : key \in txs[j].keys}
    IN  IF earlier = {} THEN {} ELSE {Max(earlier)}

BatchPredecessors(txs, i) ==
    {j \in DOMAIN txs : txs[j].id \in txs[i].depends_on}
      \cup UNION {LastWithKey(txs, i, key) : key \in txs[i].keys}

\* Kahn's algorithm over a queue: s.order has been submitted, s.ready waits.
KahnStep(txs, s) ==
    LET done == ToSet(s.order) \cup {Head(s.ready)}
        freed == {i \in DOMAIN txs : /\ Head(s.ready) \in BatchPredecessors(txs, i)
                                     /\ BatchPredecessors(txs, i) \subseteq done}
    IN  [order |-> Append(s.order, Head(s.ready)),
         ready |-> Tail(s.ready) \o SetToSortSeq(freed, <)]

\* The queue is never a choice: the loop goes from one state to one state.
Kahn(txs) ==
    LET start == SetToSortSeq({i \in DOMAIN txs : BatchPredecessors(txs, i) = {}}, <)
        after[n \in 0 .. Len(txs)] ==
          IF n = 0 THEN {[order |-> <<>>, ready |-> start]}
          ELSE {IF s.ready = <<>> THEN s ELSE KahnStep(txs, s) : s \in after[n - 1]}
    IN  CHOOSE order \in {s.order : s \in after[Len(txs)]} : TRUE

\* The result is a permutation of the batch, or <<>> if it is refused.
SetupSubmissionOrder(txs) ==
    LET order == Kahn(txs)
    IN  IF /\ Cardinality(Ids(txs)) = Len(txs)
           /\ \A i \in DOMAIN txs : txs[i].depends_on \subseteq Ids(txs)
           /\ Len(order) = Len(txs)
          THEN order ELSE <<>>
-----------------------------------------------------------------------------
(* What the order is for, without the algorithm                            *)

MustPrecede(txs) ==
    {p \in (DOMAIN txs) \X (DOMAIN txs) :
       \/ txs[p[1]].id \in txs[p[2]].depends_on
       \/ p[1] < p[2] /\ txs[p[1]].keys \cap txs[p[2]].keys # {}}

IsSubmissionOrder(txs, order) ==
    /\ Len(order) = Len(txs) /\ ToSet(order) = DOMAIN txs
    /\ \A p \in MustPrecede(txs) :
         \E m, n \in DOMAIN order : m < n /\ order[m] = p[1] /\ order[n] = p[2]

CanBeOrdered(txs) ==
    /\ Cardinality(Ids(txs)) = Len(txs)
    /\ \A i \in DOMAIN txs : txs[i].depends_on \subseteq Ids(txs)
    /\ LET before == MustPrecede(txs)
       IN  \A S \in SUBSET DOMAIN txs \ {{}} : \E j \in S : \A i \in S : <<i, j>> \notin before
=============================================================================
