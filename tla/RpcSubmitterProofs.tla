------------------------- MODULE RpcSubmitterProofs --------------------------
(***************************************************************************)
(* Proofs about RpcSubmitter, for any number of calls, keys and permits.   *)
(*                                                                         *)
(* The key invariants are not inductive: that no two holders share a key   *)
(* rests on active_keys being exactly what the holders hold, and that on   *)
(* what a ticket still owns at each stage.  IInv states it all.            *)
(***************************************************************************)
EXTENDS RpcSubmitter, FiniteSetTheorems, TLAPS

Queued == {"trying", "parked"}
Holding == {"granted", "permitted", "rpc", "releasing", "dropping", "observing"}

\* The queue is what the stages say it is, and ids are handed out in order.
QueueInv ==
    /\ pending = {t \in Tx : stage[t] \in Queued}
    /\ \A t \in Tx : id[t] < next_id
    /\ \A t \in Tx : stage[t] = "idle" => id[t] = 0

\* What a ticket owns: never the same key twice, and no submission key after
\* release_submission_keys.
TicketInv ==
    /\ \A t \in Tx : submission[t] \cap inclusion[t] = {}
    /\ \A t \in Tx : stage[t] \in {"dropping", "observing"} => submission[t] = {}

IInv ==
    /\ TypeOK
    /\ QueueInv
    /\ TicketInv
    /\ ActiveKeysAreOwned
    /\ KeyExclusion
    /\ NoOvertaking
-----------------------------------------------------------------------------
(* Lemmas on the two ways a step changes a stage.                          *)

\* notify_waiters moves nobody into or out of the queue or the holders.
LEMMA NotifyKeepsGroups ==
    ASSUME NEW st \in [Tx -> Stage]
    PROVE  /\ NotifyWaiters(st) \in [Tx -> Stage]
           /\ \A u \in Tx : NotifyWaiters(st)[u] \in Queued <=> st[u] \in Queued
           /\ \A u \in Tx : \A s \in Stage \ Queued : NotifyWaiters(st)[u] = s <=> st[u] = s
BY DEF NotifyWaiters, Stage, Queued

\* A step that puts call t in stage s, notifying or not, leaves every other
\* call in the same group of stages.
LEMMA GotoStage ==
    ASSUME TypeOK, NEW t \in Tx, NEW s \in Stage,
           stage' = Goto(t, s) \/ stage' = NotifyWaiters(Goto(t, s))
    PROVE  /\ stage' \in [Tx -> Stage]
           /\ stage'[t] \in Queued <=> s \in Queued
           /\ \A x \in Stage \ Queued : stage'[t] = x <=> s = x
           /\ \A u \in Tx \ {t} : /\ stage'[u] \in Queued <=> stage[u] \in Queued
                                  /\ \A x \in Stage \ Queued : stage'[u] = x <=> stage[u] = x
<1>1. Goto(t, s) \in [Tx -> Stage]
  BY DEF Goto, TypeOK
<1>2. Goto(t, s)[t] = s /\ \A u \in Tx \ {t} : Goto(t, s)[u] = stage[u]
  BY DEF Goto, TypeOK
<1>3. CASE stage' = Goto(t, s)
  BY <1>1, <1>2, <1>3
<1>4. CASE stage' = NotifyWaiters(Goto(t, s))
  BY <1>1, <1>2, <1>4, NotifyKeepsGroups
<1> QED BY <1>3, <1>4
-----------------------------------------------------------------------------
\* Type correctness, for any number of concurrent calls and any keys.
LEMMA TypeOKInit == Init => TypeOK
BY ConstantsAssumption DEF Init, TypeOK, Stage, Result

\* Every step of every call keeps the state well typed; permits stay natural
\* numbers because acquire_permit waits for a free one.
LEMMA TypeOKStep == ASSUME TypeOK, [Next]_vars PROVE TypeOK'
<1> USE DEF TypeOK
<1>1. ASSUME NEW t \in Tx, Enqueue(t) PROVE TypeOK'
  <2> PICK choice \in KeyChoices :
        LET inc == choice[2]
            sub == choice[1] \ inc
        IN  \/ /\ sub \cup inc = {}
               /\ stage' = Goto(t, "settled")
               /\ result' = [result EXCEPT ![t] = "before_send"]
               /\ UNCHANGED <<ordering, tickets, permits>>
            \/ /\ sub \cup inc # {}
               /\ submission' = [submission EXCEPT ![t] = sub]
               /\ inclusion' = [inclusion EXCEPT ![t] = inc]
               /\ id' = [id EXCEPT ![t] = next_id]
               /\ next_id' = next_id + 1
               /\ pending' = pending \cup {t}
               /\ stage' = NotifyWaiters(Goto(t, "trying"))
               /\ UNCHANGED <<active_keys, permits, result>>
    BY <1>1 DEF Enqueue
  <2>1. choice[1] \in SUBSET Key /\ choice[2] \in SUBSET Key
    BY ConstantsAssumption
  <2>2. stage' \in [Tx -> Stage]
    <3>1. "settled" \in Stage /\ "trying" \in Stage
      BY DEF Stage
    <3> QED BY <3>1, GotoStage
  <2> QED BY <2>1, <2>2 DEF Result, ordering, tickets
<1>2. ASSUME NEW t \in Tx, Acquire(t) PROVE TypeOK'
  BY <1>2, GotoStage DEF Acquire, Keys, tickets, Stage
<1>3. ASSUME NEW t \in Tx, Park(t) PROVE TypeOK'
  BY <1>3, GotoStage DEF Park, ordering, tickets, Stage
<1>4. ASSUME NEW t \in Tx, CancelPending(t) PROVE TypeOK'
  BY <1>4, GotoStage DEF CancelPending, tickets, Stage, Result
<1>5. ASSUME NEW t \in Tx, AcquirePermit(t) PROVE TypeOK'
  BY <1>5, GotoStage DEF AcquirePermit, ordering, tickets, Stage
<1>6. ASSUME NEW t \in Tx, FailBeforeDispatch(t) PROVE TypeOK'
  BY <1>6, GotoStage DEF FailBeforeDispatch, ordering, tickets, Stage, Result
<1>7. ASSUME NEW t \in Tx, Dispatch(t) PROVE TypeOK'
  BY <1>7, GotoStage DEF Dispatch, ordering, tickets, Stage
<1>8. ASSUME NEW t \in Tx, RpcReturns(t) PROVE TypeOK'
  BY <1>8, GotoStage DEF RpcReturns, ordering, tickets, Stage
<1>9. ASSUME NEW t \in Tx, ReleaseSubmissionKeys(t) PROVE TypeOK'
  BY <1>9, GotoStage DEF ReleaseSubmissionKeys, Stage
<1>10. ASSUME NEW t \in Tx, DropTicket(t) PROVE TypeOK'
  BY <1>10, GotoStage DEF DropTicket, Stage
<1>11. ASSUME NEW t \in Tx, EndObservation(t) PROVE TypeOK'
  BY <1>11, GotoStage DEF EndObservation, Stage
<1>12. CASE UNCHANGED vars
  BY <1>12 DEF vars, ordering, tickets
<1> QED
  BY <1>1, <1>2, <1>3, <1>4, <1>5, <1>6, <1>7, <1>8, <1>9, <1>10, <1>11, <1>12
  DEF Next

\* Every reachable state is well typed.
THEOREM TypeCorrect == Spec => []TypeOK
<1>1. TypeOK /\ [Next]_vars => TypeOK'
  BY TypeOKStep
<1> QED BY TypeOKInit, <1>1, PTL DEF Spec
-----------------------------------------------------------------------------
\* Lemmas on IInv for the kinds of step an action can be.

LEMMA IInvInit == Init => IInv
BY TypeOKInit DEF Init, IInv, QueueInv, TicketInv, ActiveKeysAreOwned, KeyExclusion,
   NoOvertaking, Holders, Keys, Queued

\* A call that goes from one holding stage to another, keeping its keys.
LEMMA KeepHolding ==
    ASSUME IInv, TypeOK', NEW t \in Tx, NEW s \in Holding,
           stage[t] \in Holding,
           stage' = Goto(t, s) \/ stage' = NotifyWaiters(Goto(t, s)),
           s \in {"dropping", "observing"} => submission[t] = {},
           UNCHANGED <<ordering, tickets>>
    PROVE  IInv'
<1> USE DEF IInv, ordering, tickets, Holding, Queued
<1>1. s \in Stage \ Queued
  BY DEF Stage
<1>2. /\ \A u \in Tx : stage'[u] \in Queued <=> stage[u] \in Queued
      /\ \A u \in Tx \ {t} : \A x \in Stage \ Queued : stage'[u] = x <=> stage[u] = x
      /\ stage'[t] = s
  BY <1>1, GotoStage DEF Stage
<1>3. Holders' = Holders
  BY <1>1, <1>2 DEF Holders, Stage
<1>4. QueueInv'
  BY <1>1, <1>2 DEF QueueInv, Stage
<1>5. TicketInv'
  BY <1>1, <1>2 DEF TicketInv, Stage
<1> QED
  BY <1>3, <1>4, <1>5 DEF ActiveKeysAreOwned, KeyExclusion, NoOvertaking, Keys

\* A holder that gives some of its keys back, and stops holding only when it
\* keeps none.
LEMMA GiveBack ==
    ASSUME IInv, TypeOK', NEW t \in Holders,
           Keys(t)' \subseteq Keys(t),
           active_keys' = active_keys \ (Keys(t) \ Keys(t)'),
           Holders' = Holders \/ (Holders' = Holders \ {t} /\ Keys(t)' = {}),
           \A u \in Tx \ {t} : Keys(u)' = Keys(u),
           UNCHANGED <<id, pending>>
    PROVE  ActiveKeysAreOwned' /\ KeyExclusion' /\ NoOvertaking'
<1> USE DEF IInv
<1>0. Holders \subseteq Tx /\ t \in Tx /\ Holders' \subseteq Holders
  BY DEF Holders
<1>1. \A u \in Tx : Keys(u)' \subseteq Keys(u)
  BY <1>0
<1>2. KeyExclusion'
  BY <1>0, <1>1 DEF KeyExclusion
<1>3. NoOvertaking'
  BY <1>0, <1>1 DEF NoOvertaking, TypeOK
<1>4. ActiveKeysAreOwned'
  <2> DEFINE ks == Keys(t) \ Keys(t)'
  <2>1. \A u \in Holders \ {t} : Keys(u) \cap ks = {} /\ Keys(u)' = Keys(u)
    BY <1>0 DEF KeyExclusion
  <2>2. ASSUME NEW k \in active_keys' PROVE \E u \in Holders' : k \in Keys(u)'
    <3>1. PICK u \in Holders : k \in Keys(u) /\ k \notin ks
      BY <2>2 DEF ActiveKeysAreOwned
    <3> QED BY <3>1, <2>1, <1>0
  <2>3. ASSUME NEW u \in Holders', NEW k \in Keys(u)' PROVE k \in active_keys'
    BY <2>1, <2>3, <1>0, <1>1 DEF ActiveKeysAreOwned
  <2> QED BY <2>2, <2>3 DEF ActiveKeysAreOwned
<1> QED BY <1>2, <1>3, <1>4

\* What Holders and the invariants on the queue become when call t goes to s.
LEMMA MoveStage ==
    ASSUME IInv, TypeOK', NEW t \in Tx, NEW s \in Stage,
           stage' = Goto(t, s) \/ stage' = NotifyWaiters(Goto(t, s))
    PROVE  /\ s \in Holding => Holders' = Holders \cup {t}
           /\ s \notin Holding => Holders' = Holders \ {t}
           /\ s \in Queued => {u \in Tx : stage'[u] \in Queued}
                                = {u \in Tx : stage[u] \in Queued} \cup {t}
           /\ s \notin Queued => {u \in Tx : stage'[u] \in Queued}
                                = {u \in Tx : stage[u] \in Queued} \ {t}
           /\ \A u \in Tx : stage'[u] = "idle" => stage[u] = "idle" \/ u = t
           /\ s # "idle" => stage'[t] # "idle"
           /\ \A u \in Tx \ {t} : stage'[u] \in {"dropping", "observing"}
                                    => stage[u] \in {"dropping", "observing"}
           /\ stage'[t] \in {"dropping", "observing"} => s \in {"dropping", "observing"}
<1>1. /\ stage'[t] \in Queued <=> s \in Queued
      /\ \A x \in Stage \ Queued : stage'[t] = x <=> s = x
      /\ \A u \in Tx \ {t} : /\ stage'[u] \in Queued <=> stage[u] \in Queued
                             /\ \A x \in Stage \ Queued : stage'[u] = x <=> stage[u] = x
  BY GotoStage DEF IInv
<1>2. Holding \subseteq Stage \ Queued /\ {"idle", "dropping", "observing"} \subseteq Stage \ Queued
  BY DEF Holding, Stage, Queued
<1>3. /\ stage'[t] \in Holding <=> s \in Holding
      /\ \A u \in Tx \ {t} : stage'[u] \in Holding <=> stage[u] \in Holding
  BY <1>1, <1>2
<1>4. Holders = {u \in Tx : stage[u] \in Holding} /\ Holders' = {u \in Tx : stage'[u] \in Holding}
  BY DEF Holders, Holding
<1>5. /\ s \in Holding => Holders' = Holders \cup {t}
      /\ s \notin Holding => Holders' = Holders \ {t}
  BY <1>3, <1>4
<1> QED BY <1>1, <1>2, <1>5

\* A call that stays among the holders, or among the others.
LEMMA SameHolders ==
    ASSUME IInv, TypeOK', NEW t \in Tx, NEW s \in Stage,
           t \in Holders <=> s \in Holding,
           stage' = Goto(t, s) \/ stage' = NotifyWaiters(Goto(t, s))
    PROVE  Holders' = Holders
<1>1. CASE s \in Holding
  <2>1. Holders' = Holders \cup {t}
    BY <1>1, MoveStage
  <2> QED BY <1>1, <2>1
<1>2. CASE s \notin Holding
  <2>1. Holders' = Holders \ {t}
    BY <1>2, MoveStage
  <2> QED BY <1>2, <2>1
<1> QED BY <1>1, <1>2

\* The three invariants on keys survive a step after which fewer transactions
\* wait and nothing else about keys has changed.
LEMMA QueueShrinks ==
    ASSUME IInv, Holders' = Holders, pending' \subseteq pending,
           UNCHANGED <<id, active_keys, submission, inclusion>>
    PROVE  ActiveKeysAreOwned' /\ KeyExclusion' /\ NoOvertaking'
BY DEF IInv, ActiveKeysAreOwned, KeyExclusion, NoOvertaking, Keys

\* A call without any key is refused before it is queued.
LEMMA RefuseCall ==
    ASSUME IInv, TypeOK', NEW t \in Tx, stage[t] = "idle",
           stage' = Goto(t, "settled"), UNCHANGED <<ordering, tickets>>
    PROVE  IInv'
<1> USE DEF IInv
<1>1. "settled" \in Stage /\ "settled" \notin Holding /\ "settled" \notin Queued
  BY DEF Stage, Holding, Queued
<1>2. t \notin Holders
  BY DEF Holders
<1>3. Holders' = Holders /\ QueueInv' /\ TicketInv'
  BY <1>1, <1>2, MoveStage DEF QueueInv, TicketInv, Queued, ordering, tickets
<1> QED BY <1>3, QueueShrinks DEF ordering, tickets

\* A call with keys goes to the back of the queue.
LEMMA QueueCall ==
    ASSUME IInv, TypeOK', NEW t \in Tx, stage[t] = "idle",
           NEW sub \in SUBSET Key, NEW inc \in SUBSET Key, sub \cap inc = {},
           submission' = [submission EXCEPT ![t] = sub],
           inclusion' = [inclusion EXCEPT ![t] = inc],
           id' = [id EXCEPT ![t] = next_id],
           next_id' = next_id + 1,
           pending' = pending \cup {t},
           stage' = NotifyWaiters(Goto(t, "trying")),
           UNCHANGED active_keys
    PROVE  IInv'
<1> USE DEF IInv
<1>1. "trying" \in Stage /\ "trying" \notin Holding /\ "trying" \in Queued
  BY DEF Stage, Holding, Queued
<1>2. t \notin Holders /\ t \notin pending /\ Holders \subseteq Tx
  BY DEF Holders, QueueInv, Queued
<1>3. Holders' = Holders
  BY <1>1, <1>2, MoveStage
<1>4. QueueInv'
  <2>1. pending' = {u \in Tx : stage'[u] \in Queued}
    BY <1>1, MoveStage DEF QueueInv
  <2>2. \A u \in Tx : id'[u] < next_id'
    BY DEF QueueInv, TypeOK
  <2>3. \A u \in Tx : stage'[u] = "idle" => id'[u] = 0
    BY <1>1, MoveStage DEF QueueInv, TypeOK
  <2> QED BY <2>1, <2>2, <2>3 DEF QueueInv
<1>5. TicketInv'
  <2>1. \A u \in Tx : submission'[u] \cap inclusion'[u] = {}
    BY DEF TicketInv, TypeOK
  <2>2. \A u \in Tx : stage'[u] \in {"dropping", "observing"} => submission'[u] = {}
    BY <1>1, MoveStage DEF TicketInv, TypeOK
  <2> QED BY <2>1, <2>2 DEF TicketInv
<1>6. \A u \in Tx \ {t} : Keys(u)' = Keys(u) /\ id'[u] = id[u]
  BY DEF Keys, TypeOK
<1>7. ActiveKeysAreOwned' /\ KeyExclusion'
  BY <1>2, <1>3, <1>6 DEF ActiveKeysAreOwned, KeyExclusion
<1>8. NoOvertaking'
  <2>1. \A u \in Holders : ~(id'[t] < id'[u])
    BY <1>2, <1>6 DEF QueueInv, TypeOK
  <2> QED BY <1>2, <1>3, <1>6, <2>1 DEF NoOvertaking, TypeOK
<1> QED BY <1>3, <1>4, <1>5, <1>7, <1>8

\* Every step of every call preserves the inductive invariant.
LEMMA IInvStep == ASSUME IInv, [Next]_vars PROVE IInv'
<1> USE DEF IInv
<1>0. TypeOK'
  BY TypeOKStep
<1>1. ASSUME NEW t \in Tx, Enqueue(t) PROVE IInv'
  <2> PICK choice \in KeyChoices :
        LET inc == choice[2]
            sub == choice[1] \ inc
        IN  \/ /\ sub \cup inc = {}
               /\ stage' = Goto(t, "settled")
               /\ UNCHANGED <<ordering, tickets>>
            \/ /\ sub \cup inc # {}
               /\ submission' = [submission EXCEPT ![t] = sub]
               /\ inclusion' = [inclusion EXCEPT ![t] = inc]
               /\ id' = [id EXCEPT ![t] = next_id]
               /\ next_id' = next_id + 1
               /\ pending' = pending \cup {t}
               /\ stage' = NotifyWaiters(Goto(t, "trying"))
               /\ UNCHANGED active_keys
    BY <1>1 DEF Enqueue
  <2>1. stage[t] = "idle"
    BY <1>1 DEF Enqueue
  <2>2. choice[1] \ choice[2] \in SUBSET Key /\ choice[2] \in SUBSET Key
    BY ConstantsAssumption
  <2>3. (choice[1] \ choice[2]) \cap choice[2] = {}
    OBVIOUS
  <2> HIDE DEF IInv
  <2> QED BY <1>0, <2>1, <2>2, <2>3, RefuseCall, QueueCall
<1>2. ASSUME NEW t \in Tx, Acquire(t) PROVE IInv'
  <2>0. /\ t \in pending /\ t \notin Holders /\ Holders \subseteq Tx
        /\ Keys(t) \cap active_keys = {}
        /\ \A u \in pending : id[u] < id[t] => Keys(t) \cap Keys(u) = {}
    BY <1>2 DEF Acquire, NextReady, Unblocked, Holders
  <2>1. "granted" \in Stage /\ "granted" \in Holding /\ "granted" \notin Queued
    BY DEF Stage, Holding, Queued
  <2>2. Holders' = Holders \cup {t} /\ QueueInv' /\ TicketInv'
    BY <1>0, <1>2, <2>1, MoveStage DEF Acquire, QueueInv, TicketInv, tickets
  <2>3. /\ \A u \in Tx : Keys(u)' = Keys(u)
        /\ pending' = pending \ {t} /\ id' = id /\ active_keys' = active_keys \cup Keys(t)
    BY <1>2 DEF Acquire, tickets, Keys
  <2>4. ActiveKeysAreOwned'
    BY <2>0, <2>2, <2>3 DEF ActiveKeysAreOwned
  <2>5. \A u \in Holders : Keys(t) \cap Keys(u) = {}
    BY <2>0 DEF ActiveKeysAreOwned
  <2>6. KeyExclusion'
    BY <2>0, <2>2, <2>3, <2>5 DEF KeyExclusion
  <2>7. NoOvertaking'
    BY <2>0, <2>2, <2>3 DEF NoOvertaking, TypeOK
  <2> QED BY <1>0, <2>2, <2>4, <2>6, <2>7
<1>3. ASSUME NEW t \in Tx, Park(t) PROVE IInv'
  <2>1. "parked" \in Stage /\ "parked" \notin Holding /\ "parked" \in Queued
    BY DEF Stage, Holding, Queued
  <2>2. t \notin Holders /\ t \in pending
    BY <1>3 DEF Park, Holders, QueueInv, Queued
  <2>3. Holders' = Holders /\ QueueInv' /\ TicketInv'
    BY <1>0, <1>3, <2>1, <2>2, MoveStage DEF Park, QueueInv, TicketInv, ordering, tickets
  <2> QED BY <1>0, <1>3, <2>3, QueueShrinks DEF Park, ordering, tickets
<1>4. ASSUME NEW t \in Tx, CancelPending(t) PROVE IInv'
  <2>1. "settled" \in Stage /\ "settled" \notin Holding /\ "settled" \notin Queued
    BY DEF Stage, Holding, Queued
  <2>2. t \notin Holders
    BY <1>4 DEF CancelPending, Holders
  <2>3. Holders' = Holders /\ QueueInv' /\ TicketInv'
    BY <1>0, <1>4, <2>1, <2>2, MoveStage DEF CancelPending, QueueInv, TicketInv, tickets
  <2> QED BY <1>0, <1>4, <2>3, QueueShrinks DEF CancelPending, tickets
<1>5. ASSUME NEW t \in Tx, AcquirePermit(t) PROVE IInv'
  BY <1>0, <1>5, KeepHolding DEF AcquirePermit, Holding
<1>6. ASSUME NEW t \in Tx, FailBeforeDispatch(t) PROVE IInv'
  BY <1>0, <1>6, KeepHolding DEF FailBeforeDispatch, Holding
<1>7. ASSUME NEW t \in Tx, Dispatch(t) PROVE IInv'
  BY <1>0, <1>7, KeepHolding DEF Dispatch, Holding
<1>8. ASSUME NEW t \in Tx, RpcReturns(t) PROVE IInv'
  BY <1>0, <1>8, KeepHolding DEF RpcReturns, Holding
<1>9. ASSUME NEW t \in Tx, ReleaseSubmissionKeys(t) PROVE IInv'
  <2>1. "dropping" \in Stage /\ "dropping" \in Holding /\ "dropping" \notin Queued
    BY DEF Stage, Holding, Queued
  <2>2. t \in Holders /\ t \notin pending
    BY <1>9 DEF ReleaseSubmissionKeys, Holders, QueueInv, Queued
  <2>3. Holders' = Holders /\ QueueInv' /\ TicketInv'
    BY SMTT(60), <1>0, <1>9, <2>1, <2>2, MoveStage
    DEF ReleaseSubmissionKeys, QueueInv, TicketInv, TypeOK
  <2>4. /\ submission[t] \subseteq Keys(t)
        /\ Keys(t)' = Keys(t) \ submission[t]
        /\ \A u \in Tx \ {t} : Keys(u)' = Keys(u)
    BY <1>9 DEF ReleaseSubmissionKeys, Keys, TicketInv, TypeOK
  <2>5. ActiveKeysAreOwned' /\ KeyExclusion' /\ NoOvertaking'
    <3>1. /\ Keys(t)' \subseteq Keys(t)
          /\ active_keys' = active_keys \ (Keys(t) \ Keys(t)')
          /\ UNCHANGED <<id, pending>>
      BY <1>9, <2>4 DEF ReleaseSubmissionKeys
    <3> HIDE DEF IInv
    <3> QED BY <1>0, <2>2, <2>3, <2>4, <3>1, GiveBack
  <2> QED BY <1>0, <2>3, <2>5
<1>10. ASSUME NEW t \in Tx, DropTicket(t) PROVE IInv'
  <2>1. CASE result[t] = "accepted" /\ inclusion[t] # {}
    BY <1>0, <1>10, <2>1, KeepHolding
    DEF DropTicket, Holding, TicketInv, ordering, tickets
  <2>2. CASE ~(result[t] = "accepted" /\ inclusion[t] # {})
    <3>1. "settled" \in Stage /\ "settled" \notin Holding /\ "settled" \notin Queued
      BY DEF Stage, Holding, Queued
    <3>2. t \in Holders /\ t \notin pending
      BY <1>10 DEF DropTicket, Holders, QueueInv, Queued
    <3>3. Holders' = Holders \ {t} /\ QueueInv' /\ TicketInv'
      BY <1>0, <1>10, <2>2, <3>1, <3>2, MoveStage
      DEF DropTicket, QueueInv, TicketInv, TypeOK
    <3>4. /\ Keys(t) = inclusion[t] /\ Keys(t)' = {}
          /\ \A u \in Tx \ {t} : Keys(u)' = Keys(u)
      BY <1>10, <2>2 DEF DropTicket, Keys, TicketInv, TypeOK
    <3> QED BY <1>0, <1>10, <2>2, <3>2, <3>3, <3>4, GiveBack DEF DropTicket
  <2> QED BY <2>1, <2>2
<1>11. ASSUME NEW t \in Tx, EndObservation(t) PROVE IInv'
  <2>1. "settled" \in Stage /\ "settled" \notin Holding /\ "settled" \notin Queued
    BY DEF Stage, Holding, Queued
  <2>2. t \in Holders /\ t \notin pending
    BY <1>11 DEF EndObservation, Holders, QueueInv, Queued
  <2>3. Holders' = Holders \ {t} /\ QueueInv' /\ TicketInv'
    BY <1>0, <1>11, <2>1, <2>2, MoveStage DEF EndObservation, QueueInv, TicketInv, TypeOK
  <2>4. /\ Keys(t) = inclusion[t] /\ Keys(t)' = {}
        /\ \A u \in Tx \ {t} : Keys(u)' = Keys(u)
    BY <1>11 DEF EndObservation, Keys, TicketInv, TypeOK
  <2> QED BY <1>0, <1>11, <2>2, <2>3, <2>4, GiveBack DEF EndObservation
<1>12. CASE UNCHANGED vars
  BY <1>0, <1>12 DEF vars, ordering, tickets, QueueInv, TicketInv, ActiveKeysAreOwned,
     KeyExclusion, NoOvertaking, Holders, Keys
<1> QED
  BY <1>1, <1>2, <1>3, <1>4, <1>5, <1>6, <1>7, <1>8, <1>9, <1>10, <1>11, <1>12
  DEF Next

LEMMA Inductive == Spec => []IInv
<1>1. IInv /\ [Next]_vars => IInv'
  BY IInvStep
<1> QED BY IInvInit, <1>1, PTL DEF Spec

\* Two holders never share a key, whatever the interleaving of calls, deadlines,
\* cancelled callers and RPC outcomes.
THEOREM KeysAreExclusive == Spec => []KeyExclusion
BY Inductive, PTL DEF IInv

\* No key leaks and none is freed under its holder.
THEOREM NoKeyLeaks == Spec => []ActiveKeysAreOwned
BY Inductive, PTL DEF IInv

\* Nobody dispatches ahead of an earlier call that still waits for a shared key.
THEOREM ArrivalOrder == Spec => []NoOvertaking
BY Inductive, PTL DEF IInv
-----------------------------------------------------------------------------
(* RpcSubmitter implements KeyOrdering.                                    *)

KeysOf == [t \in Tx |-> Keys(t)]

\* A step that moves one call among the holding stages, or wakes parked calls,
\* and leaves queue and keys alone, is invisible to KeyOrdering.
LEMMA SilentStep ==
    ASSUME UNCHANGED <<ordering, tickets>>, Holders' = Holders
    PROVE  UNCHANGED Ordering!vars
<1>1. KeysOf' = KeysOf
  BY DEF KeysOf, Keys, tickets
<1> QED BY <1>1 DEF Ordering!vars, KeysOf, ordering

\* Giving keys back is the Release of KeyOrdering.
LEMMA ReleaseStep ==
    ASSUME NEW t \in Holders,
           Keys(t)' \subseteq Keys(t), Keys(t) \subseteq Key,
           \A u \in Tx \ {t} : Keys(u)' = Keys(u),
           Holders' = Holders \/ (Holders' = Holders \ {t} /\ Keys(t)' = {}),
           UNCHANGED <<id, pending>>
    PROVE  Ordering!Next
<1>1. t \in Tx
  BY DEF Holders
<1>2. KeysOf' = [KeysOf EXCEPT ![t] = @ \ (Keys(t) \ Keys(t)')]
  <2>1. \A u \in Tx : KeysOf'[u] = (IF u = t THEN KeysOf[t] \ (Keys(t) \ Keys(t)') ELSE KeysOf[u])
    BY <1>1 DEF KeysOf
  <2> QED BY <1>1, <2>1 DEF KeysOf
<1>3. Keys(t) \ Keys(t)' \in SUBSET KeysOf[t]
  BY <1>1 DEF KeysOf
<1>4. KeysOf'[t] = Keys(t)'
  BY <1>1 DEF KeysOf
<1>5. Ordering!Release(t)
  BY <1>1, <1>2, <1>3, <1>4 DEF Ordering!Release, KeysOf
<1> QED BY <1>1, <1>5 DEF Ordering!Next

\* The initial state and every step of RpcSubmitter map to one of KeyOrdering.
LEMMA RefinesInit == Init => Ordering!Init
BY DEF Init, Ordering!Init, Holders, Keys

LEMMA RefinesStep == ASSUME IInv, IInv', [Next]_vars PROVE [Ordering!Next]_(Ordering!vars)
<1> USE DEF IInv
<1>1. ASSUME NEW t \in Tx, Enqueue(t) PROVE [Ordering!Next]_(Ordering!vars)
  <2> PICK choice \in KeyChoices :
        LET inc == choice[2]
            sub == choice[1] \ inc
        IN  \/ /\ sub \cup inc = {}
               /\ stage' = Goto(t, "settled")
               /\ UNCHANGED <<ordering, tickets>>
            \/ /\ sub \cup inc # {}
               /\ submission' = [submission EXCEPT ![t] = sub]
               /\ inclusion' = [inclusion EXCEPT ![t] = inc]
               /\ id' = [id EXCEPT ![t] = next_id]
               /\ next_id' = next_id + 1
               /\ pending' = pending \cup {t}
               /\ stage' = NotifyWaiters(Goto(t, "trying"))
               /\ UNCHANGED active_keys
    BY <1>1 DEF Enqueue
  <2>1. Holders' = Holders
    <3>1. /\ {"settled", "trying"} \subseteq Stage
          /\ "settled" \notin Holding /\ "trying" \notin Holding
      BY DEF Stage, Holding
    <3>2. t \notin Holders
      BY <1>1 DEF Enqueue, Holders
    <3>3. stage' = Goto(t, "settled") \/ stage' = NotifyWaiters(Goto(t, "trying"))
      OBVIOUS
    <3> QED BY <3>1, <3>2, <3>3, SameHolders
  <2>2. CASE UNCHANGED <<ordering, tickets>>
    BY <2>1, <2>2, SilentStep
  <2>3. CASE /\ submission' = [submission EXCEPT ![t] = choice[1] \ choice[2]]
             /\ inclusion' = [inclusion EXCEPT ![t] = choice[2]]
             /\ id' = [id EXCEPT ![t] = next_id]
             /\ next_id' = next_id + 1
             /\ pending' = pending \cup {t}
    <3>1. id[t] = 0
      BY <1>1 DEF Enqueue, QueueInv
    <3> DEFINE ks == (choice[1] \ choice[2]) \cup choice[2]
    <3>2. ks \in SUBSET Key
      BY ConstantsAssumption
    <3>3. KeysOf' = [KeysOf EXCEPT ![t] = ks]
      <4>1. \A u \in Tx : Keys(u)' = (IF u = t THEN ks ELSE Keys(u))
        BY <2>3 DEF Keys, TypeOK
      <4> QED BY <4>1 DEF KeysOf
    <3>4. /\ \A u \in Tx : id[u] < id'[t]
          /\ id' = [id EXCEPT ![t] = id'[t]]
      BY <2>3 DEF QueueInv, TypeOK
    <3>5. Ordering!Arrive(t)
      BY <2>1, <2>3, <3>1, <3>2, <3>3, <3>4 DEF Ordering!Arrive, KeysOf
    <3> QED BY <3>5 DEF Ordering!Next
  <2> QED BY <2>2, <2>3
<1>2. ASSUME NEW t \in Tx, Acquire(t) PROVE [Ordering!Next]_(Ordering!vars)
  <2>0. /\ t \in pending
        /\ Keys(t) \cap active_keys = {}
        /\ \A u \in pending : id[u] < id[t] => Keys(t) \cap Keys(u) = {}
        /\ pending' = pending \ {t}
        /\ stage' = Goto(t, "granted")
        /\ UNCHANGED <<id, tickets>>
    BY <1>2 DEF Acquire, NextReady, Unblocked
  <2>1. "granted" \in Stage /\ "granted" \in Holding
    BY DEF Stage, Holding
  <2>2. Holders' = Holders \cup {t}
    BY <2>0, <2>1, MoveStage
  <2>3. KeysOf' = KeysOf /\ Holders \subseteq Tx /\ pending \subseteq Tx
    BY <2>0 DEF KeysOf, Keys, tickets, Holders, TypeOK
  <2>4. \A u \in Holders : KeysOf[t] \cap KeysOf[u] = {}
    BY <2>0, <2>3 DEF ActiveKeysAreOwned, KeysOf
  <2>5. \A u \in pending : id[u] < id[t] => KeysOf[t] \cap KeysOf[u] = {}
    BY <2>0, <2>3 DEF KeysOf
  <2>6. Ordering!Grant(t)
    BY <2>0, <2>2, <2>3, <2>4, <2>5 DEF Ordering!Grant, Ordering!Eligible, KeysOf
  <2> QED BY <2>6 DEF Ordering!Next
<1>3. ASSUME NEW t \in Tx, Park(t) PROVE [Ordering!Next]_(Ordering!vars)
  <2>1. "parked" \in Stage /\ "parked" \notin Holding /\ t \notin Holders
    BY <1>3 DEF Stage, Holding, Park, Holders
  <2> QED BY <1>3, <2>1, SameHolders, SilentStep DEF Park
<1>4. ASSUME NEW t \in Tx, CancelPending(t) PROVE [Ordering!Next]_(Ordering!vars)
  <2>1. "settled" \in Stage /\ "settled" \notin Holding /\ t \notin Holders
    BY <1>4 DEF Stage, Holding, CancelPending, Holders
  <2>2. Holders' = Holders
    BY <1>4, <2>1, SameHolders DEF CancelPending
  <2>3. t \in pending /\ pending' = pending \ {t} /\ KeysOf' = KeysOf
    BY <1>4 DEF CancelPending, QueueInv, Queued, KeysOf, Keys, tickets
  <2>4. Ordering!Withdraw
    BY <1>4, <2>2, <2>3 DEF CancelPending, Ordering!Withdraw, KeysOf
  <2> QED BY <2>4 DEF Ordering!Next
<1>5. ASSUME NEW t \in Tx,
             AcquirePermit(t) \/ FailBeforeDispatch(t) \/ Dispatch(t) \/ RpcReturns(t)
      PROVE [Ordering!Next]_(Ordering!vars)
  <2>1. PICK s \in Holding : stage' = Goto(t, s)
    BY <1>5 DEF AcquirePermit, FailBeforeDispatch, Dispatch, RpcReturns, Holding
  <2>2. t \in Holders /\ UNCHANGED <<ordering, tickets>>
    BY <1>5 DEF AcquirePermit, FailBeforeDispatch, Dispatch, RpcReturns, Holders
  <2>3. Holding \subseteq Stage
    BY DEF Holding, Stage
  <2>4. Holders' = Holders
    BY <2>1, <2>2, <2>3, SameHolders
  <2> QED BY <2>2, <2>4, SilentStep
<1>6. ASSUME NEW t \in Tx, ReleaseSubmissionKeys(t) PROVE [Ordering!Next]_(Ordering!vars)
  <2>1. "dropping" \in Stage /\ "dropping" \in Holding /\ t \in Holders
    BY <1>6 DEF Stage, Holding, ReleaseSubmissionKeys, Holders
  <2>2. Holders' = Holders
    BY <1>6, <2>1, SameHolders DEF ReleaseSubmissionKeys
  <2>3. /\ Keys(t)' \subseteq Keys(t) /\ Keys(t) \subseteq Key
        /\ \A u \in Tx \ {t} : Keys(u)' = Keys(u)
        /\ UNCHANGED <<id, pending>>
    BY <1>6 DEF ReleaseSubmissionKeys, Keys, TypeOK
  <2> QED BY <2>1, <2>2, <2>3, ReleaseStep
<1>7. ASSUME NEW t \in Tx, DropTicket(t) PROVE [Ordering!Next]_(Ordering!vars)
  <2>1. /\ {"settled", "observing"} \subseteq Stage
        /\ "settled" \notin Holding /\ "observing" \in Holding /\ t \in Holders
    BY <1>7 DEF Stage, Holding, DropTicket, Holders
  <2>2. CASE result[t] = "accepted" /\ inclusion[t] # {}
    <3>1. UNCHANGED <<ordering, tickets>>
      BY <1>7, <2>2 DEF DropTicket, ordering, tickets
    <3>2. Holders' = Holders
      BY <1>7, <2>1, <2>2, SameHolders DEF DropTicket
    <3> QED BY <3>1, <3>2, SilentStep
  <2>3. CASE ~(result[t] = "accepted" /\ inclusion[t] # {})
    <3>1. Holders' = Holders \ {t}
      BY <1>7, <2>1, <2>3, MoveStage DEF DropTicket
    <3>2. /\ Keys(t)' = {} /\ Keys(t) \subseteq Key
          /\ \A u \in Tx \ {t} : Keys(u)' = Keys(u)
          /\ UNCHANGED <<id, pending>>
      BY <1>7, <2>3 DEF DropTicket, Keys, TypeOK, TicketInv
    <3> QED BY <2>1, <3>1, <3>2, ReleaseStep
  <2> QED BY <2>2, <2>3
<1>8. ASSUME NEW t \in Tx, EndObservation(t) PROVE [Ordering!Next]_(Ordering!vars)
  <2>1. "settled" \in Stage /\ "settled" \notin Holding /\ t \in Holders
    BY <1>8 DEF Stage, Holding, EndObservation, Holders
  <2>2. Holders' = Holders \ {t}
    BY <1>8, <2>1, MoveStage DEF EndObservation
  <2>3. /\ Keys(t)' = {} /\ Keys(t) \subseteq Key
        /\ \A u \in Tx \ {t} : Keys(u)' = Keys(u)
        /\ UNCHANGED <<id, pending>>
    BY <1>8 DEF EndObservation, Keys, TypeOK, TicketInv
  <2> QED BY <2>1, <2>2, <2>3, ReleaseStep
<1>9. CASE UNCHANGED vars
  <2>1. Holders' = Holders /\ UNCHANGED <<ordering, tickets>>
    BY <1>9 DEF vars, Holders
  <2> QED BY <2>1, SilentStep
<1> QED
  BY <1>1, <1>2, <1>3, <1>4, <1>5, <1>6, <1>7, <1>8, <1>9 DEF Next

\* The submitter keeps the promise of KeyOrdering: keys are granted in arrival
\* order, one holder at a time, and given up only by their holder.
THEOREM SubmitterImplementsKeyOrdering == Spec => ImplementsKeyOrdering
<1>1. IInv /\ IInv' /\ [Next]_vars => [Ordering!Next]_(Ordering!vars)
  BY RefinesStep
<1> QED BY RefinesInit, Inductive, <1>1, PTL DEF Spec, ImplementsKeyOrdering, Ordering!Spec
-----------------------------------------------------------------------------
(* Permits                                                                 *)

PermitHolders == {t \in Tx : stage[t] \in {"permitted", "rpc"}}

\* Which calls hold a permit after call t has gone to stage s.
LEMMA MovePermit ==
    ASSUME TypeOK, NEW t \in Tx, NEW s \in Stage,
           stage' = Goto(t, s) \/ stage' = NotifyWaiters(Goto(t, s))
    PROVE  /\ s \in {"permitted", "rpc"} => PermitHolders' = PermitHolders \cup {t}
           /\ s \notin {"permitted", "rpc"} => PermitHolders' = PermitHolders \ {t}
<1>1. {"permitted", "rpc"} \subseteq Stage \ Queued
  BY DEF Stage, Queued
<1>2. /\ stage'[t] \in {"permitted", "rpc"} <=> s \in {"permitted", "rpc"}
      /\ \A u \in Tx \ {t} : stage'[u] \in {"permitted", "rpc"}
                               <=> stage[u] \in {"permitted", "rpc"}
  BY <1>1, GotoStage
<1> QED BY <1>2 DEF PermitHolders

\* A step that neither takes nor returns a permit.
LEMMA PermitUntouched ==
    ASSUME TypeOK, PermitsAreOwned, NEW t \in Tx, NEW s \in Stage,
           stage' = Goto(t, s) \/ stage' = NotifyWaiters(Goto(t, s)),
           t \in PermitHolders <=> s \in {"permitted", "rpc"},
           permits' = permits
    PROVE  PermitsAreOwned'
<1>1. PermitHolders' = PermitHolders
  <2>1. CASE s \in {"permitted", "rpc"}
    <3>1. PermitHolders' = PermitHolders \cup {t}
      BY <2>1, MovePermit
    <3> QED BY <2>1, <3>1
  <2>2. CASE s \notin {"permitted", "rpc"}
    <3>1. PermitHolders' = PermitHolders \ {t}
      BY <2>2, MovePermit
    <3> QED BY <2>2, <3>1
  <2> QED BY <2>1, <2>2
<1> QED BY <1>1 DEF PermitsAreOwned, PermitHolders

\* Every permit that is taken comes back.
LEMMA PermitStep ==
    ASSUME IsFiniteSet(Tx), TypeOK, PermitsAreOwned, [Next]_vars
    PROVE  PermitsAreOwned'
<1>0. PermitHolders \subseteq Tx /\ IsFiniteSet(PermitHolders)
  BY FS_Subset DEF PermitHolders
<1>1. ASSUME NEW t \in Tx, NEW s \in Stage \ {"permitted", "rpc"},
             stage' = Goto(t, s) \/ stage' = NotifyWaiters(Goto(t, s)),
             stage[t] \in {"permitted", "rpc"}, permits' = permits + 1
      PROVE PermitsAreOwned'
  <2>1. PermitHolders' = PermitHolders \ {t} /\ t \in PermitHolders
    BY <1>1, MovePermit DEF PermitHolders
  <2>2. Cardinality(PermitHolders') = Cardinality(PermitHolders) - 1
    BY <1>0, <2>1, FS_RemoveElement
  <2>3. Cardinality(PermitHolders) \in Nat
    BY <1>0, FS_CardinalityType
  <2> QED BY <1>1, <2>2, <2>3, ConstantsAssumption DEF PermitsAreOwned, PermitHolders, TypeOK
<1>2. ASSUME NEW t \in Tx, AcquirePermit(t) PROVE PermitsAreOwned'
  <2>1. "permitted" \in Stage /\ stage' = Goto(t, "permitted") /\ t \notin PermitHolders
    BY <1>2 DEF AcquirePermit, Stage, PermitHolders
  <2>2. PermitHolders' = PermitHolders \cup {t}
    BY <2>1, MovePermit
  <2>3. Cardinality(PermitHolders') = Cardinality(PermitHolders) + 1
    BY <1>0, <2>1, <2>2, FS_AddElement
  <2>4. Cardinality(PermitHolders) \in Nat
    BY <1>0, FS_CardinalityType
  <2> QED BY <1>2, <2>3, <2>4, ConstantsAssumption
      DEF AcquirePermit, PermitsAreOwned, PermitHolders, TypeOK
<1>3. ASSUME NEW t \in Tx, FailBeforeDispatch(t) PROVE PermitsAreOwned'
  <2>1. "releasing" \in Stage \ {"permitted", "rpc"} /\ stage' = Goto(t, "releasing")
    BY <1>3 DEF FailBeforeDispatch, Stage
  <2>2. CASE stage[t] = "permitted"
    BY <1>1, <1>3, <2>1, <2>2 DEF FailBeforeDispatch
  <2>3. CASE stage[t] = "granted"
    BY <1>3, <2>1, <2>3, PermitUntouched DEF FailBeforeDispatch, PermitHolders
  <2> QED BY <1>3, <2>2, <2>3 DEF FailBeforeDispatch
<1>4. ASSUME NEW t \in Tx, RpcReturns(t) PROVE PermitsAreOwned'
  BY <1>1, <1>4 DEF RpcReturns, Stage
<1>5. ASSUME NEW t \in Tx, Dispatch(t) PROVE PermitsAreOwned'
  BY <1>5, PermitUntouched DEF Dispatch, Stage, PermitHolders
<1>6. ASSUME NEW t \in Tx,
             \/ Enqueue(t) \/ Acquire(t) \/ Park(t) \/ CancelPending(t)
             \/ ReleaseSubmissionKeys(t) \/ DropTicket(t) \/ EndObservation(t)
      PROVE PermitsAreOwned'
  <2>1. PICK s \in Stage \ {"permitted", "rpc"} :
              stage' = Goto(t, s) \/ stage' = NotifyWaiters(Goto(t, s))
    BY <1>6 DEF Enqueue, Acquire, Park, CancelPending, ReleaseSubmissionKeys, DropTicket,
       EndObservation, Stage
  <2>2. permits' = permits /\ t \notin PermitHolders
    BY <1>6 DEF Enqueue, Acquire, Park, CancelPending, ReleaseSubmissionKeys, DropTicket,
       EndObservation, PermitHolders
  <2> QED BY <2>1, <2>2, PermitUntouched
<1>7. CASE UNCHANGED vars
  BY <1>7 DEF vars, PermitsAreOwned
<1> QED
  BY <1>2, <1>3, <1>4, <1>5, <1>6, <1>7 DEF Next

\* With finitely many calls, failed, cancelled and timed out ones included, no
\* permit is ever lost or handed out twice.
THEOREM PermitsConserved == ASSUME IsFiniteSet(Tx) PROVE Spec => []PermitsAreOwned
<1>1. Init => PermitsAreOwned
  <2> SUFFICES ASSUME Init PROVE PermitsAreOwned
    OBVIOUS
  <2>1. PermitHolders = {}
    BY DEF Init, PermitHolders
  <2> QED BY <2>1, FS_EmptySet, ConstantsAssumption DEF Init, PermitsAreOwned, PermitHolders
<1>2. TypeOK /\ PermitsAreOwned /\ [Next]_vars => PermitsAreOwned'
  BY PermitStep
<1> QED BY <1>1, <1>2, TypeCorrect, PTL DEF Spec
=============================================================================
