------------------------------ MODULE NonceLanes ------------------------------
(***************************************************************************)
(* How the submit steps of scenario instances share the nonce lanes of one *)
(* chain (scenario/engine.rs: execute_submit, prepare_submission and       *)
(* SubmissionLanes; txgen-core/nonce.rs: NonceTracker).  A step            *)
(*   - materialises its transaction under submit_prepare_gate, which takes *)
(*     the next local nonce of each ordered lane,                          *)
(*   - acquires the lanes, or undoes the reservation and waits for a       *)
(*     notification, or fails when its own instance uses a lane in         *)
(*     parallel,                                                           *)
(*   - signs, submits, and gives the lanes back, having disabled them if   *)
(*     nobody can tell whether the node took the transaction.              *)
(* Steps without ordered nonces are signed before they wait for lanes.     *)
(*                                                                         *)
(* A lane is a scheduling key; nonces start at 0.  A lookup that follows   *)
(* an error is part of the RPC.  The seen_by_instance entries of an ended  *)
(* instance are not removed: no later step has that instance.              *)
(***************************************************************************)
EXTENDS Integers, FiniteSets

CONSTANTS Step,        \* submit steps of all instances
          InstanceOf,  \* the instance of each step
          Before,      \* its predecessors in the instance, transitively
          Lane,
          Choices,     \* key sets a template may materialise to
          NoStep       \* none of them

ASSUME NonceLanesAssumption ==
    /\ NoStep \notin Step
    /\ Before \in [Step -> SUBSET Step]
    /\ \A t \in Step : \A u \in Before[t] :
        InstanceOf[u] = InstanceOf[t] /\ Before[u] \subseteq Before[t]
    /\ Choices \subseteq [keys : (SUBSET Lane) \ {{}}, ordered : SUBSET Lane]
    /\ \A c \in Choices : c.ordered \subseteq c.keys

VARIABLES
    nonce,            \* NonceTracker::nonces
    reserved,         \* nonce_reservations of each step's transaction: ordered lane -> nonce
    gate,             \* holder of submit_prepare_gate
    active, ambiguous, seen,   \* SubmissionLaneState
    stage, want, signed,       \* where each step stands, its keys, signed already
    woken,            \* steps whose Notified has fired
    recovery_failed,  \* a rewind found a newer reservation
    sent,                      \* the nonces of each transaction the node was given
    accepted, rejected         \* what it took, and what it refused for good

lanes == <<nonce, reserved, gate, active, ambiguous, seen, woken, recovery_failed>>
node == <<sent, accepted, rejected>>
vars == <<lanes, stage, want, signed, node>>

Ended == {"done", "failed"}
\* Stages at which a step has the guard of all its lanes.
Holding == {"signing", "finish", "submit", "sent", "rollback", "uncertain", "release", "accepted"}

Ordered(t) == want[t].ordered # {}
Keys(t) == want[t].keys
Move(t, place) == stage' = [stage EXCEPT ![t] = place]
LeaveGate(t) == gate' = IF gate = t THEN NoStep ELSE gate

\* rewind_ordered: a lane goes back only from the reservation itself.
Newest(t) == {l \in DOMAIN reserved[t] : nonce[l] = reserved[t][l] + 1}
Rewind(t) ==
    /\ nonce' = [l \in Lane |-> IF l \in Newest(t) THEN reserved[t][l] ELSE nonce[l]]
    /\ reserved' = [reserved EXCEPT ![t] = <<>>]
    /\ recovery_failed' = (recovery_failed \/ Newest(t) # DOMAIN reserved[t])

\* The callers that disable the lanes when the nonces cannot be restored.
RewindOrDisable(t) ==
    /\ Rewind(t)
    /\ ambiguous' = ambiguous \cup (IF Newest(t) = DOMAIN reserved[t] THEN {} ELSE Keys(t))

FreeLanesUnarmed(t) ==  \* fault
    /\ active' = [l \in Lane |-> IF active[l] = t THEN NoStep ELSE active[l]]
    /\ woken' = woken \cup {u \in Step : stage[u] = "parked"}

\* SubmissionLaneGuard::drop notifies whoever has armed its Notified.
FreeLanes(t) ==
    /\ active' = [l \in Lane |-> IF active[l] = t THEN NoStep ELSE active[l]]
    /\ woken' = woken \cup {u \in Step : stage[u] \in {"armed", "unwind", "parked"}}

HasAmbiguousLane(t) == Ordered(t) /\ ambiguous \cap Keys(t) # {}
-----------------------------------------------------------------------------
(* prepare_submission                                                      *)

\* The instance reaches the step.
Start(t) ==
    /\ stage[t] = "new"
    /\ \A u \in Before[t] : stage[u] = "done"
    /\ \A u \in Step : InstanceOf[u] = InstanceOf[t] => stage[u] # "failed"
    /\ \E c \in Choices : want' = [want EXCEPT ![t] = c]
    /\ Move(t, "gate")
    /\ UNCHANGED <<lanes, signed, node>>

EnterGate(t) ==
    /\ stage[t] = "gate" /\ gate = NoStep
    /\ gate' = t
    /\ Move(t, "materialize")
    /\ UNCHANGED <<nonce, reserved, active, ambiguous, seen, woken, recovery_failed,
                   want, signed, node>>

\* The step's deadline passes, or its materialization fails and is undone.
GiveUp(t) ==
    /\ stage[t] \in {"gate", "materialize", "parked"}
    /\ LeaveGate(t)
    /\ Move(t, "failed")
    /\ UNCHANGED <<nonce, reserved, active, ambiguous, seen, woken, recovery_failed,
                   want, signed, node>>

MaterializeOrderingAll(t) ==  \* fault
    /\ stage[t] = "materialize"
    /\ nonce' = [l \in Lane |-> IF l \in want[t].keys THEN nonce[l] + 1 ELSE nonce[l]]
    /\ reserved' = [reserved EXCEPT ![t] = [l \in want[t].keys |-> nonce[l]]]
    /\ Move(t, "check")
    /\ UNCHANGED <<gate, active, ambiguous, seen, woken, recovery_failed, want, signed, node>>

Materialize(t) ==
    /\ stage[t] = "materialize"
    /\ nonce' = [l \in Lane |-> IF l \in want[t].ordered THEN nonce[l] + 1 ELSE nonce[l]]
    /\ reserved' = [reserved EXCEPT ![t] = [l \in want[t].ordered |-> nonce[l]]]
    /\ Move(t, "check")
    /\ UNCHANGED <<gate, active, ambiguous, seen, woken, recovery_failed, want, signed, node>>

\* has_ambiguous_ordered_lane; otherwise the Notified is armed.
Check(t) ==
    /\ stage[t] = "check"
    /\ IF HasAmbiguousLane(t)
         THEN /\ RewindOrDisable(t) /\ LeaveGate(t) /\ Move(t, "failed")
              /\ UNCHANGED woken
         ELSE /\ Move(t, "armed")
              /\ woken' = woken \ {t}
              /\ UNCHANGED <<nonce, reserved, ambiguous, recovery_failed, gate>>
    /\ UNCHANGED <<active, seen, want, signed, node>>

\* A lane its own instance used in a step that need not come first, or uses now.
UnsafeIgnoringSeen(t) ==  \* fault
    \E l \in Keys(t) : active[l] # NoStep /\ InstanceOf[active[l]] = InstanceOf[t]

Unsafe(t) ==
    \E l \in Keys(t) :
        \/ seen[<<InstanceOf[t], l>>] \notin Before[t] \cup {t, NoStep}
        \/ active[l] # NoStep /\ InstanceOf[active[l]] = InstanceOf[t]

BusyOnAll(t) == \A l \in Keys(t) : active[l] # NoStep  \* fault

Busy(t) == \E l \in Keys(t) : active[l] # NoStep

Acquire(t) ==
    /\ stage[t] = "armed" /\ ~Unsafe(t) /\ ~Busy(t)
    /\ active' = [l \in Lane |-> IF l \in Keys(t) THEN t ELSE active[l]]
    /\ seen' = [k \in DOMAIN seen |->
                    IF k[1] = InstanceOf[t] /\ k[2] \in Keys(t) THEN t ELSE seen[k]]
    /\ IF Ordered(t) THEN UNCHANGED gate ELSE LeaveGate(t)
    /\ Move(t, IF t \in signed THEN "finish" ELSE "signing")
    /\ UNCHANGED <<nonce, reserved, ambiguous, woken, recovery_failed, want, signed, node>>

RefuseUnsafe(t) ==
    /\ stage[t] = "armed" /\ Unsafe(t)
    /\ RewindOrDisable(t) /\ LeaveGate(t)
    /\ Move(t, "failed")
    /\ UNCHANGED <<active, seen, woken, want, signed, node>>

\* An ordered reservation is undone before the step waits; a transaction
\* without one is kept and signed in the meantime.
FindBusy(t) ==
    /\ stage[t] = "armed" /\ ~Unsafe(t) /\ Busy(t)
    /\ Move(t, IF Ordered(t) THEN "unwind" ELSE IF t \in signed THEN "parked" ELSE "presigning")
    /\ IF Ordered(t) THEN UNCHANGED gate ELSE LeaveGate(t)
    /\ UNCHANGED <<nonce, reserved, ambiguous, recovery_failed, active, seen, woken,
                   want, signed, node>>

Unwind(t) ==
    /\ stage[t] = "unwind"
    /\ RewindOrDisable(t)
    /\ LeaveGate(t)
    /\ Move(t, "parked")
    /\ UNCHANGED <<active, seen, woken, want, signed, node>>

Wake(t) ==
    /\ stage[t] = "parked" /\ t \in woken
    /\ Move(t, IF t \in signed THEN "rearm" ELSE "gate")
    /\ UNCHANGED <<lanes, want, signed, node>>

\* The loop of wait_for_submission_lanes.
Rearm(t) ==
    /\ stage[t] = "rearm"
    /\ woken' = woken \ {t}
    /\ Move(t, "armed")
    /\ UNCHANGED <<nonce, reserved, gate, active, ambiguous, seen, recovery_failed,
                   want, signed, node>>

Sign(t) ==
    /\ stage[t] \in {"signing", "presigning"}
    /\ signed' = signed \cup {t}
    /\ Move(t, IF stage[t] = "signing" THEN "finish" ELSE "rearm")
    /\ UNCHANGED <<lanes, want, node>>

SignFailsKeepingNonce(t) ==  \* fault
    /\ stage[t] \in {"signing", "presigning"}
    /\ LeaveGate(t)
    /\ Move(t, IF stage[t] = "signing" THEN "release" ELSE "failed")
    /\ UNCHANGED <<nonce, reserved, ambiguous, recovery_failed, active, seen, woken,
                   want, signed, node>>

SignFails(t) ==
    /\ stage[t] \in {"signing", "presigning"}
    /\ RewindOrDisable(t)
    /\ LeaveGate(t)
    /\ Move(t, IF stage[t] = "signing" THEN "release" ELSE "failed")
    /\ UNCHANGED <<active, seen, woken, want, signed, node>>

FinishUnchecked(t) ==  \* fault
    /\ stage[t] = "finish"
    /\ LeaveGate(t)
    /\ Move(t, "submit")
    /\ UNCHANGED <<nonce, reserved, recovery_failed, active, woken, ambiguous, seen,
                   want, signed, node>>

\* finish_prepared_submission: the lane may have been disabled while this step
\* was between its first look and its acquisition.
Finish(t) ==
    /\ stage[t] = "finish"
    /\ LeaveGate(t)
    /\ IF HasAmbiguousLane(t)
         THEN FreeLanes(t) /\ Rewind(t) /\ Move(t, "failed")
         ELSE /\ Move(t, "submit")
              /\ UNCHANGED <<nonce, reserved, recovery_failed, active, woken>>
    /\ UNCHANGED <<ambiguous, seen, want, signed, node>>
-----------------------------------------------------------------------------
(* execute_submit                                                          *)

SendRpc(t) ==
    /\ stage[t] = "submit"
    /\ sent' = [u \in DOMAIN sent \cup {t} |-> IF u = t THEN reserved[t] ELSE sent[u]]
    /\ Move(t, "sent")
    /\ UNCHANGED <<lanes, want, signed, accepted, rejected>>

FailBeforeSend(t) ==
    /\ stage[t] = "submit"
    /\ Move(t, IF Ordered(t) THEN "rollback" ELSE "release")
    /\ UNCHANGED <<lanes, want, signed, node>>

RollbackSubmittedUngated(t) ==  \* fault
    /\ stage[t] = "rollback"
    /\ RewindOrDisable(t)
    /\ Move(t, "release")
    /\ UNCHANGED <<gate, active, seen, woken, want, signed, node>>

\* rollback_submitted_nonces takes the gate, so no speculative reservation of
\* another step is in the way.
RollbackSubmitted(t) ==
    /\ stage[t] = "rollback" /\ gate = NoStep
    /\ RewindOrDisable(t)
    /\ Move(t, "release")
    /\ UNCHANGED <<gate, active, seen, woken, want, signed, node>>

\* The deadline passes while another step has the gate.
RollbackTimesOut(t) ==
    /\ stage[t] = "rollback" /\ gate # NoStep
    /\ ambiguous' = ambiguous \cup Keys(t)
    /\ Move(t, "release")
    /\ UNCHANGED <<nonce, reserved, gate, active, seen, woken, recovery_failed,
                   want, signed, node>>

\* The node's answer, or its absence and the lookup that follows.
RpcAnswers(t) ==
    /\ stage[t] = "sent"
    /\ \/ t \in accepted /\ Move(t, "accepted") /\ UNCHANGED rejected
       \/ t \notin accepted /\ rejected' = rejected \cup {t} /\ Move(t, "uncertain")
       \/ Move(t, "uncertain") /\ UNCHANGED rejected
    /\ UNCHANGED <<lanes, want, signed, sent, accepted>>

DisableLanesWhenUnanswered(t) ==  \* fault
    /\ stage[t] = "uncertain"
    /\ IF Ordered(t) /\ t \notin rejected
         THEN /\ ambiguous' = ambiguous \cup Keys(t)
              /\ UNCHANGED <<nonce, reserved, recovery_failed>>
         ELSE RewindOrDisable(t)
    /\ Move(t, "release")
    /\ UNCHANGED <<gate, active, seen, woken, want, signed, node>>

\* "A JSON-RPC rejection is not proof that its nonce is reusable."
DisableLanes(t) ==
    /\ stage[t] = "uncertain"
    /\ ambiguous' = ambiguous \cup (IF Ordered(t) THEN Keys(t) ELSE {})
    /\ Move(t, "release")
    /\ UNCHANGED <<nonce, reserved, gate, active, seen, woken, recovery_failed,
                   want, signed, node>>

\* Lanes are freed when the transaction is accepted, or after a failure.
ReleaseLanes(t) ==
    /\ stage[t] \in {"accepted", "release"}
    /\ FreeLanes(t)
    /\ Move(t, IF stage[t] = "accepted" THEN "done" ELSE "failed")
    /\ UNCHANGED <<nonce, reserved, gate, ambiguous, seen, recovery_failed, want, signed, node>>
-----------------------------------------------------------------------------
\* The node takes a transaction it was sent, possibly after the client gave up.
NodeAccepts(t) ==
    /\ t \in DOMAIN sent \ (accepted \cup rejected)
    /\ accepted' = accepted \cup {t}
    /\ UNCHANGED <<lanes, stage, want, signed, sent, rejected>>

Init ==
    /\ nonce = [l \in Lane |-> 0]
    /\ reserved = [t \in Step |-> <<>>]
    /\ gate = NoStep
    /\ active = [l \in Lane |-> NoStep] /\ ambiguous = {}
    /\ seen = [k \in {InstanceOf[t] : t \in Step} \X Lane |-> NoStep]
    /\ stage = [t \in Step |-> "new"]
    /\ want = [t \in Step |-> [keys |-> {}, ordered |-> {}]]
    /\ signed = {} /\ woken = {} /\ recovery_failed = FALSE
    /\ sent = <<>> /\ accepted = {} /\ rejected = {}

Next == \E t \in Step :
    \/ Start(t) \/ EnterGate(t) \/ GiveUp(t) \/ Materialize(t) \/ Check(t)
    \/ Acquire(t) \/ RefuseUnsafe(t) \/ FindBusy(t) \/ Unwind(t) \/ Wake(t) \/ Rearm(t)
    \/ Sign(t) \/ SignFails(t) \/ Finish(t)
    \/ SendRpc(t) \/ FailBeforeSend(t) \/ RollbackSubmitted(t) \/ RollbackTimesOut(t)
    \/ RpcAnswers(t) \/ DisableLanes(t) \/ ReleaseLanes(t) \/ NodeAccepts(t)

Spec == Init /\ [][Next]_vars
-----------------------------------------------------------------------------
(* Properties                                                              *)

\* The state is well typed; a local nonce never goes below the chain's.
TypeOK ==
    /\ nonce \in [Lane -> Nat]
    /\ \A t \in Step : /\ DOMAIN reserved[t] \in {{}, want[t].ordered}
                       /\ \A l \in DOMAIN reserved[t] : reserved[t][l] \in Nat
    /\ gate \in Step \cup {NoStep}
    /\ active \in [Lane -> Step \cup {NoStep}] /\ ambiguous \in SUBSET Lane
    /\ seen \in [{InstanceOf[t] : t \in Step} \X Lane -> Step \cup {NoStep}]
    /\ stage \in [Step -> {"new", "gate", "materialize", "check", "armed", "unwind", "parked",
                           "presigning", "rearm"} \cup Holding \cup Ended]
    /\ want \in [Step -> Choices \cup {[keys |-> {}, ordered |-> {}]}]
    /\ {signed, woken, DOMAIN sent, accepted, rejected} \subseteq SUBSET Step
    /\ recovery_failed \in BOOLEAN

\* A lane is active exactly while the step that owns it is in between acquiring
\* and releasing it, so a second step can neither share it nor wait for nobody.
LanesAreOwned ==
    \A l \in Lane, t \in Step : active[l] = t <=> stage[t] \in Holding /\ l \in Keys(t)

\* What is signed for a lane and goes on the wire carries a nonce of its own:
\* one that the node may have seen is never reused, whatever it answered.
NoNonceReuse ==
    \A t, u \in DOMAIN sent : \A l \in DOMAIN sent[t] \cap DOMAIN sent[u] :
        t # u => sent[t][l] # sent[u][l]

Acknowledged == {t \in Step : stage[t] \in {"accepted", "done"}}

\* No transaction goes on the wire above a hole: every earlier nonce of each
\* of its lanes belongs to a transaction the node is known to have taken.
NonceOrder ==
    \A t \in DOMAIN sent : \A l \in DOMAIN sent[t] : \A n \in 0 .. sent[t][l] - 1 :
        \E u \in Acknowledged : l \in DOMAIN sent[u] /\ sent[u][l] = n

Count(l) == Cardinality({t \in Step : l \in DOMAIN reserved[t]})

\* The local counter of a lane is what transactions really carry: no failed,
\* waiting or refused step leaves a reservation behind, nor takes one with it.
NoLeakedNonce ==
    \A l \in Lane : /\ nonce[l] = Count(l)
                    /\ l \notin ambiguous => \A t \in Step :
                           l \in DOMAIN reserved[t] => stage[t] \notin {"parked", "failed"}

\* Every rewind finds its own reservation newest: the NonceRecovery errors of
\* the engine guard against something that does not happen.
RewindNeverFails == ~recovery_failed

\* Steps of one instance that may run in parallel never both submit on a lane,
\* so the order of an instance's nonces does not depend on scheduling.
SameInstanceIsOrdered ==
    \A t, u \in DOMAIN sent : t # u /\ InstanceOf[t] = InstanceOf[u] /\ Keys(t) \cap Keys(u) # {}
                         => t \in Before[u] \/ u \in Before[t]

\* Nobody waits for what will not happen: a step that sleeps without having
\* been notified waits for a lane somebody has, and the gate belongs to a step
\* that is at work, not to one that sleeps or has ended.
NobodyStranded ==
    /\ \A t \in Step : stage[t] = "parked" /\ t \notin woken
                         => \E l \in Keys(t) : active[l] # NoStep
    /\ gate # NoStep => stage[gate] \in {"materialize", "check", "armed", "unwind", "signing",
                                         "finish"}

\* Lanes have one owner, who gives them back to those that wait.
LanesAreServed == LanesAreOwned /\ NobodyStranded

\* The node sees each lane's nonces once, without holes, in an order that an
\* instance's dependencies decide.
NoncesAreInOrder == NonceOrder /\ NoNonceReuse /\ SameInstanceIsOrdered

\* The local counter stays with the transactions, whatever fails.
NoncesAreKept == NoLeakedNonce /\ RewindNeverFails

\* What README.md says of a submission whose acceptance is unknown at its
\* deadline: further submissions on that chain are disabled.  The code disables
\* the lanes of that submission, and for ordered nonces only.
ChainIsDisabled == [][\A t \in Step : stage[t] = "check" /\ ambiguous # {} => stage'[t] # "armed"]_vars
=============================================================================
