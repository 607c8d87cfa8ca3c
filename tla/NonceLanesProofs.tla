-------------------------- MODULE NonceLanesProofs ---------------------------
(***************************************************************************)
(* Proofs about NonceLanes, for any number of steps, instances and lanes.  *)
(*                                                                         *)
(* None of the properties is inductive.  They rest on who may have a       *)
(* reservation at which stage: the gate makes the reservations of a step   *)
(* that may still wait the newest ones, and ownership of the lanes keeps   *)
(* all others away from those of a step that submits.                      *)
(***************************************************************************)
EXTENDS NonceLanes, FiniteSetTheorems, TLAPS

\* Stages with no reservation and with one on every ordered lane.  A released
\* or failed step may have kept its reservation or not.
Unreserved == {"new", "gate", "materialize", "parked", "presigning", "rearm"}
Reserved == {"check", "armed", "unwind", "signing", "finish", "submit", "sent", "rollback",
             "uncertain", "accepted", "done"}

ReservedInv ==
    /\ DOMAIN reserved = Step
    /\ \A t \in Step : /\ stage[t] \in Unreserved => DOMAIN reserved[t] = {}
                       /\ stage[t] \in Reserved => DOMAIN reserved[t] = want[t].ordered

\* The reservations on a lane are the nonces below its counter, one each.
DenseInv ==
    /\ \A t \in Step : \A l \in DOMAIN reserved[t] : reserved[t][l] < nonce[l]
    /\ \A t, u \in Step : \A l \in DOMAIN reserved[t] \cap DOMAIN reserved[u] :
           t # u => reserved[t][l] # reserved[u][l]
    /\ \A l \in Lane : \A n \in 0 .. nonce[l] - 1 :
           \E t \in Step : l \in DOMAIN reserved[t] /\ reserved[t][l] = n

\* A step that may still go back to waiting has the gate, and nobody waits for
\* signed ordered nonces.
AtGate == {"check", "armed", "unwind", "signing", "finish"}
GateInv ==
    /\ gate # NoStep => stage[gate] \in {"materialize"} \cup AtGate
    /\ \A t \in Step :
         /\ stage[t] \in {"materialize", "check"} => gate = t
         /\ stage[t] \in AtGate /\ Ordered(t) => gate = t
         /\ stage[t] \in {"presigning", "rearm"} => ~Ordered(t)
         /\ stage[t] = "new" => t \notin signed
         /\ t \in signed /\ Ordered(t) => stage[t] \notin {"check", "armed", "unwind", "signing"}
                                                             \cup Unreserved

\* Its reservations are the newest.  Those of a step that may still undo them
\* after the gate are the newest but for what the gate's holder tries out.
NewestInv ==
    /\ \A t \in Step : gate = t /\ stage[t] \in AtGate =>
           \A l \in DOMAIN reserved[t] : nonce[l] = reserved[t][l] + 1
    /\ \A t, u \in Step : stage[t] \in {"submit", "rollback"} =>
           \A l \in DOMAIN reserved[t] \cap DOMAIN reserved[u] :
               reserved[t][l] < reserved[u][l] => gate = u

\* What was sent is never undone, and a nonce that a failed step keeps blocks
\* its lanes.
SentInv ==
    /\ \A t \in DOMAIN sent : /\ sent[t] = reserved[t]
                              /\ stage[t] \in {"sent", "uncertain", "release", "accepted"} \cup Ended
    /\ \A t \in Step : stage[t] \in {"sent", "uncertain", "accepted", "done"} => t \in DOMAIN sent
    /\ \A t \in Step : stage[t] \in {"release", "failed"} /\ DOMAIN reserved[t] # {}
                         => Keys(t) \subseteq ambiguous

\* NonceOrder, already before the transaction is sent.
OrderInv ==
    \A t \in Step : t \in DOMAIN sent \/ stage[t] \in {"submit", "rollback"} =>
        \A l \in DOMAIN reserved[t] : \A n \in 0 .. reserved[t][l] - 1 :
            \E u \in Acknowledged : l \in DOMAIN reserved[u] /\ reserved[u][l] = n

\* Steps that have or had the lanes, and who came after them.
Acquired == DOMAIN sent \cup {t \in Step : stage[t] \in Holding}
SeenInv ==
    /\ \A t \in Acquired : \A l \in Keys(t) :
           LET last == seen[<<InstanceOf[t], l>>] IN last \in Step /\ t \in Before[last] \cup {last}
    /\ \A t, u \in Acquired :
           t # u /\ InstanceOf[t] = InstanceOf[u] /\ Keys(t) \cap Keys(u) # {}
               => t \in Before[u] \/ u \in Before[t]

\* NobodyStranded, already before the step sleeps.
WaitInv ==
    \A t \in Step : stage[t] \in {"unwind", "parked"} /\ t \notin woken
                      => \E l \in Keys(t) : active[l] # NoStep

IInv ==
    /\ TypeOK /\ ReservedInv /\ DenseInv /\ GateInv /\ NewestInv /\ SentInv /\ OrderInv
    /\ LanesAreOwned /\ SeenInv /\ WaitInv /\ RewindNeverFails
-----------------------------------------------------------------------------
(* Type correctness                                                        *)

LEMMA EmptyReservation == DOMAIN <<>> = {}
OBVIOUS

\* The keys a step may want are lanes, the ordered ones among them.
LEMMA WantType ==
    ASSUME TypeOK, NEW t \in Step
    PROVE  Keys(t) \subseteq Lane /\ want[t].ordered \subseteq Keys(t)
<1>1. want[t] \in Choices \/ want[t] = [keys |-> {}, ordered |-> {}]
  BY DEF TypeOK
<1>2. \A c \in Choices : c.keys \subseteq Lane /\ c.ordered \subseteq c.keys
  BY NonceLanesAssumption
<1> QED BY <1>1, <1>2 DEF Keys

LEMMA TypeOKInit == Init => TypeOK
<1> SUFFICES ASSUME Init PROVE TypeOK
  OBVIOUS
<1>1. /\ nonce \in [Lane -> Nat]
      /\ gate \in Step \cup {NoStep}
      /\ active \in [Lane -> Step \cup {NoStep}] /\ ambiguous \in SUBSET Lane
      /\ recovery_failed \in BOOLEAN
  BY DEF Init
<1>2. \A t \in Step : DOMAIN reserved[t] = {}
  BY EmptyReservation DEF Init
<1>3. seen \in [{InstanceOf[t] : t \in Step} \X Lane -> Step \cup {NoStep}]
  BY DEF Init
<1>4. /\ stage \in [Step -> {"new", "gate", "materialize", "check", "armed", "unwind", "parked",
                           "presigning", "rearm"} \cup Holding \cup Ended]
      /\ want \in [Step -> Choices \cup {[keys |-> {}, ordered |-> {}]}]
  BY DEF Init
<1>5. DOMAIN sent = {}
  BY EmptyReservation DEF Init
<1> QED BY <1>1, <1>2, <1>3, <1>4, <1>5 DEF Init, TypeOK

\* What a rewind leaves well typed.
LEMMA RewindType ==
    ASSUME TypeOK, DOMAIN reserved = Step, NEW t \in Step, Rewind(t)
    PROVE  /\ nonce' \in [Lane -> Nat]
           /\ DOMAIN reserved' = Step
           /\ reserved'[t] = <<>> /\ DOMAIN reserved'[t] = {}
           /\ \A u \in Step \ {t} : reserved'[u] = reserved[u]
           /\ recovery_failed' \in BOOLEAN
BY EmptyReservation DEF TypeOK, Rewind, Newest

LEMMA TypeOKStep == ASSUME TypeOK, ReservedInv, [Next]_vars PROVE TypeOK'
<1>0. DOMAIN reserved = Step
  BY DEF ReservedInv
<1> USE <1>0 DEF TypeOK, Move, LeaveGate, lanes, node, Holding, Ended
<1>1. ASSUME NEW t \in Step, Start(t) PROVE TypeOK'
  <2>1. want' \in [Step -> Choices \cup {[keys |-> {}, ordered |-> {}]}]
    BY <1>1 DEF Start
  <2>2. \A u \in Step : DOMAIN reserved'[u] \in {{}, want'[u].ordered}
    BY <1>1 DEF Start, ReservedInv, Unreserved
  <2> QED BY <1>1, <2>1, <2>2 DEF Start
<1>2. ASSUME NEW t \in Step, EnterGate(t) PROVE TypeOK'
  BY <1>2 DEF EnterGate
<1>3. ASSUME NEW t \in Step, GiveUp(t) PROVE TypeOK'
  BY <1>3 DEF GiveUp
<1>4. ASSUME NEW t \in Step, Materialize(t) PROVE TypeOK'
  BY <1>4, NonceLanesAssumption DEF Materialize
<1>5. ASSUME NEW t \in Step, Check(t) PROVE TypeOK'
  <2>1. CASE HasAmbiguousLane(t)
    <3>1. Rewind(t) /\ ambiguous' \in SUBSET Lane
      BY <1>5, <2>1, WantType DEF Check, RewindOrDisable
    <3>2. stage' \in [Step -> {"failed"} \cup {stage[u] : u \in Step}]
      BY <1>5, <2>1 DEF Check
    <3>3. /\ nonce' \in [Lane -> Nat] /\ recovery_failed' \in BOOLEAN
          /\ \A u \in Step : /\ DOMAIN reserved'[u] \in {{}, want[u].ordered}
                             /\ \A l \in DOMAIN reserved'[u] : reserved'[u][l] \in Nat
      BY ZenonT(60), <3>1, RewindType
    <3>4. gate' \in Step \cup {NoStep} /\ UNCHANGED <<active, seen, want, signed, node, woken>>
      BY <1>5, <2>1 DEF Check
    <3> QED BY <3>1, <3>2, <3>3, <3>4
  <2>2. CASE ~HasAmbiguousLane(t)
    BY <1>5, <2>2 DEF Check
  <2> QED BY <2>1, <2>2
<1>6. ASSUME NEW t \in Step, Acquire(t) PROVE TypeOK'
  BY <1>6 DEF Acquire
<1>7. ASSUME NEW t \in Step, RefuseUnsafe(t) PROVE TypeOK'
  BY <1>7, RewindType, WantType DEF RefuseUnsafe, RewindOrDisable
<1>8. ASSUME NEW t \in Step, FindBusy(t) PROVE TypeOK'
  BY <1>8 DEF FindBusy
<1>9. ASSUME NEW t \in Step, Unwind(t) PROVE TypeOK'
  BY <1>9, RewindType, WantType DEF Unwind, RewindOrDisable
<1>10. ASSUME NEW t \in Step, Wake(t) PROVE TypeOK'
  BY <1>10 DEF Wake
<1>11. ASSUME NEW t \in Step, Rearm(t) PROVE TypeOK'
  BY <1>11 DEF Rearm
<1>12. ASSUME NEW t \in Step, Sign(t) PROVE TypeOK'
  BY <1>12 DEF Sign
<1>13. ASSUME NEW t \in Step, SignFails(t) PROVE TypeOK'
  BY <1>13, RewindType, WantType DEF SignFails, RewindOrDisable
<1>14. ASSUME NEW t \in Step, Finish(t) PROVE TypeOK'
  <2>1. CASE HasAmbiguousLane(t)
    <3>1. Rewind(t) /\ woken' \in SUBSET Step /\ active' \in [Lane -> Step \cup {NoStep}]
      BY <1>14, <2>1 DEF Finish, FreeLanes
    <3>2. stage' \in [Step -> {"failed"} \cup {stage[u] : u \in Step}]
      BY <1>14, <2>1 DEF Finish
    <3>3. /\ nonce' \in [Lane -> Nat] /\ recovery_failed' \in BOOLEAN
          /\ \A u \in Step : /\ DOMAIN reserved'[u] \in {{}, want[u].ordered}
                             /\ \A l \in DOMAIN reserved'[u] : reserved'[u][l] \in Nat
      BY <3>1, RewindType
    <3>4. gate' \in Step \cup {NoStep} /\ UNCHANGED <<ambiguous, seen, want, signed, node>>
      BY <1>14, <2>1 DEF Finish
    <3> QED BY <3>1, <3>2, <3>3, <3>4
  <2>2. CASE ~HasAmbiguousLane(t)
    BY <1>14, <2>2 DEF Finish
  <2> QED BY <2>1, <2>2
<1>15. ASSUME NEW t \in Step, SendRpc(t) PROVE TypeOK'
  BY <1>15 DEF SendRpc
<1>16. ASSUME NEW t \in Step, FailBeforeSend(t) PROVE TypeOK'
  BY <1>16 DEF FailBeforeSend
<1>17. ASSUME NEW t \in Step, RollbackSubmitted(t) PROVE TypeOK'
  BY <1>17, RewindType, WantType DEF RollbackSubmitted, RewindOrDisable
<1>18. ASSUME NEW t \in Step, RollbackTimesOut(t) PROVE TypeOK'
  BY <1>18, WantType DEF RollbackTimesOut
<1>19. ASSUME NEW t \in Step, RpcAnswers(t) PROVE TypeOK'
  <2>1. stage' \in [Step -> {"accepted", "uncertain"} \cup {stage[u] : u \in Step}]
    BY <1>19 DEF RpcAnswers
  <2>2. rejected' \in SUBSET Step
    BY <1>19 DEF RpcAnswers
  <2> QED BY <1>19, <2>1, <2>2 DEF RpcAnswers
<1>20. ASSUME NEW t \in Step, DisableLanes(t) PROVE TypeOK'
  BY <1>20, WantType DEF DisableLanes
<1>21. ASSUME NEW t \in Step, ReleaseLanes(t) PROVE TypeOK'
  BY <1>21 DEF ReleaseLanes, FreeLanes
<1>22. ASSUME NEW t \in Step, NodeAccepts(t) PROVE TypeOK'
  BY <1>22 DEF NodeAccepts
<1>23. CASE UNCHANGED vars
  BY <1>23 DEF vars
<1> QED
  BY <1>1, <1>2, <1>3, <1>4, <1>5, <1>6, <1>7, <1>8, <1>9, <1>10, <1>11, <1>12, <1>13, <1>14,
     <1>15, <1>16, <1>17, <1>18, <1>19, <1>20, <1>21, <1>22, <1>23 DEF Next
-----------------------------------------------------------------------------
(* The nonces: what a step does to them, and that it can always undo it    *)

\* A step's stages when it rewinds.
MayRewind(t) ==
    \/ stage[t] \in AtGate \cup {"presigning"}
    \/ stage[t] = "rollback" /\ gate = NoStep

\* Nobody has reserved above a step that rewinds.
LEMMA RewindIsSound ==
    ASSUME TypeOK, ReservedInv, DenseInv, GateInv, NewestInv, NEW t \in Step, MayRewind(t)
    PROVE  /\ Newest(t) = DOMAIN reserved[t]
           /\ DOMAIN reserved[t] \subseteq Keys(t)
           /\ \A l \in DOMAIN reserved[t] : nonce[l] = reserved[t][l] + 1
<1>0. DOMAIN reserved[t] \subseteq Keys(t) /\ DOMAIN reserved[t] \subseteq Lane
  BY WantType DEF TypeOK
<1>1. CASE stage[t] \in AtGate /\ Ordered(t)
  BY <1>0, <1>1 DEF GateInv, NewestInv, Newest
<1>2. CASE (stage[t] \in AtGate /\ ~Ordered(t)) \/ stage[t] = "presigning"
  <2>1. DOMAIN reserved[t] = {}
    BY <1>2 DEF ReservedInv, Ordered, AtGate, Reserved, Unreserved
  <2> QED BY <2>1 DEF Newest
<1>3. CASE stage[t] = "rollback" /\ gate = NoStep
  <2>1. ASSUME NEW l \in DOMAIN reserved[t] PROVE nonce[l] = reserved[t][l] + 1
    <3>1. nonce[l] \in Nat /\ reserved[t][l] \in Nat /\ reserved[t][l] < nonce[l] /\ l \in Lane
      BY <1>0 DEF TypeOK, DenseInv
    <3>2. ASSUME nonce[l] # reserved[t][l] + 1 PROVE FALSE
      <4>1. nonce[l] - 1 \in 0 .. nonce[l] - 1 /\ reserved[t][l] < nonce[l] - 1
        BY <3>1, <3>2
      <4>2. PICK u \in Step : l \in DOMAIN reserved[u] /\ reserved[u][l] = nonce[l] - 1
        BY <3>1, <4>1 DEF DenseInv
      <4>3. gate = u
        BY <1>3, <4>1, <4>2 DEF NewestInv
      <4> QED BY <1>3, <4>3, NonceLanesAssumption
    <3> QED BY <3>2
  <2> QED BY <1>0, <2>1 DEF Newest
<1> QED BY <1>1, <1>2, <1>3 DEF MayRewind

\* Every step leaves the nonces alone, takes new ones or undoes the newest.
LEMMA NonceSteps ==
    ASSUME TypeOK, ReservedInv, DenseInv, GateInv, NewestInv, [Next]_vars
    PROVE  \/ UNCHANGED <<nonce, reserved, recovery_failed>>
           \/ \E t \in Step : Materialize(t)
           \/ \E t \in Step : MayRewind(t) /\ Rewind(t)
<1> USE DEF lanes, node, MayRewind, AtGate
<1>1. ASSUME NEW t \in Step,
             \/ Start(t) \/ EnterGate(t) \/ GiveUp(t) \/ Acquire(t) \/ FindBusy(t) \/ Wake(t)
             \/ Rearm(t) \/ Sign(t) \/ SendRpc(t) \/ FailBeforeSend(t) \/ RollbackTimesOut(t)
             \/ RpcAnswers(t) \/ DisableLanes(t) \/ ReleaseLanes(t) \/ NodeAccepts(t)
      PROVE  UNCHANGED <<nonce, reserved, recovery_failed>>
  BY <1>1 DEF Start, EnterGate, GiveUp, Acquire, FindBusy, Wake, Rearm, Sign, SendRpc,
     FailBeforeSend, RollbackTimesOut, RpcAnswers, DisableLanes, ReleaseLanes, NodeAccepts
<1>2. ASSUME NEW t \in Step,
             \/ RefuseUnsafe(t) \/ Unwind(t) \/ SignFails(t) \/ RollbackSubmitted(t)
      PROVE  MayRewind(t) /\ Rewind(t)
  BY <1>2 DEF RefuseUnsafe, Unwind, SignFails, RollbackSubmitted, RewindOrDisable
<1>3. ASSUME NEW t \in Step, Check(t) \/ Finish(t)
      PROVE  UNCHANGED <<nonce, reserved, recovery_failed>> \/ (MayRewind(t) /\ Rewind(t))
  BY <1>3 DEF Check, Finish, RewindOrDisable
<1>4. UNCHANGED vars => UNCHANGED <<nonce, reserved, recovery_failed>>
  BY DEF vars
<1> QED BY <1>1, <1>2, <1>3, <1>4 DEF Next

\* What undoing a step's reservation does.
LEMMA RewindEffect ==
    ASSUME TypeOK, ReservedInv, DenseInv, GateInv, NewestInv,
           NEW t \in Step, MayRewind(t), Rewind(t)
    PROVE  /\ \A l \in Lane : nonce'[l] = IF l \in DOMAIN reserved[t] THEN nonce[l] - 1 ELSE nonce[l]
           /\ DOMAIN reserved' = Step /\ DOMAIN reserved'[t] = {}
           /\ \A u \in Step \ {t} : reserved'[u] = reserved[u]
           /\ recovery_failed' = recovery_failed
<1>1. /\ Newest(t) = DOMAIN reserved[t]
      /\ \A l \in DOMAIN reserved[t] : nonce[l] = reserved[t][l] + 1 /\ reserved[t][l] \in Nat
  BY RewindIsSound DEF TypeOK
<1>2. \A l \in Lane : nonce[l] \in Nat
  BY DEF TypeOK
<1>3. \A l \in Lane : nonce'[l] = IF l \in DOMAIN reserved[t] THEN reserved[t][l] ELSE nonce[l]
  BY <1>1 DEF Rewind
<1>4. \A l \in Lane : nonce'[l] = IF l \in DOMAIN reserved[t] THEN nonce[l] - 1 ELSE nonce[l]
  BY <1>1, <1>2, <1>3
<1>5. recovery_failed' = recovery_failed
  BY <1>1 DEF Rewind, TypeOK
<1> QED BY <1>4, <1>5, RewindType DEF ReservedInv

LEMMA RewindNeverFailsStep ==
    ASSUME TypeOK, ReservedInv, DenseInv, GateInv, NewestInv, RewindNeverFails, [Next]_vars
    PROVE  RewindNeverFails'
BY NonceSteps, RewindEffect DEF RewindNeverFails, Materialize

\* Reservations stay dense: the newest comes and goes, never one below it.
LEMMA DenseInvStep ==
    ASSUME TypeOK, ReservedInv, DenseInv, GateInv, NewestInv, [Next]_vars
    PROVE  DenseInv'
<1>0. DOMAIN reserved = Step /\ \A l \in Lane : nonce[l] \in Nat
  BY DEF ReservedInv, TypeOK
<1>00. \A t \in Step : \A l \in DOMAIN reserved[t] : l \in Lane /\ reserved[t][l] \in Nat
  BY WantType DEF TypeOK
<1>1. CASE UNCHANGED <<nonce, reserved, recovery_failed>>
  BY <1>1 DEF DenseInv
<1>2. ASSUME NEW t \in Step, Materialize(t) PROVE DenseInv'
  <2>1. /\ \A l \in Lane : nonce'[l] = IF l \in want[t].ordered THEN nonce[l] + 1 ELSE nonce[l]
        /\ DOMAIN reserved'[t] = want[t].ordered
        /\ \A l \in want[t].ordered : reserved'[t][l] = nonce[l]
        /\ \A u \in Step \ {t} : reserved'[u] = reserved[u]
    BY <1>0, <1>2 DEF Materialize
  <2>2. DOMAIN reserved[t] = {} /\ want[t].ordered \subseteq Lane
    BY <1>2, WantType DEF Materialize, ReservedInv, Unreserved
  <2>3. ASSUME NEW u \in Step, NEW l \in DOMAIN reserved'[u] PROVE reserved'[u][l] < nonce'[l]
    BY <1>0, <1>00, <2>1, <2>2 DEF DenseInv
  <2>4. ASSUME NEW u \in Step, NEW v \in Step, u # v,
               NEW l \in DOMAIN reserved'[u] \cap DOMAIN reserved'[v]
        PROVE  reserved'[u][l] # reserved'[v][l]
    BY <1>0, <1>00, <2>1, <2>2, <2>4 DEF DenseInv
  <2>5. ASSUME NEW l \in Lane, NEW n \in 0 .. nonce'[l] - 1
        PROVE  \E u \in Step : l \in DOMAIN reserved'[u] /\ reserved'[u][l] = n
    <3>1. CASE l \in want[t].ordered /\ n = nonce[l]
      BY <2>1, <3>1
    <3>2. CASE n \in 0 .. nonce[l] - 1
      <4>1. PICK u \in Step : l \in DOMAIN reserved[u] /\ reserved[u][l] = n
        BY <3>2 DEF DenseInv
      <4> QED BY <2>1, <2>2, <4>1
    <3> QED BY <1>0, <2>1, <2>5, <3>1, <3>2
  <2> QED BY <2>3, <2>4, <2>5 DEF DenseInv
<1>3. ASSUME NEW t \in Step, MayRewind(t), Rewind(t) PROVE DenseInv'
  <2>1. /\ \A l \in Lane : nonce'[l] = IF l \in DOMAIN reserved[t] THEN nonce[l] - 1 ELSE nonce[l]
        /\ DOMAIN reserved'[t] = {}
        /\ \A u \in Step \ {t} : reserved'[u] = reserved[u]
        /\ \A l \in DOMAIN reserved[t] : nonce[l] = reserved[t][l] + 1
    BY <1>3, RewindEffect, RewindIsSound
  <2>2. ASSUME NEW u \in Step, NEW l \in DOMAIN reserved'[u] PROVE reserved'[u][l] < nonce'[l]
    <3>1. u # t /\ reserved'[u] = reserved[u]
      BY <2>1
    <3>2. l \in Lane /\ reserved[u][l] < nonce[l] /\ reserved[u][l] \in Nat /\ nonce[l] \in Nat
      BY <1>0, <1>00, <3>1 DEF DenseInv
    <3>3. l \in DOMAIN reserved[t] => reserved[t][l] # reserved[u][l] /\ nonce[l] = reserved[t][l] + 1
                                      /\ reserved[t][l] \in Nat
      BY <1>00, <2>1, <3>1 DEF DenseInv
    <3> QED BY <2>1, <3>1, <3>2, <3>3
  <2>3. ASSUME NEW u \in Step, NEW v \in Step, u # v,
               NEW l \in DOMAIN reserved'[u] \cap DOMAIN reserved'[v]
        PROVE  reserved'[u][l] # reserved'[v][l]
    BY <2>1, <2>3 DEF DenseInv
  <2>4. ASSUME NEW l \in Lane, NEW n \in 0 .. nonce'[l] - 1
        PROVE  \E u \in Step : l \in DOMAIN reserved'[u] /\ reserved'[u][l] = n
    <3>1. n \in 0 .. nonce[l] - 1 /\ (l \in DOMAIN reserved[t] => n # reserved[t][l])
      BY <1>0, <1>00, <2>1
    <3>2. PICK u \in Step : l \in DOMAIN reserved[u] /\ reserved[u][l] = n
      BY <3>1 DEF DenseInv
    <3> QED BY <2>1, <3>1, <3>2
  <2> QED BY <2>2, <2>3, <2>4 DEF DenseInv
<1> QED BY <1>1, <1>2, <1>3, NonceSteps

-----------------------------------------------------------------------------
(* Who has reservations and who has the gate                               *)

LEMMA ReservedInvStep ==
    ASSUME TypeOK, ReservedInv, DenseInv, GateInv, NewestInv, [Next]_vars
    PROVE  ReservedInv'
<1>0. DOMAIN stage = Step /\ DOMAIN want = Step /\ DOMAIN reserved = Step
  BY DEF TypeOK, ReservedInv
<1>00. \A t \in Step : Rewind(t) => /\ DOMAIN reserved' = Step /\ DOMAIN reserved'[t] = {}
                                    /\ \A u \in Step \ {t} : reserved'[u] = reserved[u]
  BY <1>0, RewindType
<1> USE <1>0, <1>00 DEF ReservedInv, Unreserved, Reserved, Move, lanes
<1>1. ASSUME NEW t \in Step, Start(t) PROVE ReservedInv'
  BY <1>1 DEF Start
<1>2. ASSUME NEW t \in Step, Materialize(t) PROVE ReservedInv'
  BY <1>2 DEF Materialize
<1>3. ASSUME NEW t \in Step, RefuseUnsafe(t) \/ Unwind(t) \/ SignFails(t) \/ RollbackSubmitted(t)
      PROVE  ReservedInv'
  BY <1>3 DEF RefuseUnsafe, Unwind, SignFails, RollbackSubmitted, RewindOrDisable
<1>4. ASSUME NEW t \in Step, Check(t) \/ Finish(t) PROVE ReservedInv'
  BY <1>4 DEF Check, Finish, RewindOrDisable
<1>5. ASSUME NEW t \in Step, EnterGate(t) \/ GiveUp(t) \/ Acquire(t) PROVE ReservedInv'
  BY <1>5 DEF EnterGate, GiveUp, Acquire
<1>6. ASSUME NEW t \in Step, FindBusy(t) PROVE ReservedInv'
  BY <1>6 DEF FindBusy, Ordered
<1>7. ASSUME NEW t \in Step, Wake(t) \/ Rearm(t) \/ Sign(t) PROVE ReservedInv'
  BY <1>7 DEF Wake, Rearm, Sign, GateInv, Ordered
<1>8. ASSUME NEW t \in Step, \/ SendRpc(t) \/ FailBeforeSend(t) \/ RollbackTimesOut(t) \/ RpcAnswers(t)
                             \/ DisableLanes(t) \/ ReleaseLanes(t) \/ NodeAccepts(t)
      PROVE  ReservedInv'
  BY <1>8 DEF SendRpc, FailBeforeSend, RollbackTimesOut, RpcAnswers, DisableLanes, ReleaseLanes,
     NodeAccepts
<1>9. CASE UNCHANGED vars
  BY <1>9 DEF vars
<1> QED BY <1>1, <1>2, <1>3, <1>4, <1>5, <1>6, <1>7, <1>8, <1>9 DEF Next

\* The gate goes from a step that is at work on its nonces to nobody.
LEMMA GateInvStep ==
    ASSUME TypeOK, ReservedInv, GateInv, [Next]_vars
    PROVE  GateInv'
<1>0. DOMAIN stage = Step /\ DOMAIN want = Step /\ gate \in Step \cup {NoStep} /\ NoStep \notin Step
  BY NonceLanesAssumption DEF TypeOK
<1>00. \A t \in Step : stage[t] \in {"new", "gate", "materialize", "check", "armed", "unwind", "parked",
                           "presigning", "rearm"} \cup Holding \cup Ended
  BY DEF TypeOK
<1> USE <1>0 DEF GateInv, AtGate, Move, lanes, LeaveGate, Ordered, Unreserved
<1>1. ASSUME NEW t \in Step, Start(t) PROVE GateInv'
  BY <1>1 DEF Start
<1>2. ASSUME NEW t \in Step, Materialize(t) \/ EnterGate(t) PROVE GateInv'
  BY <1>2 DEF Materialize, EnterGate
<1>3. ASSUME NEW t \in Step, GiveUp(t) \/ Wake(t) \/ Rearm(t) PROVE GateInv'
  BY <1>3 DEF GiveUp, Wake, Rearm
<1>4. ASSUME NEW t \in Step, Check(t) PROVE GateInv'
  BY <1>4 DEF Check
<1>5. ASSUME NEW t \in Step, Acquire(t) PROVE GateInv'
  BY <1>5 DEF Acquire
<1>6. ASSUME NEW t \in Step, FindBusy(t) PROVE GateInv'
  BY <1>6 DEF FindBusy
<1>7. ASSUME NEW t \in Step, RefuseUnsafe(t) \/ Unwind(t) PROVE GateInv'
  BY <1>7 DEF RefuseUnsafe, Unwind
<1>8. ASSUME NEW t \in Step, Sign(t) PROVE GateInv'
  BY <1>8 DEF Sign
<1>9. ASSUME NEW t \in Step, SignFails(t) PROVE GateInv'
  BY <1>9 DEF SignFails
<1>10. ASSUME NEW t \in Step, Finish(t) PROVE GateInv'
  BY <1>10 DEF Finish
<1>11. ASSUME NEW t \in Step, \/ SendRpc(t) \/ FailBeforeSend(t) \/ RollbackSubmitted(t)
                              \/ RollbackTimesOut(t) \/ DisableLanes(t)
       PROVE  GateInv'
  BY <1>11 DEF SendRpc, FailBeforeSend, RollbackSubmitted, RollbackTimesOut, DisableLanes
<1>12. ASSUME NEW t \in Step, RpcAnswers(t) \/ ReleaseLanes(t) \/ NodeAccepts(t) PROVE GateInv'
  BY <1>12 DEF RpcAnswers, ReleaseLanes, NodeAccepts
<1>13. CASE UNCHANGED vars
  BY <1>13 DEF vars
<1> QED BY <1>1, <1>2, <1>3, <1>4, <1>5, <1>6, <1>7, <1>8, <1>9, <1>10, <1>11, <1>12, <1>13 DEF Next

LEMMA LanesAreOwnedStep ==
    ASSUME TypeOK, LanesAreOwned, [Next]_vars
    PROVE  LanesAreOwned'
<1>0. /\ DOMAIN stage = Step /\ DOMAIN want = Step /\ DOMAIN active = Lane /\ NoStep \notin Step
      /\ \A t \in Step : Keys(t) \subseteq Lane
  BY NonceLanesAssumption, WantType DEF TypeOK
<1> USE <1>0 DEF LanesAreOwned, Holding, Keys, Move, lanes
<1>1. ASSUME NEW t \in Step, Start(t) PROVE LanesAreOwned'
  BY <1>1 DEF Start
<1>2. ASSUME NEW t \in Step, EnterGate(t) \/ GiveUp(t) \/ Materialize(t) PROVE LanesAreOwned'
  BY <1>2 DEF EnterGate, GiveUp, Materialize
<1>3. ASSUME NEW t \in Step, Check(t) \/ RefuseUnsafe(t) \/ Unwind(t) PROVE LanesAreOwned'
  BY <1>3 DEF Check, RefuseUnsafe, Unwind
<1>4. ASSUME NEW t \in Step, Acquire(t) PROVE LanesAreOwned'
  <2>1. \A l \in Keys(t) : active[l] = NoStep
    BY <1>4 DEF Acquire, Busy
  <2>2. /\ \A l \in Lane : active'[l] = IF l \in Keys(t) THEN t ELSE active[l]
        /\ want' = want /\ stage'[t] \in Holding /\ \A u \in Step \ {t} : stage'[u] = stage[u]
        /\ stage[t] \notin Holding
    BY <1>4 DEF Acquire
  <2> QED BY <2>1, <2>2
<1>5. ASSUME NEW t \in Step, FindBusy(t) \/ Wake(t) \/ Rearm(t) PROVE LanesAreOwned'
  BY <1>5 DEF FindBusy, Wake, Rearm
<1>6. ASSUME NEW t \in Step, Sign(t) \/ SignFails(t) PROVE LanesAreOwned'
  BY <1>6 DEF Sign, SignFails
<1>7. ASSUME NEW t \in Step, Finish(t) PROVE LanesAreOwned'
  BY <1>7 DEF Finish, FreeLanes
<1>8. ASSUME NEW t \in Step, SendRpc(t) \/ FailBeforeSend(t) \/ RollbackSubmitted(t)
      PROVE  LanesAreOwned'
  BY <1>8 DEF SendRpc, FailBeforeSend, RollbackSubmitted
<1>9. ASSUME NEW t \in Step, RollbackTimesOut(t) \/ RpcAnswers(t) \/ DisableLanes(t) \/ NodeAccepts(t)
      PROVE  LanesAreOwned'
  BY <1>9 DEF RollbackTimesOut, RpcAnswers, DisableLanes, NodeAccepts
<1>10. ASSUME NEW t \in Step, ReleaseLanes(t) PROVE LanesAreOwned'
  BY <1>10 DEF ReleaseLanes, FreeLanes
<1>11. CASE UNCHANGED vars
  BY <1>11 DEF vars
<1> QED BY <1>1, <1>2, <1>3, <1>4, <1>5, <1>6, <1>7, <1>8, <1>9, <1>10, <1>11 DEF Next

\* A step is in the gate with a reservation only if it was, or has just taken it.
LEMMA GateHeld ==
    ASSUME TypeOK, GateInv, [Next]_vars, NEW t \in Step, gate' = t, stage'[t] \in AtGate
    PROVE  gate = t /\ (stage[t] \in AtGate \/ Materialize(t))
<1> USE DEF AtGate, Move, LeaveGate, lanes, GateInv, TypeOK
<1>0. DOMAIN stage = Step /\ NoStep \notin Step
  BY NonceLanesAssumption
<1> USE <1>0
<1>1. ASSUME NEW u \in Step, \/ Start(u) \/ EnterGate(u) \/ GiveUp(u) \/ Wake(u)
                             \/ Rearm(u) \/ Sign(u) \/ SignFails(u)
      PROVE  gate = t /\ stage[t] \in AtGate
  BY <1>1 DEF Start, EnterGate, GiveUp, Wake, Rearm, Sign, SignFails
<1>2. ASSUME NEW u \in Step, \/ Check(u) \/ Acquire(u) \/ RefuseUnsafe(u) \/ FindBusy(u)
                             \/ Unwind(u) \/ Finish(u)
      PROVE  gate = t /\ stage[t] \in AtGate
  BY <1>2 DEF Check, Acquire, RefuseUnsafe, FindBusy, Unwind, Finish
<1>3. ASSUME NEW u \in Step, \/ SendRpc(u) \/ FailBeforeSend(u) \/ RollbackSubmitted(u)
                             \/ RollbackTimesOut(u) \/ RpcAnswers(u) \/ DisableLanes(u)
                             \/ ReleaseLanes(u) \/ NodeAccepts(u)
      PROVE  gate = t /\ stage[t] \in AtGate
  BY <1>3 DEF SendRpc, FailBeforeSend, RollbackSubmitted, RollbackTimesOut, RpcAnswers,
     DisableLanes, ReleaseLanes, NodeAccepts
<1>4. ASSUME NEW u \in Step, Materialize(u) PROVE gate = t /\ Materialize(t)
  BY <1>4 DEF Materialize
<1>5. UNCHANGED vars => gate = t /\ stage[t] \in AtGate
  BY DEF vars
<1> QED BY <1>1, <1>2, <1>3, <1>4, <1>5 DEF Next

\* The holder leaves it without a reservation, unless it goes on to submit.
LEMMA GateLeft ==
    ASSUME TypeOK, ReservedInv, GateInv, [Next]_vars, NEW t \in Step, gate = t, gate' # t
    PROVE  stage[t] = "finish" \/ DOMAIN reserved'[t] = {}
<1> USE DEF LeaveGate, lanes
<1>0. /\ DOMAIN reserved = Step /\ NoStep \notin Step
      /\ stage[t] = "materialize" => DOMAIN reserved[t] = {}
      /\ stage[t] = "armed" /\ ~Ordered(t) => DOMAIN reserved[t] = {}
  BY NonceLanesAssumption DEF ReservedInv, Reserved, Unreserved, Ordered
<1>00. Rewind(t) => DOMAIN reserved'[t] = {}
  BY <1>0, RewindType
<1> USE <1>0, <1>00
<1>1. ASSUME NEW u \in Step, \/ Start(u) \/ EnterGate(u) \/ GiveUp(u) \/ Materialize(u) \/ Wake(u)
                             \/ Rearm(u) \/ Sign(u) \/ SignFails(u)
      PROVE  DOMAIN reserved'[t] = {}
  BY <1>1 DEF Start, EnterGate, GiveUp, Materialize, Wake, Rearm, Sign, SignFails, RewindOrDisable,
     GateInv, AtGate
<1>2. ASSUME NEW u \in Step, Check(u) \/ RefuseUnsafe(u) \/ Unwind(u) \/ Finish(u)
      PROVE  stage[t] = "finish" \/ DOMAIN reserved'[t] = {}
  BY <1>2 DEF Check, RefuseUnsafe, Unwind, Finish, RewindOrDisable
<1>3. ASSUME NEW u \in Step, Acquire(u) \/ FindBusy(u) PROVE DOMAIN reserved'[t] = {}
  BY <1>3 DEF Acquire, FindBusy
<1>4. ASSUME NEW u \in Step, \/ SendRpc(u) \/ FailBeforeSend(u) \/ RollbackSubmitted(u)
                             \/ RollbackTimesOut(u) \/ RpcAnswers(u) \/ DisableLanes(u)
                             \/ ReleaseLanes(u) \/ NodeAccepts(u)
      PROVE  FALSE
  BY <1>4 DEF SendRpc, FailBeforeSend, RollbackSubmitted, RollbackTimesOut, RpcAnswers,
     DisableLanes, ReleaseLanes, NodeAccepts
<1>5. ~UNCHANGED vars
  BY DEF vars
<1> QED BY <1>1, <1>2, <1>3, <1>4, <1>5 DEF Next

\* A step comes to submit from finish_prepared_submission only.
LEMMA ToSubmit ==
    ASSUME TypeOK, [Next]_vars, NEW t \in Step, stage'[t] \in {"submit", "rollback"}
    PROVE  \/ stage[t] \in {"submit", "rollback"}
           \/ Finish(t) /\ ~HasAmbiguousLane(t) /\ UNCHANGED <<nonce, reserved>>
<1> USE DEF Move, lanes
<1>0. DOMAIN stage = Step
  BY DEF TypeOK
<1> USE <1>0
<1>1. ASSUME NEW u \in Step, \/ Start(u) \/ EnterGate(u) \/ GiveUp(u) \/ Materialize(u) \/ Wake(u)
                             \/ Rearm(u) \/ Sign(u) \/ SignFails(u)
      PROVE  stage[t] \in {"submit", "rollback"}
  BY <1>1 DEF Start, EnterGate, GiveUp, Materialize, Wake, Rearm, Sign, SignFails
<1>2. ASSUME NEW u \in Step, \/ Check(u) \/ Acquire(u) \/ RefuseUnsafe(u) \/ FindBusy(u) \/ Unwind(u)
      PROVE  stage[t] \in {"submit", "rollback"}
  BY <1>2 DEF Check, Acquire, RefuseUnsafe, FindBusy, Unwind
<1>3. ASSUME NEW u \in Step, Finish(u)
      PROVE  \/ stage[t] \in {"submit", "rollback"}
             \/ u = t /\ ~HasAmbiguousLane(t) /\ UNCHANGED <<nonce, reserved>>
  BY <1>3 DEF Finish
<1>4. ASSUME NEW u \in Step, \/ SendRpc(u) \/ FailBeforeSend(u) \/ RollbackSubmitted(u)
                             \/ RollbackTimesOut(u) \/ RpcAnswers(u) \/ DisableLanes(u)
                             \/ ReleaseLanes(u) \/ NodeAccepts(u)
      PROVE  stage[t] \in {"submit", "rollback"}
  BY <1>4 DEF SendRpc, FailBeforeSend, RollbackSubmitted, RollbackTimesOut, RpcAnswers,
     DisableLanes, ReleaseLanes, NodeAccepts
<1>5. UNCHANGED vars => stage[t] \in {"submit", "rollback"}
  BY DEF vars
<1> QED BY <1>1, <1>2, <1>3, <1>4, <1>5 DEF Next

\* Only the gate's holder can reserve above somebody, and when it submits it
\* owns the lanes, so nobody below it can still undo.
LEMMA NewestInvStep ==
    ASSUME TypeOK, ReservedInv, DenseInv, GateInv, NewestInv, LanesAreOwned, [Next]_vars
    PROVE  NewestInv'
<1>0. /\ DOMAIN reserved = Step /\ gate \in Step \cup {NoStep} /\ NoStep \notin Step
      /\ \A t \in Step : DOMAIN reserved[t] \subseteq Keys(t) /\ DOMAIN reserved[t] \subseteq Lane
  BY NonceLanesAssumption, WantType DEF TypeOK, ReservedInv
<1>1. \A t \in Step : \A l \in DOMAIN reserved[t] :
          l \in Lane /\ nonce[l] \in Nat /\ reserved[t][l] \in Nat /\ reserved[t][l] < nonce[l]
  BY <1>0 DEF TypeOK, DenseInv
<1>2. ASSUME NEW t \in Step, gate' = t, stage'[t] \in AtGate, NEW l \in DOMAIN reserved'[t]
      PROVE  nonce'[l] = reserved'[t][l] + 1
  <2>1. CASE Materialize(t)
    BY <1>0, <2>1, <1>2, WantType DEF Materialize
  <2>2. CASE stage[t] \in AtGate
    <3>1. gate = t
      BY <1>2, GateHeld
    <3>2. CASE UNCHANGED <<nonce, reserved, recovery_failed>>
      BY <1>2, <2>2, <3>1, <3>2 DEF NewestInv
    <3>3. ASSUME NEW u \in Step, Materialize(u) PROVE FALSE
      BY <2>2, <3>1, <3>3 DEF Materialize, GateInv, AtGate
    <3>4. ASSUME NEW u \in Step, MayRewind(u), Rewind(u) PROVE nonce'[l] = reserved'[t][l] + 1
      <4>1. u # t /\ reserved'[t] = reserved[t] /\ l \in Lane
        BY <1>0, <1>2, <3>4, RewindEffect
      <4>2. DOMAIN reserved[u] = {}
        BY <1>0, <3>1, <3>4, <4>1 DEF MayRewind, GateInv, ReservedInv, Reserved, Unreserved, Ordered,
           AtGate
      <4>3. nonce'[l] = nonce[l]
        BY <3>4, <4>1, <4>2, RewindEffect
      <4> QED BY <1>2, <2>2, <3>1, <4>1, <4>3 DEF NewestInv
    <3> QED BY <3>2, <3>3, <3>4, NonceSteps
  <2> QED BY <1>2, <2>1, <2>2, GateHeld
<1>3. ASSUME NEW t \in Step, NEW u \in Step, stage'[t] \in {"submit", "rollback"},
             NEW l \in DOMAIN reserved'[t] \cap DOMAIN reserved'[u],
             reserved'[t][l] < reserved'[u][l]
      PROVE  gate' = u
  <2>1. CASE reserved'[t] = reserved[t] /\ reserved'[u] = reserved[u]
    <3>1. CASE Finish(t) /\ UNCHANGED <<nonce, reserved>>
      <4>1. gate = t /\ stage[t] \in AtGate
        BY <1>3, <2>1, <3>1 DEF Finish, GateInv, AtGate, ReservedInv, Reserved, Ordered
      <4>2. nonce[l] = reserved[t][l] + 1
        BY <1>3, <2>1, <4>1 DEF NewestInv
      <4>3. reserved[u][l] < nonce[l] /\ reserved[u][l] \in Nat /\ reserved[t][l] \in Nat
        BY <1>1, <1>3, <2>1
      <4> QED BY <1>3, <2>1, <4>2, <4>3
    <3>2. CASE stage[t] \in {"submit", "rollback"}
      <4>1. gate = u
        BY <1>3, <2>1, <3>2 DEF NewestInv
      <4>2. ASSUME gate' # u PROVE FALSE
        <5>1. stage[u] = "finish"
          BY <1>3, <4>1, <4>2, GateLeft
        <5>2. l \in Lane /\ active[l] = u /\ active[l] = t
          BY <1>0, <1>3, <2>1, <3>2, <5>1 DEF LanesAreOwned, Holding
        <5> QED BY <3>2, <5>1, <5>2
      <4> QED BY <4>2
    <3> QED BY <1>3, <3>1, <3>2, ToSubmit
  <2>2. ASSUME NEW v \in Step, Materialize(v) PROVE gate' = u
    <3>1. v # t /\ gate' = v /\ \A w \in Step \ {v} : reserved'[w] = reserved[w]
      BY <1>0, <1>3, <2>2 DEF Materialize, GateInv, TypeOK, Move
    <3> QED BY <2>1, <3>1
  <2>3. ASSUME NEW v \in Step, MayRewind(v), Rewind(v)
        PROVE  reserved'[t] = reserved[t] /\ reserved'[u] = reserved[u]
    BY <1>3, <2>3, RewindEffect
  <2> QED BY <2>1, <2>2, <2>3, NonceSteps
<1> QED BY <1>2, <1>3 DEF NewestInv

-----------------------------------------------------------------------------
(* What was sent                                                           *)

LEMMA SentInvStep ==
    ASSUME TypeOK, ReservedInv, SentInv, [Next]_vars
    PROVE  SentInv'
<1>0. DOMAIN stage = Step /\ DOMAIN want = Step /\ DOMAIN reserved = Step /\ DOMAIN sent \subseteq Step
  BY DEF TypeOK, ReservedInv
<1>00. \A t \in Step : Rewind(t) => /\ DOMAIN reserved' = Step /\ DOMAIN reserved'[t] = {}
                                    /\ \A u \in Step \ {t} : reserved'[u] = reserved[u]
  BY <1>0, RewindType
<1>000. \A t \in Step : /\ stage[t] \in Unreserved => DOMAIN reserved[t] = {}
                        /\ stage[t] \in Reserved => DOMAIN reserved[t] = want[t].ordered
  BY DEF ReservedInv
<1> USE <1>0, <1>00, <1>000 DEF SentInv, Unreserved, Reserved, Move, lanes, node, Keys, Ended, Ordered
<1>1. ASSUME NEW t \in Step, Start(t) \/ EnterGate(t) \/ GiveUp(t) PROVE SentInv'
  BY <1>1 DEF Start, EnterGate, GiveUp
<1>2. ASSUME NEW t \in Step, Materialize(t) PROVE SentInv'
  BY <1>2 DEF Materialize
<1>3. ASSUME NEW t \in Step, RefuseUnsafe(t) \/ Unwind(t) \/ SignFails(t) PROVE SentInv'
  BY <1>3 DEF RefuseUnsafe, Unwind, SignFails, RewindOrDisable
<1>4. ASSUME NEW t \in Step, Check(t) \/ Finish(t) PROVE SentInv'
  BY <1>4 DEF Check, Finish, RewindOrDisable
<1>5. ASSUME NEW t \in Step, RollbackSubmitted(t) \/ RollbackTimesOut(t) PROVE SentInv'
  BY <1>5 DEF RollbackSubmitted, RollbackTimesOut, RewindOrDisable
<1>6. ASSUME NEW t \in Step, Acquire(t) \/ FindBusy(t) PROVE SentInv'
  BY <1>6 DEF Acquire, FindBusy
<1>7. ASSUME NEW t \in Step, Wake(t) \/ Rearm(t) \/ Sign(t) PROVE SentInv'
  BY <1>7 DEF Wake, Rearm, Sign
<1>8. ASSUME NEW t \in Step, SendRpc(t) PROVE SentInv'
  BY <1>8 DEF SendRpc
<1>9. ASSUME NEW t \in Step, FailBeforeSend(t) \/ DisableLanes(t) PROVE SentInv'
  BY <1>9 DEF FailBeforeSend, DisableLanes
<1>10. ASSUME NEW t \in Step, RpcAnswers(t) PROVE SentInv'
  BY <1>10 DEF RpcAnswers
<1>11. ASSUME NEW t \in Step, ReleaseLanes(t) \/ NodeAccepts(t) PROVE SentInv'
  BY <1>11 DEF ReleaseLanes, NodeAccepts
<1>12. CASE UNCHANGED vars
  BY <1>12 DEF vars
<1> QED BY <1>1, <1>2, <1>3, <1>4, <1>5, <1>6, <1>7, <1>8, <1>9, <1>10, <1>11, <1>12 DEF Next

\* The node's acceptance is final.
LEMMA AcknowledgedStays == ASSUME TypeOK, [Next]_vars PROVE Acknowledged \subseteq Acknowledged'
<1>0. DOMAIN stage = Step
  BY DEF TypeOK
<1> USE <1>0 DEF Acknowledged, Move, lanes
<1>1. ASSUME NEW u \in Step, \/ Start(u) \/ EnterGate(u) \/ GiveUp(u) \/ Materialize(u) \/ Wake(u)
                             \/ Rearm(u) \/ Sign(u) \/ SignFails(u)
      PROVE  Acknowledged \subseteq Acknowledged'
  BY <1>1 DEF Start, EnterGate, GiveUp, Materialize, Wake, Rearm, Sign, SignFails
<1>2. ASSUME NEW u \in Step, \/ Check(u) \/ Acquire(u) \/ RefuseUnsafe(u) \/ FindBusy(u) \/ Unwind(u)
                             \/ Finish(u)
      PROVE  Acknowledged \subseteq Acknowledged'
  BY <1>2 DEF Check, Acquire, RefuseUnsafe, FindBusy, Unwind, Finish
<1>3. ASSUME NEW u \in Step, \/ SendRpc(u) \/ FailBeforeSend(u) \/ RollbackSubmitted(u)
                             \/ RollbackTimesOut(u) \/ RpcAnswers(u) \/ DisableLanes(u)
                             \/ ReleaseLanes(u) \/ NodeAccepts(u)
      PROVE  Acknowledged \subseteq Acknowledged'
  BY <1>3 DEF SendRpc, FailBeforeSend, RollbackSubmitted, RollbackTimesOut, RpcAnswers,
     DisableLanes, ReleaseLanes, NodeAccepts
<1>4. UNCHANGED vars => Acknowledged \subseteq Acknowledged'
  BY DEF vars
<1> QED BY <1>1, <1>2, <1>3, <1>4 DEF Next

\* Between submission and undoing it, nothing happens to a reservation.
LEMMA ReservationStays ==
    ASSUME TypeOK, ReservedInv, DenseInv, GateInv, NewestInv, [Next]_vars, NEW t \in Step,
           stage[t] \in {"submit", "rollback", "sent", "uncertain", "release", "accepted"} \cup Ended
    PROVE  reserved'[t] = reserved[t] \/ (stage[t] = "rollback" /\ DOMAIN reserved'[t] = {})
<1>1. ASSUME NEW u \in Step, Materialize(u) PROVE reserved'[t] = reserved[t]
  BY <1>1 DEF Materialize, ReservedInv, Ended
<1>2. ASSUME NEW u \in Step, MayRewind(u), Rewind(u)
      PROVE  reserved'[t] = reserved[t] \/ (stage[t] = "rollback" /\ DOMAIN reserved'[t] = {})
  BY <1>2, RewindEffect DEF MayRewind, AtGate, Ended
<1> QED BY <1>1, <1>2, NonceSteps

\* At the moment a step may submit, every nonce below its own is done: nobody
\* else is in the gate, nobody else has the lane, and the lane is not disabled.
LEMMA OrderInvStep ==
    ASSUME TypeOK, ReservedInv, DenseInv, GateInv, NewestInv, SentInv, OrderInv, LanesAreOwned,
           [Next]_vars
    PROVE  OrderInv'
<1> SUFFICES ASSUME NEW t \in Step, t \in DOMAIN sent' \/ stage'[t] \in {"submit", "rollback"},
                    NEW l \in DOMAIN reserved'[t], NEW n \in 0 .. reserved'[t][l] - 1
             PROVE  \E u \in Acknowledged' : l \in DOMAIN reserved'[u] /\ reserved'[u][l] = n
  BY DEF OrderInv
<1>1. ASSUME NEW u \in Acknowledged, l \in DOMAIN reserved[u], reserved[u][l] = n
      PROVE  \E v \in Acknowledged' : l \in DOMAIN reserved'[v] /\ reserved'[v][l] = n
  <2>1. reserved'[u] = reserved[u]
    BY ReservationStays DEF Acknowledged, Ended
  <2> QED BY <1>1, <2>1, AcknowledgedStays
<1>2. CASE t \in DOMAIN sent \/ stage[t] \in {"submit", "rollback"}
  <2>1. reserved'[t] = reserved[t]
    BY <1>2, ReservationStays DEF SentInv, Ended
  <2>2. \E u \in Acknowledged : l \in DOMAIN reserved[u] /\ reserved[u][l] = n
    BY <1>2, <2>1 DEF OrderInv
  <2> QED BY <1>1, <2>2
<1>3. CASE Finish(t) /\ ~HasAmbiguousLane(t) /\ UNCHANGED <<nonce, reserved>>
  <2>1. /\ stage[t] = "finish" /\ l \in want[t].ordered /\ l \in Keys(t) /\ l \in Lane
        /\ Ordered(t) /\ l \notin ambiguous /\ gate = t /\ active[l] = t
    BY <1>3, WantType DEF Finish, ReservedInv, Reserved, Ordered, HasAmbiguousLane, GateInv, AtGate,
       LanesAreOwned, Holding
  <2>2. n \in 0 .. nonce[l] - 1 /\ n < reserved[t][l] /\ reserved[t][l] \in Nat
    BY <1>3, <2>1 DEF DenseInv, TypeOK
  <2>3. PICK u \in Step : l \in DOMAIN reserved[u] /\ reserved[u][l] = n
    BY <2>1, <2>2 DEF DenseInv
  <2>4. u # t /\ l \in Keys(u) /\ l \in want[u].ordered
    BY <2>2, <2>3, WantType DEF TypeOK
  <2>5. stage[u] \notin Holding
    BY <2>1, <2>4 DEF LanesAreOwned
  <2>6. stage[u] \notin Unreserved
    BY <2>3 DEF ReservedInv
  <2>7. stage[u] \notin AtGate
    BY <2>1, <2>4 DEF GateInv, Ordered
  <2>8. stage[u] # "failed"
    BY <2>1, <2>3, <2>4 DEF SentInv
  <2>9. stage[u] = "done"
    BY <2>5, <2>6, <2>7, <2>8 DEF TypeOK, Unreserved, AtGate, Ended, Holding
  <2> QED BY <1>1, <2>3, <2>9 DEF Acknowledged
<1>4. t \in DOMAIN sent' => t \in DOMAIN sent \/ stage[t] = "submit"
  BY ZenonT(60) DEF Next, Start, EnterGate, GiveUp, Materialize, Check, Acquire, RefuseUnsafe, FindBusy, Unwind,
     Wake, Rearm, Sign, SignFails, Finish, SendRpc, FailBeforeSend, RollbackSubmitted,
     RollbackTimesOut, RpcAnswers, DisableLanes, ReleaseLanes, NodeAccepts, vars, node
<1> QED BY <1>2, <1>3, <1>4, ToSubmit

-----------------------------------------------------------------------------
(* Steps of one instance, and those that wait                              *)

\* Only Acquire gives a step lanes, and keys are chosen long before that.
LEMMA AcquiredSteps ==
    ASSUME TypeOK, SentInv, [Next]_vars
    PROVE  /\ \A t \in Acquired : want'[t] = want[t]
           /\ \/ Acquired' \subseteq Acquired /\ seen' = seen
              \/ \E t \in Step : Acquire(t) /\ Acquired' \subseteq Acquired \cup {t}
<1>0. DOMAIN stage = Step /\ DOMAIN want = Step
  BY DEF TypeOK
<1>00. \A t \in Acquired : t \in Step /\ stage[t] # "new"
  BY DEF Acquired, SentInv, Ended, Holding, TypeOK
<1> USE <1>0, <1>00 DEF Acquired, Holding, Move, lanes, node
<1>1. ASSUME NEW t \in Step, Start(t)
      PROVE  Acquired' \subseteq Acquired /\ seen' = seen /\ \A u \in Acquired : want'[u] = want[u]
  BY <1>1 DEF Start
<1>2. ASSUME NEW t \in Step, Acquire(t) PROVE want' = want /\ Acquired' \subseteq Acquired \cup {t}
  BY <1>2 DEF Acquire
<1>3. ASSUME NEW t \in Step, \/ EnterGate(t) \/ GiveUp(t) \/ Materialize(t) \/ Check(t)
                             \/ RefuseUnsafe(t) \/ FindBusy(t) \/ Unwind(t)
      PROVE  Acquired' \subseteq Acquired /\ seen' = seen /\ want' = want
  BY <1>3 DEF EnterGate, GiveUp, Materialize, Check, RefuseUnsafe, FindBusy, Unwind
<1>4. ASSUME NEW t \in Step, Wake(t) \/ Rearm(t) \/ Sign(t) \/ SignFails(t) \/ Finish(t)
      PROVE  Acquired' \subseteq Acquired /\ seen' = seen /\ want' = want
  BY <1>4 DEF Wake, Rearm, Sign, SignFails, Finish
<1>5. ASSUME NEW t \in Step, \/ SendRpc(t) \/ FailBeforeSend(t) \/ RollbackSubmitted(t)
                             \/ RollbackTimesOut(t)
      PROVE  Acquired' \subseteq Acquired /\ seen' = seen /\ want' = want
  BY <1>5 DEF SendRpc, FailBeforeSend, RollbackSubmitted, RollbackTimesOut
<1>6. ASSUME NEW t \in Step, RpcAnswers(t) \/ DisableLanes(t) \/ ReleaseLanes(t) \/ NodeAccepts(t)
      PROVE  Acquired' \subseteq Acquired /\ seen' = seen /\ want' = want
  BY <1>6 DEF RpcAnswers, DisableLanes, ReleaseLanes, NodeAccepts
<1>7. UNCHANGED vars => Acquired' = Acquired /\ seen' = seen /\ want' = want
  BY DEF vars
<1> QED BY <1>1, <1>2, <1>3, <1>4, <1>5, <1>6, <1>7 DEF Next

\* seen_by_instance remembers one step of each lane, and the steps before it
\* come before whoever may follow it.
LEMMA SeenInvStep ==
    ASSUME TypeOK, SentInv, SeenInv, [Next]_vars
    PROVE  SeenInv'
<1>0. \A t \in Acquired : t \in Step /\ Keys(t)' = Keys(t) /\ Keys(t) \subseteq Lane
  BY AcquiredSteps, WantType DEF Acquired, Keys, TypeOK
<1>1. CASE Acquired' \subseteq Acquired /\ seen' = seen
  BY <1>0, <1>1 DEF SeenInv
<1>2. ASSUME NEW t \in Step, Acquire(t), Acquired' \subseteq Acquired \cup {t} PROVE SeenInv'
  <2>1. Keys(t)' = Keys(t) /\ Keys(t) \subseteq Lane /\ ~Unsafe(t)
    BY <1>2, WantType DEF Acquire, Keys
  <2>2. ASSUME NEW u \in Step, NEW l \in Lane
        PROVE  seen'[<<InstanceOf[u], l>>] = IF InstanceOf[u] = InstanceOf[t] /\ l \in Keys(t)
                                         THEN t ELSE seen[<<InstanceOf[u], l>>]
    <3>1. <<InstanceOf[u], l>> \in DOMAIN seen
      BY DEF TypeOK
    <3> QED BY <1>2, <3>1 DEF Acquire
  <2>3. ASSUME NEW u \in Acquired, NEW l \in Keys(u) \cap Keys(t), InstanceOf[u] = InstanceOf[t]
        PROVE  u \in Before[t] \cup {t}
    <3> DEFINE last == seen[<<InstanceOf[t], l>>]
    <3>1. last \in Step /\ u \in Before[last] \cup {last}
      BY <2>3 DEF SeenInv
    <3>2. last \in Before[t] \cup {t}
      BY <2>1, <3>1, NonceLanesAssumption DEF Unsafe
    <3> HIDE DEF last
    <3> QED BY <3>1, <3>2, NonceLanesAssumption
  <2>4. ASSUME NEW u \in Acquired', NEW l \in Keys(u)'
        PROVE  seen'[<<InstanceOf[u], l>>] \in Step
               /\ u \in Before[seen'[<<InstanceOf[u], l>>]] \cup {seen'[<<InstanceOf[u], l>>]}
    <3>1. u \in Step /\ l \in Keys(u) /\ l \in Lane /\ (u = t \/ u \in Acquired)
      BY <1>0, <1>2, <2>1
    <3>2. CASE InstanceOf[u] = InstanceOf[t] /\ l \in Keys(t)
      BY <2>2, <2>3, <3>1, <3>2
    <3>3. CASE ~(InstanceOf[u] = InstanceOf[t] /\ l \in Keys(t))
      BY <2>2, <3>1, <3>3 DEF SeenInv
    <3> QED BY <3>2, <3>3
  <2>5. ASSUME NEW u \in Acquired', NEW v \in Acquired', u # v, InstanceOf[u] = InstanceOf[v],
               Keys(u)' \cap Keys(v)' # {}
        PROVE  u \in Before[v] \/ v \in Before[u]
    <3>1. Keys(u) \cap Keys(v) # {} /\ (u = t \/ u \in Acquired) /\ (v = t \/ v \in Acquired)
      BY <1>0, <1>2, <2>1, <2>5
    <3> QED BY <2>3, <2>5, <3>1 DEF SeenInv
  <2> QED BY <2>4, <2>5 DEF SeenInv
<1> QED BY <1>1, <1>2, AcquiredSteps

\* Who finds a lane busy is woken by whoever frees it, from the moment it looked.
LEMMA WaitInvStep ==
    ASSUME TypeOK, LanesAreOwned, WaitInv, [Next]_vars
    PROVE  WaitInv'
<1>0. /\ DOMAIN stage = Step /\ DOMAIN want = Step /\ DOMAIN active = Lane /\ NoStep \notin Step
      /\ woken \subseteq Step
      /\ \A t \in Step : Keys(t) \subseteq Lane
  BY NonceLanesAssumption, WantType DEF TypeOK
<1> USE <1>0 DEF WaitInv, Keys, Move, lanes
<1>1. ASSUME NEW t \in Step, Start(t) \/ EnterGate(t) \/ GiveUp(t) \/ Materialize(t) PROVE WaitInv'
  BY <1>1 DEF Start, EnterGate, GiveUp, Materialize
<1>2. ASSUME NEW t \in Step, Check(t) \/ RefuseUnsafe(t) PROVE WaitInv'
  BY <1>2 DEF Check, RefuseUnsafe
<1>3. ASSUME NEW t \in Step, Acquire(t) PROVE WaitInv'
  BY <1>3 DEF Acquire
<1>4. ASSUME NEW t \in Step, FindBusy(t) PROVE WaitInv'
  BY <1>4 DEF FindBusy, Busy
<1>5. ASSUME NEW t \in Step, Unwind(t) \/ Wake(t) \/ Rearm(t) PROVE WaitInv'
  BY <1>5 DEF Unwind, Wake, Rearm
<1>6. ASSUME NEW t \in Step, Sign(t) \/ SignFails(t) PROVE WaitInv'
  BY <1>6 DEF Sign, SignFails
<1>7. ASSUME NEW t \in Step, Finish(t) PROVE WaitInv'
  BY <1>7 DEF Finish, FreeLanes
<1>8. ASSUME NEW t \in Step, SendRpc(t) \/ FailBeforeSend(t) \/ RollbackSubmitted(t)
      PROVE  WaitInv'
  BY <1>8 DEF SendRpc, FailBeforeSend, RollbackSubmitted
<1>9. ASSUME NEW t \in Step, RollbackTimesOut(t) \/ RpcAnswers(t) \/ DisableLanes(t) \/ NodeAccepts(t)
      PROVE  WaitInv'
  BY <1>9 DEF RollbackTimesOut, RpcAnswers, DisableLanes, NodeAccepts
<1>10. ASSUME NEW t \in Step, ReleaseLanes(t) PROVE WaitInv'
  BY <1>10 DEF ReleaseLanes, FreeLanes
<1>11. CASE UNCHANGED vars
  BY <1>11 DEF vars
<1> QED BY <1>1, <1>2, <1>3, <1>4, <1>5, <1>6, <1>7, <1>8, <1>9, <1>10, <1>11 DEF Next

-----------------------------------------------------------------------------
(* The invariant and what follows from it                                  *)

LEMMA IInvInit == Init => IInv
<1> SUFFICES ASSUME Init PROVE IInv
  OBVIOUS
<1>1. /\ DOMAIN reserved = Step /\ DOMAIN sent = {} /\ \A t \in Step : DOMAIN reserved[t] = {}
      /\ \A t \in Step : stage[t] = "new" /\ ~Ordered(t) /\ Keys(t) = {}
      /\ gate = NoStep /\ NoStep \notin Step /\ signed = {} /\ nonce = [l \in Lane |-> 0]
      /\ active = [l \in Lane |-> NoStep] /\ recovery_failed = FALSE
  BY NonceLanesAssumption, EmptyReservation DEF Init, Ordered, Keys
<1>2. ReservedInv /\ DenseInv
  BY <1>1 DEF ReservedInv, DenseInv, Reserved
<1>3. GateInv /\ NewestInv
  BY <1>1 DEF GateInv, NewestInv, AtGate
<1>4. SentInv /\ OrderInv
  BY <1>1 DEF SentInv, OrderInv
<1>5. LanesAreOwned /\ SeenInv /\ WaitInv /\ RewindNeverFails
  BY <1>1 DEF LanesAreOwned, SeenInv, Acquired, WaitInv, Holding, RewindNeverFails
<1> QED BY <1>2, <1>3, <1>4, <1>5, TypeOKInit DEF IInv

THEOREM NonceLanesInductive == Spec => []IInv
<1>1. IInv /\ [Next]_vars => IInv'
  BY TypeOKStep, ReservedInvStep, DenseInvStep, GateInvStep, NewestInvStep, SentInvStep,
     OrderInvStep, LanesAreOwnedStep, SeenInvStep, WaitInvStep, RewindNeverFailsStep DEF IInv
<1> QED BY IInvInit, <1>1, PTL DEF Spec

\* The state is well typed.
THEOREM TypeCorrect == Spec => []TypeOK
BY NonceLanesInductive, PTL DEF IInv

\* A lane has one owner, no step sleeps for a lane that is free, and the gate
\* belongs to a step at work.
THEOREM LanesServed == Spec => []LanesAreServed
<1>1. IInv => LanesAreServed
  BY DEF IInv, LanesAreServed, NobodyStranded, WaitInv, GateInv, AtGate
<1> QED BY NonceLanesInductive, <1>1, PTL

\* Every nonce goes on the wire once, above those that the node has taken, and
\* the steps of an instance that share a lane are ordered by its dependencies.
THEOREM NoncesInOrder == Spec => []NoncesAreInOrder
<1>1. IInv => NoncesAreInOrder
  <2> SUFFICES ASSUME IInv PROVE NoncesAreInOrder
    OBVIOUS
  <2>0. DOMAIN sent \subseteq Step /\ \A t \in DOMAIN sent : sent[t] = reserved[t]
    BY DEF IInv, TypeOK, SentInv
  <2>1. NonceOrder
    BY <2>0 DEF IInv, OrderInv, NonceOrder, SentInv, Acknowledged
  <2>2. NoNonceReuse
    BY <2>0 DEF IInv, DenseInv, NoNonceReuse
  <2>3. SameInstanceIsOrdered
    BY DEF IInv, SeenInv, Acquired, SameInstanceIsOrdered
  <2> QED BY <2>1, <2>2, <2>3 DEF NoncesAreInOrder
<1> QED BY NonceLanesInductive, <1>1, PTL

\* As many steps have a reservation on a lane as its counter says.
LEMMA ReservationsAreCounted ==
    ASSUME IInv, NEW l \in Lane
    PROVE  nonce[l] = Count(l)
<1> DEFINE Reservers == {t \in Step : l \in DOMAIN reserved[t]}
           nonceOf == [t \in Reservers |-> reserved[t][l]]
           used == 0 .. nonce[l] - 1
<1>1. nonce[l] \in Nat
  BY DEF IInv, TypeOK
<1>2. nonceOf \in Injection(Reservers, used)
  <2>1. \A t \in Reservers : nonceOf[t] \in used
    BY <1>1 DEF IInv, TypeOK, DenseInv
  <2>2. \A t, u \in Reservers : nonceOf[t] = nonceOf[u] => t = u
    BY DEF IInv, DenseInv
  <2> QED BY <2>1, <2>2 DEF Injection, IsInjective
<1>3. nonceOf \in Surjection(Reservers, used)
  <2>1. \A n \in used : \E t \in Reservers : nonceOf[t] = n
    BY DEF IInv, DenseInv
  <2> QED BY <1>2, <2>1 DEF Injection, Surjection
<1>4. IsFiniteSet(used) /\ Cardinality(used) = nonce[l]
  BY SMTT(60), <1>1, FS_Interval
<1> HIDE DEF Reservers, nonceOf, used
<1>5. Cardinality(Reservers) = Cardinality(used)
  BY <1>2, <1>3, <1>4, FS_Injection
<1> QED BY <1>4, <1>5 DEF Count, Reservers

\* The local counter of a lane is the number of transactions that carry a nonce
\* of it, a step that waits or fails gives its own back or disables the lane,
\* and giving it back always works.
THEOREM NoncesKept == Spec => []NoncesAreKept
<1>1. IInv => NoncesAreKept
  <2> SUFFICES ASSUME IInv PROVE NoncesAreKept
    OBVIOUS
  <2>1. \A l \in Lane : nonce[l] = Count(l)
    BY ReservationsAreCounted
  <2>2. ASSUME NEW l \in Lane, l \notin ambiguous, NEW t \in Step, l \in DOMAIN reserved[t]
        PROVE  stage[t] \notin {"parked", "failed"}
    <3>1. l \in Keys(t)
      BY <2>2, WantType DEF IInv, TypeOK
    <3> QED BY <2>2, <3>1 DEF IInv, ReservedInv, Unreserved, SentInv
  <2> QED BY <2>1, <2>2 DEF NoncesAreKept, NoLeakedNonce, IInv
<1> QED BY NonceLanesInductive, <1>1, PTL
=============================================================================
