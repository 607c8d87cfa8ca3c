---------------------------- MODULE SenderProofs -----------------------------
(***************************************************************************)
(* Proofs about Sender, for any number of transactions and keys and any    *)
(* configuration.                                                          *)
(*                                                                         *)
(* The caller sees its workers only through the completion channel, so     *)
(* everything rests on what is in it: each key of a dispatched transaction *)
(* is in one place, with the worker or in one message, and each slot is    *)
(* held by one unfinished worker or one message.                           *)
(***************************************************************************)
EXTENDS Sender, FiniteSetTheorems, SequenceTheorems, TLAPS

\* A transaction is queued while it is in the deque and has an id from then on.
QueueInv ==
    /\ \A t \in Tx : /\ t \in pending <=> work[t] = "queued"
                     /\ id[t] < next_queue_id
                     /\ work[t] = "new" => id[t] = 0
                     /\ Dispatched(t) \/ t \in pending => id[t] > 0
                     /\ t \in pending => Keys(t) # {}
                     /\ tx[t].submission \cap tx[t].inclusion = {}
    /\ call.at = "buffer" \/ (call.at \in {"pump", "recv"} /\ call.ret = "buffer")
           => work[call.tx] = "new"

\* What a worker has yet to give back.
OwedInv ==
    \A t \in Tx :
        /\ work[t] \in {"queued", "preparing", "rpc", "failed", "error", "unsure", "accepted"}
               => owed[t] = Keys(t)
        /\ work[t] = "observing" => owed[t] = tx[t].inclusion
        /\ work[t] \in {"done", "observing_unsure"} => owed[t] = {}

\* A key is in one place, and only workers write to the channel.
KeyInv ==
    /\ \A i \in DOMAIN channel : Dispatched(channel[i].tx)
    /\ \A i, j \in DOMAIN channel : i # j => channel[i].keys \cap channel[j].keys = {}
    /\ \A i \in DOMAIN channel : \A t \in Tx : Dispatched(t) => channel[i].keys \cap owed[t] = {}
    /\ \A t, u \in Tx : Dispatched(t) /\ Dispatched(u) /\ t # u => owed[t] \cap owed[u] = {}

\* Permits are free or with a worker that has no answer yet.
PermitHolders == {t \in Tx : work[t] \in {"preparing", "rpc"}}
CountInv ==
    /\ IsFiniteSet({t \in Tx : Dispatched(t)})
    /\ permits + Cardinality(PermitHolders) = MaxConcurrent
    /\ in_flight_pending = Queued("pending") + (IF Tracked THEN Cardinality(Unresolved) ELSE 0)
    /\ in_flight_setup = Queued("setup") + Cardinality({t \in Unresolved : Setup(t)})

\* What the node has was sent by a worker, and what it refused it does not have.
NodeInv ==
    \A t \in Tx : /\ node[t] # "absent" => Dispatched(t) /\ work[t] # "preparing"
                  /\ work[t] \in {"failed", "error"} => node[t] = "absent"
                  /\ work[t] = "accepted" => node[t] # "absent"

\* Observation of a transaction in the pool ended without result.  Its report
\* stops all dispatching, so the pool does not grow past the limit.
Stuck == {t \in Tx : work[t] = "done" /\ node[t] = "pool"}
PoolInv ==
    Tracked =>
        /\ Cardinality(Unresolved \cup Stuck) <= MaxPending
        /\ Stuck # {} => \/ pending_failure
                         \/ \E i \in DOMAIN channel : channel[i].kind = "pending" /\ ~channel[i].ok

\* Success is reported of what was included.
SetupInv ==
    /\ \A t \in completed_setup : node[t] = "included"
    /\ \A i \in DOMAIN channel : channel[i].kind = "setup" /\ channel[i].ok
                                     => node[channel[i].tx] = "included"

\* While a caller does not know of a cancellation nothing is dispatched.
LostInv ==
    /\ lost # {} => \/ call.at = "idle" /\ deferred_error
                    \/ call.failed /\ call.at \in {"flush", "reap"}
                    \/ call.failed /\ call.at = "recv" /\ call.ret = "flush"
    /\ deferred_error => call.at = "idle"
    /\ \A t \in lost : work[t] = "cancelled"
    /\ \A t \in Tx : answer[t] = "refused" => work[t] = "cancelled"

IInv ==
    /\ TypeOK /\ QueueInv /\ OwedInv /\ KeyInv /\ CountInv /\ NodeInv /\ PoolInv /\ SetupInv
    /\ LostInv /\ LaneOrder /\ ActiveKeysAreOwned /\ SetupAfterDependencies /\ NoSkippedNonce

-----------------------------------------------------------------------------
(* The completion channel                                                  *)

\* Outstanding, key by key.
LEMMA OutstandingKeys ==
    ASSUME NEW t \in Tx, NEW k
    PROVE  k \in Outstanding(t) <=> \/ k \in owed[t]
                                    \/ \E i \in DOMAIN channel : channel[i].tx = t /\ k \in channel[i].keys
BY DEF Outstanding

\* What remains when the caller has read a message.
LEMMA ChannelTail ==
    ASSUME channel \in Seq(Messages), channel # <<>>, channel' = Tail(channel)
    PROVE  /\ Head(channel) = channel[1] /\ channel[1] \in Messages /\ 1 \in DOMAIN channel
           /\ channel' \in Seq(Messages)
           /\ \A i \in DOMAIN channel' : i + 1 \in DOMAIN channel /\ channel'[i] = channel[i + 1]
           /\ \A i \in DOMAIN channel : i = 1 \/ (i - 1 \in DOMAIN channel' /\ channel'[i - 1] = channel[i])
<1>1. /\ Len(channel) \in Nat /\ Len(channel) > 0
      /\ DOMAIN channel = 1 .. Len(channel) /\ DOMAIN channel' = 1 .. Len(channel) - 1
      /\ \A i \in 1 .. Len(channel) - 1 : channel'[i] = channel[i + 1]
  OBVIOUS
<1>2. \A i \in DOMAIN channel : channel[i] \in Messages
  OBVIOUS
<1> QED BY <1>1, <1>2

\* What a worker sends at once: at most one message of each kind, its keys in
\* the release message.
IsReport(R, t, keys) ==
    /\ R \in Seq(Messages)
    /\ \A i \in DOMAIN R : /\ R[i].tx = t
                           /\ R[i].keys = IF R[i].kind = "release" THEN keys ELSE {}
    /\ \A i, j \in DOMAIN R : R[i].kind = R[j].kind => i = j
    /\ keys # {} => \E i \in DOMAIN R : R[i].kind = "release"
Tells(R, kind) == \E i \in DOMAIN R : R[i].kind = kind

LEMMA ReportElements ==
    ASSUME NEW R, NEW t \in Tx, NEW keys \in SUBSET Key, channel \in Seq(Messages),
           IsReport(R, t, keys), channel' = channel \o R
    PROVE  /\ channel' \in Seq(Messages)
           /\ \A i \in DOMAIN channel : i \in DOMAIN channel' /\ channel'[i] = channel[i]
           /\ \A i \in DOMAIN R : /\ i + Len(channel) \in DOMAIN channel'
                                  /\ channel'[i + Len(channel)] = R[i]
           /\ \A i \in DOMAIN channel' :
                \/ i \in DOMAIN channel
                \/ i - Len(channel) \in DOMAIN R /\ channel'[i] = R[i - Len(channel)]
<1>1. R \in Seq(Messages)
  BY DEF IsReport
<1>2. /\ Len(channel) \in Nat /\ Len(R) \in Nat /\ DOMAIN channel = 1 .. Len(channel)
      /\ DOMAIN R = 1 .. Len(R) /\ DOMAIN channel' = 1 .. Len(channel) + Len(R)
      /\ channel' \in Seq(Messages)
  BY <1>1
<1>3. \A i \in 1 .. Len(channel) + Len(R) :
          channel'[i] = IF i <= Len(channel) THEN channel[i] ELSE R[i - Len(channel)]
  BY <1>1
<1> QED BY <1>2, <1>3

\* Reports are made of single messages, those with keys first.
LEMMA OneMessage ==
    ASSUME NEW m \in Messages, m.keys = {} \/ m.kind = "release", NEW keys,
           m.kind = "release" => keys = m.keys, keys # {} => m.kind = "release"
    PROVE  /\ IsReport(<<m>>, m.tx, keys)
           /\ \A kind : Tells(<<m>>, kind) <=> kind = m.kind
<1>1. <<m>> \in Seq(Messages) /\ DOMAIN <<m>> = {1} /\ <<m>>[1] = m
  OBVIOUS
<1> QED BY <1>1 DEF IsReport, Tells

LEMMA NoMessage ==
    ASSUME NEW t
    PROVE  IsReport(<<>>, t, {}) /\ \A kind : ~Tells(<<>>, kind)
<1>1. <<>> \in Seq(Messages) /\ DOMAIN <<>> = {}
  OBVIOUS
<1> QED BY <1>1 DEF IsReport, Tells

LEMMA TwoReports ==
    ASSUME NEW t \in Tx, NEW keys, NEW A, NEW B, IsReport(A, t, keys), IsReport(B, t, {}),
           ~Tells(B, "release"), \A kind : ~(Tells(A, kind) /\ Tells(B, kind))
    PROVE  /\ IsReport(A \o B, t, keys)
           /\ \A kind : Tells(A \o B, kind) <=> Tells(A, kind) \/ Tells(B, kind)
           /\ \A i \in DOMAIN (A \o B) : \/ \E j \in DOMAIN A : (A \o B)[i] = A[j]
                                         \/ \E j \in DOMAIN B : (A \o B)[i] = B[j]
<1> DEFINE C == A \o B
<1>1. A \in Seq(Messages) /\ B \in Seq(Messages)
  BY DEF IsReport
<1>2. /\ Len(A) \in Nat /\ Len(B) \in Nat /\ DOMAIN A = 1 .. Len(A) /\ DOMAIN B = 1 .. Len(B)
      /\ DOMAIN C = 1 .. Len(A) + Len(B) /\ C \in Seq(Messages)
      /\ \A i \in 1 .. Len(A) + Len(B) : C[i] = IF i <= Len(A) THEN A[i] ELSE B[i - Len(A)]
  BY <1>1
<1> HIDE DEF C
<1>3. \A i \in DOMAIN C : \/ i \in DOMAIN A /\ C[i] = A[i]
                          \/ i - Len(A) \in DOMAIN B /\ C[i] = B[i - Len(A)]
  BY <1>2
<1>4. /\ \A i \in DOMAIN A : i \in DOMAIN C /\ C[i] = A[i]
      /\ \A i \in DOMAIN B : i + Len(A) \in DOMAIN C /\ C[i + Len(A)] = B[i]
  BY <1>2
<1>5. \A i \in DOMAIN C : /\ C[i].tx = t
                          /\ C[i].keys = IF C[i].kind = "release" THEN keys ELSE {}
  <2> SUFFICES ASSUME NEW i \in DOMAIN C
               PROVE  C[i].tx = t /\ C[i].keys = IF C[i].kind = "release" THEN keys ELSE {}
    OBVIOUS
  <2>1. CASE i \in DOMAIN A /\ C[i] = A[i]
    BY <2>1 DEF IsReport
  <2>2. CASE i - Len(A) \in DOMAIN B /\ C[i] = B[i - Len(A)]
    <3>1. C[i].kind # "release"
      BY <2>2 DEF Tells
    <3>2. B[i - Len(A)].tx = t /\ B[i - Len(A)].keys = {}
      BY <2>2 DEF IsReport
    <3> QED BY <2>2, <3>1, <3>2
  <2> QED BY <1>3, <2>1, <2>2
<1>6. \A i, j \in DOMAIN C : C[i].kind = C[j].kind => i = j
  <2> SUFFICES ASSUME NEW i \in DOMAIN C, NEW j \in DOMAIN C, C[i].kind = C[j].kind PROVE i = j
    OBVIOUS
  <2>1. i \in Int /\ j \in Int
    BY <1>2
  <2>2. CASE i \in DOMAIN A /\ C[i] = A[i] /\ j \in DOMAIN A /\ C[j] = A[j]
    BY <2>2 DEF IsReport
  <2>3. CASE /\ i - Len(A) \in DOMAIN B /\ C[i] = B[i - Len(A)]
             /\ j - Len(A) \in DOMAIN B /\ C[j] = B[j - Len(A)]
    <3>1. i - Len(A) = j - Len(A)
      BY <2>3 DEF IsReport
    <3> QED BY <1>2, <2>1, <3>1
  <2>4. CASE \/ i \in DOMAIN A /\ C[i] = A[i] /\ j - Len(A) \in DOMAIN B /\ C[j] = B[j - Len(A)]
             \/ j \in DOMAIN A /\ C[j] = A[j] /\ i - Len(A) \in DOMAIN B /\ C[i] = B[i - Len(A)]
    <3>1. Tells(A, C[i].kind) /\ Tells(B, C[i].kind)
      BY <2>4 DEF Tells
    <3> QED BY <3>1
  <2> QED BY <1>3, <2>2, <2>3, <2>4
<1>7. \A kind : Tells(C, kind) <=> Tells(A, kind) \/ Tells(B, kind)
  BY <1>3, <1>4 DEF Tells
<1>8. keys # {} => Tells(C, "release")
  BY <1>7 DEF IsReport, Tells
<1>9. IsReport(C, t, keys)
  BY <1>2, <1>5, <1>6, <1>8 DEF IsReport, Tells
<1> QED BY <1>3, <1>7, <1>9 DEF C

\* What the workers report: keys alone, or keys and what became of the transaction.
LEMMA ReleaseReport ==
    ASSUME NEW t \in Tx, NEW keys \in SUBSET Key
    PROVE  /\ IsReport(ReleaseKeys(t, keys), t, keys)
           /\ \A kind \in {"setup", "pending"} : ~Tells(ReleaseKeys(t, keys), kind)
<1> DEFINE m == [kind |-> "release", tx |-> t, keys |-> keys, ok |-> TRUE]
<1>1. m \in Messages /\ m.kind = "release" /\ m.tx = t /\ m.keys = keys
  BY DEF Messages
<1>2. ReleaseKeys(t, keys) = IF keys = {} THEN <<>> ELSE <<m>>
  BY DEF ReleaseKeys, Message
<1> HIDE DEF m
<1> QED BY <1>1, <1>2, OneMessage, NoMessage

LEMMA FinishReport ==
    ASSUME NEW t \in Tx, NEW keys \in SUBSET Key, NEW success \in BOOLEAN, NEW ok \in BOOLEAN
    PROVE  LET R == ReleaseKeys(t, keys) \o Finish(t, success, ok) IN
           /\ IsReport(R, t, keys)
           /\ Tells(R, "setup") <=> Setup(t)
           /\ Tells(R, "pending") <=> Tracked
           /\ \A i \in DOMAIN R : /\ R[i].kind = "setup" => R[i].ok = success
                                  /\ R[i].kind = "pending" => R[i].ok = ok
<1> DEFINE s == [kind |-> "setup", tx |-> t, keys |-> {}, ok |-> success]
           p == [kind |-> "pending", tx |-> t, keys |-> {}, ok |-> ok]
           S == IF Setup(t) THEN <<s>> ELSE <<>>
           P == IF Tracked THEN <<p>> ELSE <<>>
           L == ReleaseKeys(t, keys)
<1>1. Finish(t, success, ok) = S \o P
  BY DEF Finish, Message
<1>2. /\ s \in Messages /\ s.kind = "setup" /\ s.tx = t /\ s.keys = {} /\ s.ok = success
      /\ p \in Messages /\ p.kind = "pending" /\ p.tx = t /\ p.keys = {} /\ p.ok = ok
  BY DEF Messages
<1> HIDE DEF s, p
<1>3. /\ IsReport(S, t, {}) /\ \A kind : Tells(S, kind) <=> (kind = "setup" /\ Setup(t))
      /\ IsReport(P, t, {}) /\ \A kind : Tells(P, kind) <=> (kind = "pending" /\ Tracked)
  BY <1>2, OneMessage, NoMessage
<1>4. /\ \A i \in DOMAIN S : S[i] = s
      /\ \A i \in DOMAIN P : P[i] = p
  <2>1. ASSUME NEW m PROVE \A i \in DOMAIN <<m>> : <<m>>[i] = m
    OBVIOUS
  <2>2. DOMAIN <<>> = {}
    OBVIOUS
  <2> QED BY <2>1, <2>2
<1> HIDE DEF S, P
<1>5. /\ IsReport(S \o P, t, {})
      /\ \A kind : Tells(S \o P, kind) <=> Tells(S, kind) \/ Tells(P, kind)
      /\ \A i \in DOMAIN (S \o P) : (S \o P)[i] \in {s, p}
  <2>1. ~Tells(P, "release") /\ \A kind : ~(Tells(S, kind) /\ Tells(P, kind))
    BY <1>3
  <2>2. /\ IsReport(S \o P, t, {})
        /\ \A kind : Tells(S \o P, kind) <=> Tells(S, kind) \/ Tells(P, kind)
        /\ \A i \in DOMAIN (S \o P) : \/ \E j \in DOMAIN S : (S \o P)[i] = S[j]
                                      \/ \E j \in DOMAIN P : (S \o P)[i] = P[j]
    BY <1>3, <2>1, TwoReports
  <2> QED BY <1>4, <2>2
<1>6. \A i \in DOMAIN L : L[i].kind = "release"
  BY DEF ReleaseKeys, Message
<1>7. IsReport(L, t, keys) /\ \A kind : Tells(L, kind) => kind = "release"
  BY <1>6, ReleaseReport DEF Tells
<1> HIDE DEF L
<1> DEFINE F == S \o P
<1> HIDE DEF F
<1>8. /\ IsReport(F, t, {}) /\ \A kind : Tells(F, kind) <=> Tells(S, kind) \/ Tells(P, kind)
      /\ \A i \in DOMAIN F : F[i] \in {s, p}
  BY <1>5 DEF F
<1>9. /\ IsReport(L \o F, t, keys)
      /\ \A kind : Tells(L \o F, kind) <=> Tells(L, kind) \/ Tells(F, kind)
      /\ \A i \in DOMAIN (L \o F) : \/ \E j \in DOMAIN L : (L \o F)[i] = L[j]
                                    \/ \E j \in DOMAIN F : (L \o F)[i] = F[j]
  <2>1. ~Tells(F, "release") /\ \A kind : ~(Tells(L, kind) /\ Tells(F, kind))
    BY <1>3, <1>7, <1>8
  <2>2. IsReport(L, t, keys) /\ IsReport(F, t, {})
    BY <1>7, <1>8
  <2> HIDE DEF s, p, S, P, L, F
  <2> QED BY ZenonT(60), <2>1, <2>2, TwoReports
<1>10. \A i \in DOMAIN (L \o F) : (L \o F)[i] \in {s, p} \/ (L \o F)[i].kind = "release"
  BY <1>6, <1>8, <1>9 DEF L
<1>11. ReleaseKeys(t, keys) \o Finish(t, success, ok) = L \o F
  BY <1>1 DEF L, F
<1>12. /\ Tells(L \o F, "setup") <=> Setup(t)
       /\ Tells(L \o F, "pending") <=> Tracked
       /\ \A i \in DOMAIN (L \o F) : /\ (L \o F)[i].kind = "setup" => (L \o F)[i].ok = success
                                     /\ (L \o F)[i].kind = "pending" => (L \o F)[i].ok = ok
  BY <1>2, <1>3, <1>7, <1>8, <1>9, <1>10
<1> QED BY <1>9, <1>11, <1>12

\* How many messages of a kind are on their way.
LEMMA QueuedIsNat ==
    ASSUME channel \in Seq(Messages), NEW kind
    PROVE  /\ IsFiniteSet({i \in DOMAIN channel : channel[i].kind = kind}) /\ Queued(kind) \in Nat
           /\ \A i \in DOMAIN channel : channel[i].kind = kind => Queued(kind) > 0
<1> DEFINE I == {i \in DOMAIN channel : channel[i].kind = kind}
<1>1. DOMAIN channel = 1 .. Len(channel) /\ Len(channel) \in Nat
  OBVIOUS
<1>2. Queued(kind) = Cardinality(I) /\ I \in SUBSET (1 .. Len(channel))
  BY <1>1 DEF Queued
<1>3. \A i \in DOMAIN channel : channel[i].kind = kind => I # {}
  OBVIOUS
<1> HIDE DEF I
<1>4. IsFiniteSet(1 .. Len(channel))
  BY <1>1, FS_Interval
<1>5. IsFiniteSet(I)
  BY <1>2, <1>4, FS_Subset
<1>6. Cardinality(I) \in Nat
  BY <1>5, FS_CardinalityType
<1>7. I # {} => Cardinality(I) # 0
  BY <1>5, FS_EmptySet
<1>8. Queued(kind) \in Nat /\ \A i \in DOMAIN channel : channel[i].kind = kind => Queued(kind) > 0
  BY <1>2, <1>3, <1>6, <1>7
<1> QED BY <1>5, <1>8 DEF I

LEMMA QueuedAfterReport ==
    ASSUME NEW R, NEW t \in Tx, NEW keys \in SUBSET Key, channel \in Seq(Messages),
           IsReport(R, t, keys), channel' = channel \o R, NEW kind
    PROVE  Queued(kind)' = Queued(kind) + (IF Tells(R, kind) THEN 1 ELSE 0)
<1> DEFINE I == {i \in DOMAIN channel : channel[i].kind = kind}
           J == {i \in DOMAIN channel' : channel'[i].kind = kind}
<1>1. DOMAIN channel = 1 .. Len(channel) /\ Len(channel) \in Nat /\ R \in Seq(Messages)
      /\ DOMAIN R = 1 .. Len(R) /\ Len(R) \in Nat
  BY DEF IsReport
<1>2. CASE ~Tells(R, kind)
  <2>1. J = I
    BY <1>2, ReportElements DEF Tells
  <2>2. Queued(kind)' = Queued(kind)
    BY <2>1 DEF Queued
  <2>3. Queued(kind) \in Nat
    BY QueuedIsNat
  <2> QED BY <1>2, <2>2, <2>3
<1>3. CASE Tells(R, kind)
  <2>1. PICK j \in DOMAIN R : R[j].kind = kind
    BY <1>3 DEF Tells
  <2>2. \A i \in DOMAIN R : R[i].kind = kind => i = j
    BY <2>1 DEF IsReport
  <2>3. J = I \cup {j + Len(channel)}
    <3>1. ASSUME NEW i \in J PROVE i \in I \cup {j + Len(channel)}
      <4>1. CASE i \in DOMAIN channel
        BY <4>1, ReportElements
      <4>2. CASE i - Len(channel) \in DOMAIN R /\ channel'[i] = R[i - Len(channel)]
        <5>1. i - Len(channel) = j
          BY <2>2, <4>2
        <5>2. i \in Int
          <6>1. DOMAIN channel' = 1 .. Len(channel')
            BY ReportElements
          <6> QED BY <6>1
        <5> QED BY <1>1, <5>1, <5>2
      <4> QED BY <4>1, <4>2, ReportElements
    <3>2. I \subseteq J /\ j + Len(channel) \in J
      BY <2>1, ReportElements
    <3> QED BY <3>1, <3>2
  <2>4. j + Len(channel) \notin I
    BY <1>1
  <2>5. IsFiniteSet(I)
    BY QueuedIsNat
  <2>6. Cardinality(J) = Cardinality(I) + 1
    <3> HIDE DEF I, J
    <3> QED BY <2>3, <2>4, <2>5, FS_AddElement
  <2> QED BY <1>3, <2>6 DEF Queued
<1> QED BY <1>2, <1>3

LEMMA QueuedAfterRead ==
    ASSUME channel \in Seq(Messages), channel # <<>>, channel' = Tail(channel), NEW kind
    PROVE  Queued(kind)' = Queued(kind) - (IF channel[1].kind = kind THEN 1 ELSE 0)
<1> DEFINE I == {i \in DOMAIN channel : channel[i].kind = kind}
           J == {i \in DOMAIN channel' : channel'[i].kind = kind}
           shift == [i \in J |-> i + 1]
<1>1. IsFiniteSet(I) /\ Cardinality(I) \in Nat /\ IsFiniteSet(I \ {1})
  <2>1. IsFiniteSet(I) /\ Queued(kind) \in Nat
    BY QueuedIsNat
  <2>2. Cardinality(I) = Queued(kind)
    BY DEF Queued
  <2> HIDE DEF I
  <2>3. IsFiniteSet(I \ {1})
    BY <2>1, FS_Subset
  <2> QED BY <2>1, <2>2, <2>3
<1>2. J \subseteq Int /\ I \subseteq Int
  <2>1. DOMAIN channel' = 1 .. Len(channel') /\ DOMAIN channel = 1 .. Len(channel)
    BY ChannelTail
  <2> QED BY <2>1
<1>3. shift \in Bijection(J, I \ {1})
  <2>1. \A i \in J : shift[i] \in I \ {1}
    <3> SUFFICES ASSUME NEW i \in J PROVE i + 1 \in I \ {1}
      OBVIOUS
    <3>1. i + 1 \in DOMAIN channel /\ channel'[i] = channel[i + 1]
      BY ChannelTail
    <3>2. i # 0
      <4>1. DOMAIN channel' = 1 .. Len(channel')
        BY ChannelTail
      <4> QED BY <4>1
    <3> QED BY <1>2, <3>1, <3>2
  <2>2. \A i, j \in J : shift[i] = shift[j] => i = j
    BY <1>2
  <2>3. \A i \in I \ {1} : \E j \in J : shift[j] = i
    <3> SUFFICES ASSUME NEW i \in I \ {1} PROVE i - 1 \in J /\ (i - 1) + 1 = i
      OBVIOUS
    <3> QED BY <1>2, ChannelTail
  <2> QED BY <2>1, <2>2, <2>3 DEF Bijection, Injection, Surjection, IsInjective
<1>4. Cardinality(J) = Cardinality(I \ {1})
  <2>1. shift \in Injection(J, I \ {1}) /\ shift \in Surjection(J, I \ {1})
    BY <1>3 DEF Bijection
  <2> HIDE DEF I, J, shift
  <2> QED BY <1>1, <2>1, FS_Injection
<1>5. 1 \in I <=> channel[1].kind = kind
  BY ChannelTail
<1>6. Queued(kind) = Cardinality(I) /\ Queued(kind)' = Cardinality(J)
  BY DEF Queued
<1> HIDE DEF I, J
<1>7. Cardinality(I \ {1}) = IF 1 \in I THEN Cardinality(I) - 1 ELSE Cardinality(I)
  BY <1>1, FS_RemoveElement
<1> QED BY <1>1, <1>4, <1>5, <1>6, <1>7

-----------------------------------------------------------------------------
(* Kinds of step                                                           *)

LEMMA ConfigType ==
    ASSUME TypeOK
    PROVE  /\ MaxConcurrent \in Nat \ {0} /\ MaxPending \in Nat /\ MaxBuffered \in Nat \ {0}
           /\ config.sends \in Nat /\ config.stop_on_error \in BOOLEAN
           /\ config.inputs \subseteq [phase : {"setup", "workload"}, submission : SUBSET Key,
                                       inclusion : SUBSET Key]
BY SenderAssumption DEF TypeOK, MaxConcurrent, MaxPending, MaxBuffered

\* A worker gives keys back, all of its reports at once.
Reports(t, R, keys) ==
    /\ IsReport(R, t, keys) /\ keys \subseteq owed[t]
    /\ channel' = channel \o R
    /\ owed' = [owed EXCEPT ![t] = @ \ keys]
    /\ work[t] \in {"failed", "error", "unsure", "accepted", "observing", "observing_unsure"}
    /\ \E w \in {"observing", "observing_unsure", "done"} : work' = [work EXCEPT ![t] = w]
    /\ work'[t] = "observing" => work[t] = "accepted" /\ owed'[t] = tx[t].inclusion
    /\ work'[t] # "observing" => owed'[t] = {}
    /\ Tells(R, "setup") <=> Setup(t) /\ work'[t] = "done"
    /\ Tells(R, "pending") <=> Tracked /\ work'[t] = "done"
    /\ \A i \in DOMAIN R : /\ R[i].kind = "setup" /\ R[i].ok => node[t] = "included"
                           /\ R[i].kind = "pending" /\ R[i].ok => node[t] # "pool"
    /\ UNCHANGED <<Caller, permits, node>>

WorkerReports(t) == WorkerFails(t) \/ WorkerUnsure(t) \/ WorkerAccepted(t) \/ WorkerObserves(t)

LEMMA SentAtOnce ==
    ASSUME TypeOK, NEW t \in Tx, NEW keys \in SUBSET Key, NEW success \in BOOLEAN, NEW ok \in BOOLEAN
    PROVE  channel \o ReleaseKeys(t, keys) \o Finish(t, success, ok)
             = channel \o (ReleaseKeys(t, keys) \o Finish(t, success, ok))
<1> DEFINE s == [kind |-> "setup", tx |-> t, keys |-> {}, ok |-> success]
           p == [kind |-> "pending", tx |-> t, keys |-> {}, ok |-> ok]
<1>1. s \in Messages /\ p \in Messages
  BY DEF Messages
<1>2. Finish(t, success, ok) = (IF Setup(t) THEN <<s>> ELSE <<>>) \o (IF Tracked THEN <<p>> ELSE <<>>)
  BY DEF Finish, Message
<1> HIDE DEF s, p
<1>3. Finish(t, success, ok) \in Seq(Messages)
  BY <1>1, <1>2
<1>4. ReleaseKeys(t, keys) \in Seq(Messages) /\ channel \in Seq(Messages)
  BY ReleaseReport DEF IsReport, TypeOK
<1> QED BY <1>3, <1>4, ConcatAssociative

LEMMA ReportingStep ==
    ASSUME TypeOK, QueueInv, OwedInv, NodeInv, NEW t \in Tx, WorkerReports(t)
    PROVE  \E R : \E keys \in SUBSET Key : Reports(t, R, keys)
<1>0. /\ owed[t] \in SUBSET Key /\ tx[t] \in GeneratedTx /\ DOMAIN work = Tx /\ DOMAIN owed = Tx
      /\ tx[t].submission \cap tx[t].inclusion = {}
  BY DEF TypeOK, QueueInv
<1>00. tx[t].submission \in SUBSET Key /\ tx[t].inclusion \in SUBSET Key
  BY <1>0 DEF GeneratedTx
<1>1. CASE WorkerFails(t)
  <2>1. PICK success \in BOOLEAN, ok \in BOOLEAN :
          /\ success = FALSE
          /\ channel' = channel \o ReleaseKeys(t, owed[t]) \o Finish(t, success, ok)
    BY <1>1 DEF WorkerFails
  <2> DEFINE R == ReleaseKeys(t, owed[t]) \o Finish(t, success, ok)
  <2>2. channel' = channel \o R
    BY <1>0, <2>1, SentAtOnce
  <2>3. /\ work' = [work EXCEPT ![t] = "done"] /\ UNCHANGED <<Caller, permits, node>>
        /\ owed' = [owed EXCEPT ![t] = {}] /\ work[t] \in {"failed", "error"}
    BY <1>1 DEF WorkerFails
  <2>4. /\ IsReport(R, t, owed[t])
        /\ Tells(R, "setup") <=> Setup(t)
        /\ Tells(R, "pending") <=> Tracked
        /\ \A i \in DOMAIN R : R[i].kind = "setup" => R[i].ok = success
    BY <1>0, FinishReport
  <2> HIDE DEF R
  <2>5. node[t] = "absent"
    BY <2>3 DEF NodeInv
  <2>6. Reports(t, R, owed[t])
    BY <1>0, <2>1, <2>2, <2>3, <2>4, <2>5 DEF Reports
  <2> QED BY <1>0, <2>6
<1>2. CASE WorkerUnsure(t) /\ Tracked
  <2> DEFINE R == ReleaseKeys(t, owed[t])
  <2>1. /\ IsReport(R, t, owed[t])
        /\ ~Tells(R, "setup") /\ ~Tells(R, "pending")
    BY <1>0, ReleaseReport
  <2>2. /\ work' = [work EXCEPT ![t] = "observing_unsure"] /\ UNCHANGED <<Caller, permits, node>>
        /\ owed' = [owed EXCEPT ![t] = {}] /\ work[t] = "unsure" /\ channel' = channel \o R
    BY <1>2 DEF WorkerUnsure
  <2> HIDE DEF R
  <2>3. Reports(t, R, owed[t])
    BY <1>0, <2>1, <2>2 DEF Reports, Tells
  <2> QED BY <1>0, <2>3
<1>3. CASE WorkerUnsure(t) /\ ~Tracked
  <2> DEFINE R == ReleaseKeys(t, owed[t]) \o Finish(t, FALSE, TRUE)
  <2>1. channel' = channel \o R
    BY <1>0, <1>3, SentAtOnce DEF WorkerUnsure
  <2>2. /\ work' = [work EXCEPT ![t] = "done"] /\ UNCHANGED <<Caller, permits, node>>
        /\ owed' = [owed EXCEPT ![t] = {}] /\ work[t] = "unsure"
    BY <1>3 DEF WorkerUnsure
  <2>3. /\ IsReport(R, t, owed[t])
        /\ Tells(R, "setup") <=> Setup(t)
        /\ ~Tells(R, "pending")
        /\ \A i \in DOMAIN R : R[i].kind = "setup" => R[i].ok = FALSE
    <3>1. owed[t] \in SUBSET Key /\ FALSE \in BOOLEAN /\ TRUE \in BOOLEAN
      BY <1>0
    <3> QED BY ZenonT(60), <1>3, <3>1, FinishReport
  <2> HIDE DEF R
  <2>4. Reports(t, R, owed[t])
    BY <1>0, <1>3, <2>1, <2>2, <2>3 DEF Reports, Tells
  <2> QED BY <1>0, <2>4
<1>4. CASE WorkerAccepted(t)
  <2> DEFINE R == ReleaseKeys(t, tx[t].submission)
  <2>1. /\ IsReport(R, t, tx[t].submission)
        /\ ~Tells(R, "setup") /\ ~Tells(R, "pending")
    BY <1>00, ReleaseReport
  <2>2. owed[t] = tx[t].submission \cup tx[t].inclusion /\ work[t] = "accepted"
    BY <1>4 DEF WorkerAccepted, OwedInv, Keys
  <2>3. owed[t] \ tx[t].submission = tx[t].inclusion
    BY <1>0, <2>2
  <2>4. /\ work' = [work EXCEPT ![t] = IF Observes(t) THEN "observing" ELSE "done"]
        /\ UNCHANGED <<Caller, permits, node>> /\ channel' = channel \o R
        /\ owed' = [owed EXCEPT ![t] = @ \ tx[t].submission]
    BY <1>4, <2>3 DEF WorkerAccepted
  <2>5. work'[t] = "done" => ~Setup(t) /\ ~Tracked /\ owed'[t] = {}
    BY <1>0, <2>3, <2>4 DEF Observes
  <2> HIDE DEF R
  <2>6. Reports(t, R, tx[t].submission)
    BY <1>0, <2>1, <2>2, <2>3, <2>4, <2>5 DEF Reports, Tells
  <2> QED BY <1>00, <2>6
<1>5. CASE WorkerObserves(t)
  <2>1. PICK resolved \in BOOLEAN :
          /\ resolved => node[t] \in {"included", "failed"}
          /\ channel' = channel \o ReleaseKeys(t, owed[t])
                          \o Finish(t, resolved /\ node[t] = "included" /\ work[t] = "observing", resolved)
    BY <1>5 DEF WorkerObserves
  <2> DEFINE success == resolved /\ node[t] = "included" /\ work[t] = "observing"
             R == ReleaseKeys(t, owed[t]) \o Finish(t, success, resolved)
  <2>2. success \in BOOLEAN /\ (success => node[t] = "included")
    OBVIOUS
  <2>3. channel' = channel \o R
    BY <1>0, <2>1, <2>2, SentAtOnce
  <2>4. /\ work' = [work EXCEPT ![t] = "done"] /\ UNCHANGED <<Caller, permits, node>>
        /\ owed' = [owed EXCEPT ![t] = {}] /\ work[t] \in {"observing", "observing_unsure"}
    BY <1>5 DEF WorkerObserves
  <2> HIDE DEF success
  <2>5. /\ IsReport(R, t, owed[t])
        /\ Tells(R, "setup") <=> Setup(t)
        /\ Tells(R, "pending") <=> Tracked
        /\ \A i \in DOMAIN R : /\ R[i].kind = "setup" => R[i].ok = success
                               /\ R[i].kind = "pending" => R[i].ok = resolved
    BY <1>0, <2>2, FinishReport
  <2> HIDE DEF R
  <2>6. Reports(t, R, owed[t])
    BY <1>0, <2>1, <2>2, <2>3, <2>4, <2>5 DEF Reports
  <2> QED BY <1>0, <2>6
<1> QED BY <1>1, <1>2, <1>3, <1>4, <1>5 DEF WorkerReports

\* The caller reads a message.
Reads ==
    /\ channel # <<>> /\ Handle(Head(channel)) /\ channel' = Tail(channel)
    /\ UNCHANGED <<queue, deferred_error, permits, work, owed, node, lost>>

\* The caller does nothing that concerns a worker: it may take a call, answer
\* it, or cancel what no worker has.
Quiet ==
    /\ UNCHANGED <<config, id, owed, channel, permits, active_keys, in_flight_setup, in_flight_pending,
                   pending_failure, known_setup, completed_setup, node>>
    /\ \A t \in Tx : /\ \/ tx'[t] = tx[t]
                        \/ work[t] = "new" /\ tx'[t].submission \cap tx'[t].inclusion = {}
                     /\ \/ work'[t] = work[t]
                        \/ work[t] \in {"new", "queued"} /\ work'[t] = "cancelled"
                     /\ t \in pending' <=> t \in pending /\ work'[t] = work[t]
    /\ next_queue_id' \in {next_queue_id, next_queue_id + 1}
    /\ lost' \subseteq lost \cup pending

\* A worker gets on with its transaction without reporting.
Advances(t) == FailBeforeRpc(t) \/ SubmitRpc(t) \/ RpcAnswers(t)

LEMMA StepKinds ==
    ASSUME TypeOK, QueueInv, [Next]_vars
    PROVE  \/ Quiet \/ Reads
           \/ \E t \in Tx : \/ Enqueue(t) /\ Valid(t)
                            \/ Dispatch(t) \/ Advances(t) \/ WorkerReports(t)
                            \/ NodeAccepts(t) \/ NodeResolves(t)
<1>0. DOMAIN work = Tx /\ DOMAIN tx = Tx /\ pending \subseteq Tx /\ call.tx \in Tx
  BY DEF TypeOK
<1>1. ASSUME NEW t \in Tx, CallSend(t) PROVE Quiet
  <2>1. /\ work[t] = "new" /\ \A u \in Tx : tx'[u] = tx[u] \/ u = t
        /\ tx'[t].submission \cap tx'[t].inclusion = {}
    BY <1>0, <1>1 DEF CallSend, HandIn
  <2>2. /\ UNCHANGED <<config, id, next_queue_id, owed, channel, permits, ledger, node>>
        /\ \/ pending' = {} /\ work' = [u \in Tx |-> IF u \in pending \cup {t} THEN "cancelled" ELSE work[u]]
           \/ UNCHANGED <<pending, work>>
        /\ lost' = {} \/ lost' = lost
    BY <1>0, <1>1 DEF CallSend, Told
  <2> QED BY <1>0, <2>1, <2>2 DEF Quiet, QueueInv, ledger
<1>2. ASSUME NEW t \in Tx, Enqueue(t), ~Valid(t) PROVE Quiet
  BY <1>0, <1>2 DEF Enqueue, Quiet, QueueInv, Told
<1>3. ASSUME call.at = "pump", PumpFails
      PROVE  /\ \A t \in Tx : /\ \/ work'[t] = work[t]
                                 \/ work[t] \in {"new", "queued"} /\ work'[t] = "cancelled"
                              /\ t \in pending' <=> t \in pending /\ work'[t] = work[t]
             /\ lost' \subseteq lost \cup pending
  BY <1>0, <1>3 DEF PumpFails, CancelQueue, QueueInv, Told
<1>4. ASSUME NEW t \in Tx, AuthFails(t) PROVE Quiet
  BY <1>3, <1>4 DEF AuthFails, Quiet
<1>5. PumpStops => Quiet
  BY <1>3 DEF PumpStops, Quiet, ledger
<1>6. PumpReturns \/ BufferFull \/ FlushWaits \/ FlushReturns => Quiet
  BY DEF PumpReturns, BufferFull, FlushWaits, FlushReturns, Quiet, queue, ledger, Told
<1>7. CallFlush => Quiet
  BY <1>0 DEF CallFlush, CancelQueue, Quiet, ledger, QueueInv
<1>8. Drain \/ Recv => Reads
  BY DEF Drain, Recv, Reads
<1>9. UNCHANGED vars => Quiet
  BY DEF vars, queue, ledger, Quiet
<1> QED
  BY <1>1, <1>2, <1>4, <1>5, <1>6, <1>7, <1>8, <1>9 DEF Next, CallerStep, Pump, LocalStep, Advances,
     WorkerReports

-----------------------------------------------------------------------------
(* Permits and slots                                                       *)

AtWork == {t \in Tx : Dispatched(t)}
SetupAtWork == {t \in Unresolved : Setup(t)}

LEMMA CountFacts ==
    ASSUME TypeOK, CountInv
    PROVE  /\ IsFiniteSet(AtWork) /\ IsFiniteSet(Unresolved) /\ IsFiniteSet(SetupAtWork)
           /\ IsFiniteSet(PermitHolders)
           /\ Cardinality(Unresolved) \in Nat /\ Cardinality(SetupAtWork) \in Nat
           /\ Cardinality(PermitHolders) \in Nat
           /\ PermitHolders # {} => Cardinality(PermitHolders) > 0
           /\ Queued("pending") \in Nat /\ Queued("setup") \in Nat
           /\ \A i \in DOMAIN channel : /\ channel[i].kind = "pending" => Queued("pending") > 0
                                        /\ channel[i].kind = "setup" => Queued("setup") > 0
           /\ permits + Cardinality(PermitHolders) = MaxConcurrent
           /\ in_flight_pending = Queued("pending") + (IF Tracked THEN Cardinality(Unresolved) ELSE 0)
           /\ in_flight_setup = Queued("setup") + Cardinality(SetupAtWork)
<1>1. IsFiniteSet(AtWork)
  BY DEF CountInv, AtWork
<1>2. /\ Unresolved \in SUBSET AtWork /\ SetupAtWork \in SUBSET AtWork
      /\ PermitHolders \in SUBSET AtWork
  BY DEF Unresolved, SetupAtWork, PermitHolders, AtWork, Dispatched
<1>3. IsFiniteSet(Unresolved) /\ IsFiniteSet(SetupAtWork) /\ IsFiniteSet(PermitHolders)
  BY <1>1, <1>2, FS_Subset
<1>4. /\ Cardinality(Unresolved) \in Nat /\ Cardinality(SetupAtWork) \in Nat
      /\ Cardinality(PermitHolders) \in Nat
  BY <1>3, FS_CardinalityType
<1>5. PermitHolders # {} => Cardinality(PermitHolders) # 0
  BY <1>3, FS_EmptySet
<1>6. PermitHolders # {} => Cardinality(PermitHolders) > 0
  BY <1>4, <1>5
<1>7. channel \in Seq(Messages)
  BY DEF TypeOK
<1>8. Queued("pending") \in Nat /\ \A i \in DOMAIN channel : channel[i].kind = "pending" => Queued("pending") > 0
  BY <1>7, QueuedIsNat
<1>9. Queued("setup") \in Nat /\ \A i \in DOMAIN channel : channel[i].kind = "setup" => Queued("setup") > 0
  BY <1>7, QueuedIsNat
<1>10. /\ permits + Cardinality(PermitHolders) = MaxConcurrent
       /\ in_flight_pending = Queued("pending") + (IF Tracked THEN Cardinality(Unresolved) ELSE 0)
       /\ in_flight_setup = Queued("setup") + Cardinality(SetupAtWork)
  BY DEF CountInv, SetupAtWork
<1> QED BY <1>1, <1>3, <1>4, <1>6, <1>8, <1>9, <1>10

\* A step that changes neither whose turn it is nor the channel.
LEMMA CountKept ==
    ASSUME CountInv, AtWork' = AtWork, Unresolved' = Unresolved, SetupAtWork' = SetupAtWork,
           PermitHolders' = PermitHolders,
           UNCHANGED <<config, permits, in_flight_pending, in_flight_setup, channel>>
    PROVE  CountInv'
<1>1. \A kind : Queued(kind)' = Queued(kind)
  BY DEF Queued
<1>2. MaxConcurrent' = MaxConcurrent /\ (Tracked' <=> Tracked)
  BY DEF MaxConcurrent, MaxPending, Tracked
<1> QED BY <1>1, <1>2 DEF CountInv, AtWork, SetupAtWork

\* The counts after a step, from the sets after it.
LEMMA CountFrom ==
    ASSUME IsFiniteSet(AtWork'), permits' + Cardinality(PermitHolders') = MaxConcurrent',
           in_flight_pending' = Queued("pending")' + (IF Tracked' THEN Cardinality(Unresolved') ELSE 0),
           in_flight_setup' = Queued("setup")' + Cardinality(SetupAtWork')
    PROVE  CountInv'
BY DEF CountInv, AtWork, SetupAtWork

LEMMA CountInvStep == ASSUME TypeOK, QueueInv, OwedInv, NodeInv, CountInv, [Next]_vars PROVE CountInv'
<1>0. DOMAIN work = Tx /\ channel \in Seq(Messages)
  BY DEF TypeOK
<1>00. permits \in Nat /\ in_flight_pending \in Nat /\ in_flight_setup \in Nat /\ MaxConcurrent \in Nat
  BY ConfigType DEF TypeOK
<1> DEFINE U == Cardinality(Unresolved)
           S == Cardinality(SetupAtWork)
           P == Cardinality(PermitHolders)
<1>F. /\ U \in Nat /\ S \in Nat /\ P \in Nat /\ IsFiniteSet(AtWork) /\ IsFiniteSet(Unresolved)
      /\ IsFiniteSet(SetupAtWork) /\ IsFiniteSet(PermitHolders)
      /\ Queued("pending") \in Nat /\ Queued("setup") \in Nat /\ permits + P = MaxConcurrent
      /\ in_flight_pending = Queued("pending") + (IF Tracked THEN U ELSE 0)
      /\ in_flight_setup = Queued("setup") + S
  BY CountFacts
<1>1. CASE Quiet
  <2>1. \A t \in Tx : (Dispatched(t)' <=> Dispatched(t)) /\ (Dispatched(t) => tx'[t] = tx[t])
    BY <1>1 DEF Quiet, Dispatched
  <2>2. \A t \in Tx : Dispatched(t) => work'[t] = work[t]
    BY <1>1 DEF Quiet, Dispatched
  <2>3. AtWork' = AtWork /\ Unresolved' = Unresolved
    BY <2>1, <2>2 DEF AtWork, Unresolved
  <2>4. SetupAtWork' = SetupAtWork
    BY <2>1, <2>3 DEF SetupAtWork, Unresolved, Setup
  <2>5. PermitHolders' = PermitHolders
    BY <1>1 DEF PermitHolders, Quiet
  <2> QED BY <1>1, <2>3, <2>4, <2>5, CountKept DEF Quiet
<1>2. CASE Reads
  <2>1. AtWork' = AtWork /\ Unresolved' = Unresolved /\ PermitHolders' = PermitHolders
    BY <1>2 DEF Reads, AtWork, Unresolved, PermitHolders, Dispatched
  <2>2. SetupAtWork' = SetupAtWork /\ MaxConcurrent' = MaxConcurrent /\ (Tracked' <=> Tracked)
    BY <1>2, <2>1 DEF Reads, SetupAtWork, Setup, queue, MaxConcurrent, MaxPending, Tracked
  <2>3. /\ Queued("pending")' = Queued("pending") - (IF channel[1].kind = "pending" THEN 1 ELSE 0)
        /\ Queued("setup")' = Queued("setup") - (IF channel[1].kind = "setup" THEN 1 ELSE 0)
        /\ Head(channel) = channel[1]
    BY <1>0, <1>2, QueuedAfterRead, ChannelTail DEF Reads
  <2>4. /\ in_flight_pending' = in_flight_pending - (IF channel[1].kind = "pending" THEN 1 ELSE 0)
        /\ in_flight_setup' = in_flight_setup - (IF channel[1].kind = "setup" THEN 1 ELSE 0)
        /\ permits' = permits
    BY <1>2, <2>3 DEF Reads, Handle
  <2>5. IsFiniteSet(AtWork') /\ permits' + Cardinality(PermitHolders') = MaxConcurrent'
    BY <1>F, <2>1, <2>2, <2>4
  <2>6. in_flight_pending' = Queued("pending")' + (IF Tracked' THEN Cardinality(Unresolved') ELSE 0)
    BY <1>F, <2>1, <2>2, <2>3, <2>4
  <2>7. in_flight_setup' = Queued("setup")' + Cardinality(SetupAtWork')
    BY <1>F, <2>2, <2>3, <2>4
  <2> QED BY <2>5, <2>6, <2>7, CountFrom
<1>3. ASSUME NEW t \in Tx, Enqueue(t), Valid(t) PROVE CountInv'
  <2>1. /\ work' = [work EXCEPT ![t] = "queued"] /\ work[t] = "new" /\ tx' = tx
        /\ UNCHANGED <<config, permits, in_flight_pending, in_flight_setup, channel>>
    BY <1>3 DEF Enqueue, QueueInv
  <2>2. AtWork' = AtWork /\ Unresolved' = Unresolved /\ PermitHolders' = PermitHolders
    BY <1>0, <2>1 DEF AtWork, Unresolved, PermitHolders, Dispatched
  <2>3. SetupAtWork' = SetupAtWork
    BY <2>1, <2>2 DEF SetupAtWork, Setup
  <2> QED BY <2>1, <2>2, <2>3, CountKept
<1>4. ASSUME NEW t \in Tx, Dispatch(t) PROVE CountInv'
  <2>1. /\ work' = [work EXCEPT ![t] = "preparing"] /\ work[t] = "queued" /\ tx' = tx
        /\ permits' = permits - 1 /\ config' = config /\ channel' = channel
        /\ in_flight_pending' = in_flight_pending + (IF Tracked THEN 1 ELSE 0)
        /\ in_flight_setup' = in_flight_setup + (IF Setup(t) THEN 1 ELSE 0)
    BY <1>4 DEF Dispatch, MayDispatch, NextReady, Ready, QueueInv
  <2>2. /\ AtWork' = AtWork \cup {t} /\ Unresolved' = Unresolved \cup {t}
        /\ PermitHolders' = PermitHolders \cup {t}
        /\ t \notin Unresolved /\ t \notin PermitHolders /\ t \notin SetupAtWork
    BY <1>0, <2>1 DEF AtWork, Unresolved, PermitHolders, SetupAtWork, Dispatched
  <2>3. SetupAtWork' = IF Setup(t) THEN SetupAtWork \cup {t} ELSE SetupAtWork
    BY <2>1, <2>2 DEF SetupAtWork, Setup
  <2>4. IsFiniteSet(AtWork') /\ Cardinality(Unresolved') = U + 1
    BY <1>F, <2>2, FS_AddElement
  <2>a. Cardinality(PermitHolders') = P + 1
    BY <1>F, <2>2, FS_AddElement
  <2>b. Cardinality(SetupAtWork') = S + (IF Setup(t) THEN 1 ELSE 0)
    <3>1. Cardinality(SetupAtWork \cup {t}) = S + 1
      BY <1>F, <2>2, FS_AddElement
    <3> QED BY <1>F, <2>3, <3>1
  <2>5. MaxConcurrent' = MaxConcurrent /\ (Tracked' <=> Tracked) /\ \A kind : Queued(kind)' = Queued(kind)
    BY <2>1 DEF MaxConcurrent, MaxPending, Tracked, Queued
  <2> HIDE DEF U, S, P
  <2>6. permits' + Cardinality(PermitHolders') = MaxConcurrent'
    BY <1>00, <1>F, <2>1, <2>a, <2>5
  <2>7. in_flight_pending' = Queued("pending")' + (IF Tracked' THEN Cardinality(Unresolved') ELSE 0)
    BY <1>F, <2>1, <2>4, <2>5
  <2>8. in_flight_setup' = Queued("setup")' + Cardinality(SetupAtWork')
    BY <1>F, <2>1, <2>b, <2>5
  <2> QED BY <2>4, <2>6, <2>7, <2>8, CountFrom
<1>5. ASSUME NEW t \in Tx, Advances(t) PROVE CountInv'
  <2>1. /\ work[t] \in {"preparing", "rpc"} /\ work'[t] \notin {"new", "queued", "cancelled", "done"}
        /\ work' = [work EXCEPT ![t] = work'[t]] /\ tx' = tx
        /\ permits' = permits + (IF work'[t] = "rpc" THEN 0 ELSE 1) /\ work'[t] # "preparing"
        /\ UNCHANGED <<config, in_flight_pending, in_flight_setup, channel>>
    BY <1>0, <1>00, <1>5 DEF Advances, FailBeforeRpc, SubmitRpc, RpcAnswers, Caller, queue, ledger
  <2>2. /\ AtWork' = AtWork /\ Unresolved' = Unresolved /\ t \in PermitHolders
        /\ PermitHolders' = IF work'[t] = "rpc" THEN PermitHolders ELSE PermitHolders \ {t}
    BY <1>0, <2>1 DEF AtWork, Unresolved, PermitHolders, Dispatched
  <2>3. SetupAtWork' = SetupAtWork
    BY <2>1, <2>2 DEF SetupAtWork, Setup
  <2>4. Cardinality(PermitHolders') = P - (IF work'[t] = "rpc" THEN 0 ELSE 1)
    <3>1. Cardinality(PermitHolders \ {t}) = P - 1
      BY <1>F, <2>2, FS_RemoveElement
    <3> QED BY <1>F, <2>2, <3>1
  <2> HIDE DEF P
  <2>5. MaxConcurrent' = MaxConcurrent /\ (Tracked' <=> Tracked) /\ \A kind : Queued(kind)' = Queued(kind)
    BY <2>1 DEF MaxConcurrent, MaxPending, Tracked, Queued
  <2>6. permits' + Cardinality(PermitHolders') = MaxConcurrent'
    BY <1>00, <1>F, <2>1, <2>4, <2>5
  <2>7. in_flight_pending' = Queued("pending")' + (IF Tracked' THEN Cardinality(Unresolved') ELSE 0)
    BY <1>F, <2>1, <2>2, <2>5
  <2>8. in_flight_setup' = Queued("setup")' + Cardinality(SetupAtWork')
    BY <1>F, <2>1, <2>3, <2>5
  <2> QED BY <1>F, <2>2, <2>6, <2>7, <2>8, CountFrom
<1>6. ASSUME NEW t \in Tx, WorkerReports(t) PROVE CountInv'
  <2>1. PICK R : \E keys \in SUBSET Key : Reports(t, R, keys)
    BY <1>6, ReportingStep
  <2>2. PICK keys \in SUBSET Key : Reports(t, R, keys)
    BY <2>1
  <2>3. /\ work[t] \in {"failed", "error", "unsure", "accepted", "observing", "observing_unsure"}
        /\ work'[t] \in {"observing", "observing_unsure", "done"} /\ work' = [work EXCEPT ![t] = work'[t]]
        /\ UNCHANGED <<config, tx, permits, in_flight_pending, in_flight_setup>>
    BY <1>0, <2>2 DEF Reports, Caller, queue, ledger
  <2>4. /\ AtWork' = AtWork /\ PermitHolders' = PermitHolders /\ t \in Unresolved
        /\ Unresolved' = IF work'[t] = "done" THEN Unresolved \ {t} ELSE Unresolved
    BY <1>0, <2>3 DEF AtWork, Unresolved, PermitHolders, Dispatched
  <2>5. /\ SetupAtWork' = IF work'[t] = "done" THEN SetupAtWork \ {t} ELSE SetupAtWork
        /\ t \in SetupAtWork <=> Setup(t)
    BY <2>3, <2>4 DEF SetupAtWork, Setup
  <2>6. /\ Queued("pending")' = Queued("pending") + (IF Tells(R, "pending") THEN 1 ELSE 0)
        /\ Queued("setup")' = Queued("setup") + (IF Tells(R, "setup") THEN 1 ELSE 0)
    BY <1>0, <2>2, QueuedAfterReport DEF Reports
  <2>7. /\ Tells(R, "setup") <=> Setup(t) /\ work'[t] = "done"
        /\ Tells(R, "pending") <=> Tracked /\ work'[t] = "done"
    BY <2>2 DEF Reports
  <2>8. Cardinality(Unresolved') = U - (IF work'[t] = "done" THEN 1 ELSE 0)
    <3>1. Cardinality(Unresolved \ {t}) = U - 1
      BY <1>F, <2>4, FS_RemoveElement
    <3> QED BY <1>F, <2>4, <3>1
  <2>a. Cardinality(SetupAtWork') = S - (IF Setup(t) /\ work'[t] = "done" THEN 1 ELSE 0)
    <3>1. Cardinality(SetupAtWork \ {t}) = IF Setup(t) THEN S - 1 ELSE S
      BY <1>F, <2>5, FS_RemoveElement
    <3> QED BY <1>F, <2>5, <3>1
  <2>9. MaxConcurrent' = MaxConcurrent /\ (Tracked' <=> Tracked)
    BY <2>3 DEF MaxConcurrent, MaxPending, Tracked
  <2> HIDE DEF U, S, P
  <2>b. IsFiniteSet(AtWork') /\ permits' + Cardinality(PermitHolders') = MaxConcurrent'
    BY <1>F, <2>3, <2>4, <2>9 DEF P
  <2>c. in_flight_pending' = Queued("pending")' + (IF Tracked' THEN Cardinality(Unresolved') ELSE 0)
    BY <1>F, <2>3, <2>6, <2>7, <2>8, <2>9
  <2>d. in_flight_setup' = Queued("setup")' + Cardinality(SetupAtWork')
    BY <1>F, <2>3, <2>6, <2>7, <2>a
  <2> QED BY <2>b, <2>c, <2>d, CountFrom
<1>7. ASSUME NEW t \in Tx, NodeAccepts(t) \/ NodeResolves(t) PROVE CountInv'
  <2>1. UNCHANGED <<work, tx, config, permits, in_flight_pending, in_flight_setup, channel>>
    BY <1>7 DEF NodeAccepts, NodeResolves, Caller, queue, ledger
  <2>2. AtWork' = AtWork /\ Unresolved' = Unresolved /\ PermitHolders' = PermitHolders
    BY <2>1 DEF AtWork, Unresolved, PermitHolders, Dispatched
  <2>3. SetupAtWork' = SetupAtWork
    BY <2>1, <2>2 DEF SetupAtWork, Setup
  <2> QED BY <2>1, <2>2, <2>3, CountKept
<1> QED BY <1>1, <1>2, <1>3, <1>4, <1>5, <1>6, <1>7, StepKinds

-----------------------------------------------------------------------------
(* Types                                                                   *)

\* What every cancellation of the queue and every return to the caller keeps.
CallerTypes ==
    /\ answer \in [Tx -> {"none", "ok", "refused"}]
    /\ pending \in SUBSET Tx /\ deferred_error \in BOOLEAN
    /\ call \in [at : {"idle", "buffer", "pump", "recv", "flush", "reap", "gone"},
                 ret : {"buffer", "send", "flush"}, tx : Tx, failed : BOOLEAN]
    /\ work \in [Tx -> Work] /\ lost \in SUBSET Tx

LEMMA CancelTypes ==
    ASSUME CallerTypes, work' = [t \in Tx |-> IF t \in pending THEN "cancelled" ELSE work[t]] PROVE work' \in [Tx -> Work]
BY DEF CallerTypes, Work

LEMMA ToldTypes ==
    ASSUME CallerTypes, Told(TRUE)
    PROVE  /\ lost' \in SUBSET Tx
           /\ call' \in [at : {"idle", "buffer", "pump", "recv", "flush", "reap", "gone"},
                         ret : {"buffer", "send", "flush"}, tx : Tx, failed : BOOLEAN]
BY DEF CallerTypes, Told

LEMMA PumpFailsTypes == ASSUME CallerTypes, PumpFails PROVE CallerTypes'
<1>1. CASE /\ call.ret = "buffer" \/ (call.ret = "send" /\ call.tx \in pending)
           /\ pending' = {}
           /\ work' = [t \in Tx |-> IF t \in pending \cup {call.tx} THEN "cancelled" ELSE work[t]]
           /\ answer' = [answer EXCEPT ![call.tx] = "refused"]
           /\ Told(TRUE)
           /\ UNCHANGED deferred_error
  BY <1>1 DEF CallerTypes, Told, Work
<1>2. CASE /\ call.ret = "send" /\ call.tx \notin pending
           /\ CancelQueue
           /\ answer' = [answer EXCEPT ![call.tx] = "ok"]
           /\ deferred_error' = TRUE
           /\ call' = [call EXCEPT !.at = "idle"]
           /\ lost' = lost \cup pending
  BY <1>2 DEF CallerTypes, CancelQueue, Work
<1>3. CASE /\ call.ret = "flush"
           /\ CancelQueue
           /\ call' = [call EXCEPT !.at = "flush", !.failed = TRUE]
           /\ lost' = lost \cup pending
           /\ UNCHANGED <<answer, deferred_error>>
  BY <1>3 DEF CallerTypes, CancelQueue, Work
<1> QED BY <1>1, <1>2, <1>3 DEF PumpFails

OtherTypes ==
    /\ config \in Configs /\ tx \in [Tx -> GeneratedTx] /\ id \in [Tx -> Nat] /\ next_queue_id \in Nat \ {0}
    /\ active_keys \in SUBSET Key /\ known_setup \in SUBSET Tx /\ completed_setup \in SUBSET Tx
    /\ in_flight_setup \in Nat /\ in_flight_pending \in Nat
    /\ setup_failure \in BOOLEAN /\ pending_failure \in BOOLEAN
    /\ permits \in 0 .. MaxConcurrent /\ channel \in Seq(Messages) /\ owed \in [Tx -> SUBSET Key]
    /\ node \in [Tx -> {"absent", "pool", "included", "failed"}]

LEMMA TypeOKSplit == TypeOK <=> CallerTypes /\ OtherTypes
BY DEF TypeOK, CallerTypes, OtherTypes

\* A worker that still has its permit, and a message that is still unread, are
\* counted: what they give back does not leave a counter's range.
LEMMA TypeOKStep ==
    ASSUME TypeOK, QueueInv, OwedInv, NodeInv, CountInv, [Next]_vars PROVE TypeOK'
<1>0. CallerTypes /\ OtherTypes
  BY TypeOKSplit
<1>a. CallerTypes' /\ OtherTypes' => TypeOK'
  BY DEF TypeOK, CallerTypes, OtherTypes
<1> SUFFICES CallerTypes' /\ OtherTypes'
  BY <1>a
<1>1. ASSUME NEW t \in Tx, CallSend(t) PROVE CallerTypes' /\ OtherTypes'
  <2>1. tx' \in [Tx -> GeneratedTx]
    <3>1. PICK c \in config.inputs : \E d \in {{}} \cup Prerequisites(t, c) :
            tx' = [tx EXCEPT ![t] = [phase |-> c.phase, inclusion |-> c.inclusion, depends_on |-> d,
                                     submission |-> c.submission \ c.inclusion]]
      BY <1>0, <1>1 DEF OtherTypes, CallSend, HandIn
    <3>2. {{}} \cup Prerequisites(t, c) \subseteq SUBSET Tx
      BY <1>0 DEF OtherTypes, Prerequisites
    <3>3. PICK d \in SUBSET Tx :
            tx' = [tx EXCEPT ![t] = [phase |-> c.phase, inclusion |-> c.inclusion, depends_on |-> d,
                                     submission |-> c.submission \ c.inclusion]]
      BY <1>0, <3>1, <3>2
    <3>4. /\ c.phase \in {"setup", "workload"} /\ c.submission \in SUBSET Key
          /\ c.inclusion \in SUBSET Key
      BY <1>0, ConfigType
    <3>5. [phase |-> c.phase, inclusion |-> c.inclusion, depends_on |-> d,
           submission |-> c.submission \ c.inclusion] \in GeneratedTx
      BY <3>4 DEF GeneratedTx
    <3> QED BY <1>0, <3>3, <3>5 DEF OtherTypes
  <2>2. CallerTypes'
    <3>1. CASE deferred_error
      <4>1. /\ deferred_error' = FALSE /\ pending' = {} /\ Told(TRUE)
            /\ work' = [u \in Tx |-> IF u \in pending \cup {t} THEN "cancelled" ELSE work[u]]
            /\ answer' = [answer EXCEPT ![t] = "refused"]
        BY <1>1, <3>1 DEF CallSend
      <4> QED BY <1>0, <4>1, ToldTypes DEF CallerTypes, Work
    <3>2. CASE ~deferred_error
      <4>1. /\ call' = [call EXCEPT !.at = "buffer", !.tx = t]
            /\ UNCHANGED <<answer, pending, work, lost, deferred_error>>
        BY <1>1, <3>2 DEF CallSend
      <4> QED BY <1>0, <4>1 DEF CallerTypes
    <3> QED BY <3>1, <3>2
  <2>3. UNCHANGED <<config, id, next_queue_id, ledger, permits, channel, owed, node>>
    BY <1>1 DEF CallSend
  <2> QED BY <1>0, <2>1, <2>2, <2>3 DEF OtherTypes, MaxConcurrent, ledger
<1>2. ASSUME NEW t \in Tx, Enqueue(t) PROVE CallerTypes' /\ OtherTypes'
  <2>1. CallerTypes'
    <3>1. CASE Valid(t)
      <4>1. /\ pending' = pending \cup {t} /\ work' = [work EXCEPT ![t] = "queued"]
            /\ call' = [call EXCEPT !.at = "pump", !.ret = "send"]
            /\ UNCHANGED <<answer, lost, deferred_error>>
        BY <1>2, <3>1 DEF Enqueue
      <4> QED BY <1>0, <4>1 DEF CallerTypes, Work
    <3>2. CASE ~Valid(t)
      <4>1. /\ answer' = [answer EXCEPT ![t] = "refused"] /\ work' = [work EXCEPT ![t] = "cancelled"]
            /\ Told(TRUE) /\ UNCHANGED <<pending, deferred_error>>
        BY <1>2, <3>2 DEF Enqueue
      <4> QED BY <1>0, <4>1, ToldTypes DEF CallerTypes, Work
    <3> QED BY <3>1, <3>2
  <2>2. Keys(t) \in SUBSET Key
    BY <1>0 DEF OtherTypes, Keys, GeneratedTx
  <2>3. id' \in [Tx -> Nat] /\ next_queue_id' \in Nat \ {0} /\ known_setup' \in SUBSET Tx
        /\ owed' \in [Tx -> SUBSET Key]
    <3>1. /\ next_queue_id' = next_queue_id + 1
          /\ id' = id \/ id' = [id EXCEPT ![t] = next_queue_id]
          /\ owed' = owed \/ owed' = [owed EXCEPT ![t] = Keys(t)]
          /\ known_setup' \subseteq known_setup \cup {t}
      BY <1>2 DEF Enqueue
    <3> QED BY SMTT(60), <1>0, <2>2, <3>1 DEF OtherTypes
  <2>4. UNCHANGED <<config, tx, active_keys, completed_setup, in_flight_setup, setup_failure,
                    in_flight_pending, pending_failure, permits, channel, node>>
    BY <1>2 DEF Enqueue
  <2> QED BY <1>0, <2>1, <2>3, <2>4 DEF OtherTypes, MaxConcurrent
<1>3. ASSUME NEW t \in Tx, AuthFails(t) PROVE CallerTypes' /\ OtherTypes'
  BY <1>0, <1>3, PumpFailsTypes DEF AuthFails, Setup, OtherTypes, MaxConcurrent
<1>4. PumpStops => CallerTypes' /\ OtherTypes'
  BY <1>0, PumpFailsTypes DEF PumpStops, ledger, OtherTypes, MaxConcurrent
<1>5. PumpReturns => CallerTypes' /\ OtherTypes'
  <2>1. PumpReturns => CallerTypes'
    BY ZenonT(60), <1>0 DEF OtherTypes, PumpReturns, CallerTypes
  <2> QED BY <1>0, <2>1 DEF OtherTypes, MaxConcurrent, PumpReturns, ledger
<1>6. BufferFull \/ FlushWaits \/ FlushReturns => CallerTypes' /\ OtherTypes'
  <2>1. BufferFull \/ FlushWaits \/ FlushReturns => CallerTypes'
    BY ZenonT(60), <1>0 DEF OtherTypes, BufferFull, FlushWaits, FlushReturns, CallerTypes, Told, queue
  <2> QED BY <1>0, <2>1 DEF OtherTypes, MaxConcurrent, BufferFull, FlushWaits, FlushReturns, ledger, queue
<1>7. CallFlush => CallerTypes' /\ OtherTypes'
  <2>1. CallFlush => CallerTypes'
    BY ZenonT(60), <1>0, CancelTypes DEF OtherTypes, CallFlush, CallerTypes, CancelQueue
  <2> QED BY <1>0, <2>1 DEF OtherTypes, MaxConcurrent, CallFlush, ledger
<1>8. Drain \/ Recv => CallerTypes' /\ OtherTypes'
  <2> SUFFICES ASSUME Drain \/ Recv PROVE CallerTypes' /\ OtherTypes'
    OBVIOUS
  <2>1. CallerTypes'
    BY <1>0 DEF OtherTypes, Drain, Recv, CallerTypes, queue
  <2>2. /\ Handle(channel[1]) /\ channel[1] \in Messages /\ 1 \in DOMAIN channel
        /\ channel' \in Seq(Messages)
        /\ UNCHANGED <<config, tx, id, next_queue_id, permits, owed, node>>
    BY <1>0, ChannelTail DEF OtherTypes, Drain, Recv, queue
  <2>3. in_flight_pending' \in Nat /\ in_flight_setup' \in Nat
    <3> DEFINE p == Queued("pending")
               s == Queued("setup")
               U == IF Tracked THEN Cardinality(Unresolved) ELSE 0
               S == Cardinality(SetupAtWork)
    <3>1. /\ p \in Nat /\ s \in Nat /\ U \in Nat /\ S \in Nat
          /\ in_flight_pending = p + U /\ in_flight_setup = s + S
          /\ channel[1].kind = "pending" => p > 0
          /\ channel[1].kind = "setup" => s > 0
      BY <1>0, <2>2, CountFacts
    <3> HIDE DEF p, s, U, S
    <3> QED BY <2>2, <3>1 DEF Handle
  <2>4. /\ active_keys' \in SUBSET Key /\ known_setup' \in SUBSET Tx
        /\ completed_setup' \in SUBSET Tx
    BY <1>0, <2>2 DEF OtherTypes, Handle, Messages
  <2>5. setup_failure' \in BOOLEAN /\ pending_failure' \in BOOLEAN
    BY <1>0, <2>2 DEF OtherTypes, Handle, Messages
  <2> QED BY <1>0, <2>1, <2>2, <2>3, <2>4, <2>5 DEF OtherTypes, MaxConcurrent
<1>9. ASSUME NEW t \in Tx, Dispatch(t) PROVE CallerTypes' /\ OtherTypes'
  <2>1. CallerTypes'
    BY <1>0, <1>9 DEF OtherTypes, Dispatch, CallerTypes, Work
  <2>2. active_keys' \in SUBSET Key
    BY <1>0, <1>9 DEF OtherTypes, Dispatch, Keys, GeneratedTx
  <2>3. permits' \in 0 .. MaxConcurrent'
    BY <1>0, <1>9, ConfigType DEF Dispatch, MayDispatch, OtherTypes, MaxConcurrent
  <2>4. in_flight_pending' \in Nat /\ in_flight_setup' \in Nat
    BY <1>0, <1>9 DEF OtherTypes, Dispatch
  <2> QED BY <1>0, <1>9, <2>1, <2>2, <2>3, <2>4 DEF OtherTypes, MaxConcurrent, Dispatch
<1>10. ASSUME NEW t \in Tx, Advances(t) PROVE CallerTypes' /\ OtherTypes'
  <2>1. /\ work' \in [Tx -> Work] /\ t \in PermitHolders
        /\ permits' = permits \/ permits' = permits + 1
        /\ UNCHANGED <<Caller, channel, owed, node>>
    BY SMTT(60), <1>0, <1>10 DEF OtherTypes, Advances, FailBeforeRpc, SubmitRpc, RpcAnswers, CallerTypes, Work, PermitHolders
  <2>2. CallerTypes'
    BY <1>0, <2>1 DEF OtherTypes, CallerTypes, Caller, queue
  <2>3. permits' \in 0 .. MaxConcurrent'
    <3> DEFINE P == Cardinality(PermitHolders)
    <3>1. P \in Nat /\ P > 0 /\ permits + P = MaxConcurrent
      BY <1>0, <2>1, CountFacts
    <3>2. MaxConcurrent' = MaxConcurrent
      BY <2>1 DEF Caller, queue, MaxConcurrent
    <3> HIDE DEF P
    <3>3. permits \in Nat
      BY <1>0, ConfigType DEF OtherTypes
    <3> QED BY <2>1, <3>1, <3>2, <3>3
  <2> QED BY <1>0, <2>1, <2>2, <2>3 DEF OtherTypes, MaxConcurrent, Caller, queue, ledger
<1>11. ASSUME NEW t \in Tx, WorkerReports(t) PROVE CallerTypes' /\ OtherTypes'
  <2>1. PICK R : \E keys \in SUBSET Key : Reports(t, R, keys)
    BY <1>0, <1>11, ReportingStep
  <2>2. PICK keys \in SUBSET Key : Reports(t, R, keys)
    BY <1>0, <2>1
  <2>3. channel' \in Seq(Messages)
    BY <1>0, <2>2, ReportElements DEF OtherTypes, Reports
  <2>4. CallerTypes'
    BY <1>0, <2>2 DEF OtherTypes, Reports, CallerTypes, Work, Caller, queue
  <2>5. owed' \in [Tx -> SUBSET Key]
    BY <1>0, <2>2 DEF OtherTypes, Reports
  <2>6. UNCHANGED <<Caller, permits, node>>
    BY <1>0, <2>2 DEF OtherTypes, Reports
  <2> QED BY <1>0, <2>3, <2>4, <2>5, <2>6 DEF OtherTypes, MaxConcurrent, Caller, queue, ledger
<1>12. ASSUME NEW t \in Tx, NodeAccepts(t) \/ NodeResolves(t) PROVE CallerTypes' /\ OtherTypes'
  <2>1. CallerTypes' /\ node' \in [Tx -> {"absent", "pool", "included", "failed"}]
    BY ZenonT(60), <1>0, <1>12 DEF OtherTypes, NodeAccepts, NodeResolves, CallerTypes, Caller, queue
  <2> QED BY <1>0, <1>12, <2>1 DEF OtherTypes, MaxConcurrent, NodeAccepts, NodeResolves, Caller, queue, ledger
<1>13. UNCHANGED vars => CallerTypes' /\ OtherTypes'
  <2>1. UNCHANGED vars => CallerTypes'
    BY <1>0 DEF OtherTypes, vars, queue, CallerTypes
  <2> QED BY <1>0, <2>1 DEF OtherTypes, MaxConcurrent, vars, queue, ledger
<1> QED
  BY <1>0, <1>1, <1>2, <1>3, <1>4, <1>5, <1>6, <1>7, <1>8, <1>9, <1>10, <1>11, <1>12, <1>13
     DEF Next, CallerStep, Pump, LocalStep, Advances, WorkerReports

-----------------------------------------------------------------------------
(* The queue and the caller                                                *)

\* What a step of a worker, of the node, or of a caller that reads or
\* dispatches leaves alone.
LEMMA CallerIsElsewhere ==
    ASSUME TypeOK, QueueInv, OwedInv, NodeInv, NEW t \in Tx,
           Dispatch(t) \/ Advances(t) \/ WorkerReports(t) \/ NodeAccepts(t) \/ NodeResolves(t)
    PROVE  /\ UNCHANGED <<config, tx, answer, id, next_queue_id, known_setup, deferred_error, call, lost>>
           /\ \A u \in Tx : u # t => work'[u] = work[u]
           /\ work[t] \notin {"new", "cancelled"} /\ work'[t] \notin {"new", "queued", "cancelled"}
           /\ \/ work[t] = "queued" /\ pending' = pending \ {t}
              \/ work[t] # "queued" /\ pending' = pending
<1>0. DOMAIN work = Tx
  BY DEF TypeOK
<1>1. CASE Dispatch(t)
  BY <1>0, <1>1 DEF Dispatch, MayDispatch, NextReady, Ready, QueueInv
<1>2. CASE Advances(t)
  BY <1>0, <1>2 DEF Advances, FailBeforeRpc, SubmitRpc, RpcAnswers, Caller, queue, ledger
<1>3. CASE WorkerReports(t)
  <2>1. PICK R : \E keys \in SUBSET Key : Reports(t, R, keys)
    BY <1>3, ReportingStep
  <2> QED BY <1>0, <2>1 DEF Reports, Caller, queue, ledger
<1>4. CASE NodeAccepts(t) \/ NodeResolves(t)
  <2>1. Dispatched(t)
    <3>1. CASE NodeAccepts(t)
      BY <3>1 DEF NodeAccepts, Dispatched
    <3>2. CASE NodeResolves(t)
      BY <3>2 DEF NodeResolves, NodeInv
    <3> QED BY <1>4, <3>1, <3>2
  <2> QED BY <1>4, <2>1 DEF NodeAccepts, NodeResolves, Caller, queue, ledger, Dispatched
<1> QED BY <1>1, <1>2, <1>3, <1>4

LEMMA QueueInvStep ==
    ASSUME TypeOK, QueueInv, OwedInv, NodeInv, [Next]_vars PROVE QueueInv'
<1> DEFINE InQueue(t) ==
               /\ t \in pending <=> work[t] = "queued"
               /\ id[t] < next_queue_id
               /\ work[t] = "new" => id[t] = 0
               /\ Dispatched(t) \/ t \in pending => id[t] > 0
               /\ t \in pending => Keys(t) # {}
               /\ tx[t].submission \cap tx[t].inclusion = {}
           AtBuffer == call.at = "buffer" \/ (call.at \in {"pump", "recv"} /\ call.ret = "buffer")
                           => work[call.tx] = "new"
<1>0. /\ DOMAIN work = Tx /\ DOMAIN id = Tx /\ pending \subseteq Tx /\ call.tx \in Tx
      /\ next_queue_id \in Nat \ {0} /\ \A t \in Tx : id[t] \in Nat
  BY DEF TypeOK
<1>00. (\A t \in Tx : InQueue(t)) /\ AtBuffer
  BY DEF QueueInv
<1>1. \A t \in Tx : InQueue(t)'
  <2>1. CASE Quiet
    BY <1>0, <1>00, <2>1 DEF Quiet, Dispatched, Keys
  <2>2. CASE Reads
    BY <1>00, <2>2 DEF Reads, queue, Dispatched, Keys
  <2>3. ASSUME NEW t \in Tx, Enqueue(t), Valid(t) PROVE \A u \in Tx : InQueue(u)'
    <3>1. /\ next_queue_id' = next_queue_id + 1 /\ id' = [id EXCEPT ![t] = next_queue_id]
          /\ pending' = pending \cup {t} /\ work' = [work EXCEPT ![t] = "queued"] /\ tx' = tx
          /\ Keys(t) # {}
      BY <2>3 DEF Enqueue, Valid
    <3> QED BY <1>0, <1>00, <3>1 DEF Dispatched, Keys
  <2>4. ASSUME NEW t \in Tx,
               Dispatch(t) \/ Advances(t) \/ WorkerReports(t) \/ NodeAccepts(t) \/ NodeResolves(t)
        PROVE  \A u \in Tx : InQueue(u)'
    <3>1. /\ UNCHANGED <<tx, id, next_queue_id>> /\ \A u \in Tx : u # t => work'[u] = work[u]
          /\ work[t] \notin {"new", "cancelled"} /\ work'[t] \notin {"new", "queued", "cancelled"}
          /\ \/ work[t] = "queued" /\ pending' = pending \ {t}
             \/ work[t] # "queued" /\ pending' = pending
      BY <2>4, CallerIsElsewhere
    <3> QED BY <1>00, <3>1 DEF Dispatched, Keys
  <2> QED BY <2>1, <2>2, <2>3, <2>4, StepKinds
<1>2. AtBuffer'
  <2>1. ASSUME NEW t \in Tx, CallSend(t) PROVE AtBuffer'
    <3>1. work[t] = "new" /\ \/ Told(TRUE)
                             \/ call' = [call EXCEPT !.at = "buffer", !.tx = t] /\ work' = work
      BY <2>1 DEF CallSend
    <3>2. CASE Told(TRUE)
      BY <1>00, <3>2 DEF Told
    <3>3. CASE call' = [call EXCEPT !.at = "buffer", !.tx = t] /\ work' = work
      <4>1. call'.at = "buffer" /\ call'.tx = t
        BY <1>00, <3>3
      <4> QED BY <3>1, <3>3, <4>1
    <3> QED BY <3>1, <3>2, <3>3
  <2>2. ASSUME NEW t \in Tx, Enqueue(t) PROVE AtBuffer'
    <3>1. Told(TRUE) \/ call' = [call EXCEPT !.at = "pump", !.ret = "send"]
      BY <2>2 DEF Enqueue
    <3>2. call \in [at : {call.at}, ret : {call.ret}, tx : Tx, failed : {call.failed}]
      BY <1>0 DEF TypeOK
    <3>3. call'.at \in {"idle", "gone"} \/ (call'.at = "pump" /\ call'.ret = "send")
      BY <3>1, <3>2 DEF Told
    <3> QED BY <3>3
  <2>3. PumpFails /\ call.at = "pump" => AtBuffer'
    BY DEF PumpFails, Told, TypeOK
  <2>4. PumpReturns \/ BufferFull \/ FlushWaits \/ FlushReturns => AtBuffer'
    <3>0. call \in [at : {call.at}, ret : {call.ret}, tx : Tx, failed : {call.failed}]
      BY <1>0 DEF TypeOK
    <3>1. PumpReturns \/ BufferFull => AtBuffer'
      <4>1. CASE PumpReturns
        <5>1. /\ call.at = "pump" /\ work' = work
              /\ \/ call.ret = "buffer" /\ \E at \in {"buffer", "recv"} : call' = [call EXCEPT !.at = at]
                 \/ call' = [call EXCEPT !.at = "idle"]
                 \/ call' = [call EXCEPT !.at = "flush"]
          BY <4>1 DEF PumpReturns
        <5>2. call'.tx = call.tx /\ (call'.at \in {"idle", "flush"} \/ call.ret = "buffer")
          BY <3>0, <5>1
        <5> QED BY <1>00, <5>1, <5>2
      <4>2. CASE BufferFull
        BY <1>00, <3>0, <4>2 DEF BufferFull
      <4> QED BY <4>1, <4>2
    <3>2. FlushWaits \/ FlushReturns => AtBuffer'
      BY ZenonT(60), <1>00 DEF FlushWaits, FlushReturns, Told, TypeOK
    <3> QED BY <3>1, <3>2
  <2>5. CallFlush => AtBuffer'
    BY ZenonT(60) DEF CallFlush, TypeOK
  <2>6. Drain \/ Recv => AtBuffer'
    BY ZenonT(60), <1>00 DEF Drain, Recv, TypeOK
  <2>7. ASSUME NEW t \in Tx,
               Dispatch(t) \/ Advances(t) \/ WorkerReports(t) \/ NodeAccepts(t) \/ NodeResolves(t)
        PROVE  AtBuffer'
    <3>1. /\ call' = call /\ \A u \in Tx : u # t => work'[u] = work[u]
          /\ work[t] # "new"
      BY <2>7, CallerIsElsewhere
    <3> QED BY <1>0, <1>00, <3>1
  <2>8. UNCHANGED vars => AtBuffer'
    BY <1>00 DEF vars
  <2>9. \A t \in Tx : AuthFails(t) => AtBuffer'
    BY <2>3 DEF AuthFails
  <2>10. PumpStops => AtBuffer'
    BY <2>3 DEF PumpStops
  <2> HIDE DEF AtBuffer
  <2> QED
    BY <2>1, <2>2, <2>4, <2>5, <2>6, <2>7, <2>8, <2>9, <2>10
       DEF Next, CallerStep, Pump, LocalStep, Advances, WorkerReports
<1> QED BY <1>1, <1>2 DEF QueueInv

LEMMA LostInvStep ==
    ASSUME TypeOK, QueueInv, OwedInv, NodeInv, LostInv, [Next]_vars PROVE LostInv'
<1> DEFINE Untold == lost # {} => \/ call.at = "idle" /\ deferred_error
                                  \/ call.failed /\ call.at \in {"flush", "reap"}
                                  \/ call.failed /\ call.at = "recv" /\ call.ret = "flush"
           Deferred == deferred_error => call.at = "idle"
           Cancelled == /\ \A t \in lost : work[t] = "cancelled"
                        /\ \A t \in Tx : answer[t] = "refused" => work[t] = "cancelled"
<1>0. /\ DOMAIN work = Tx /\ DOMAIN answer = Tx /\ pending \subseteq Tx /\ call.tx \in Tx /\ lost \subseteq Tx
      /\ deferred_error \in BOOLEAN
      /\ call \in [at : {"idle", "buffer", "pump", "recv", "flush", "reap", "gone"},
                   ret : {"buffer", "send", "flush"}, tx : Tx, failed : BOOLEAN]
  BY DEF TypeOK
<1>00. Untold /\ Deferred /\ Cancelled
  BY DEF LostInv
<1>1. ASSUME NEW t \in Tx, CallSend(t) PROVE Untold' /\ Deferred' /\ Cancelled'
  <2>1. CASE deferred_error
    BY <1>0, <1>00, <1>1, <2>1 DEF CallSend, Told
  <2>2. CASE ~deferred_error
    BY <1>0, <1>00, <1>1, <2>2 DEF CallSend
  <2> QED BY <2>1, <2>2
<1>2. ASSUME NEW t \in Tx, Enqueue(t) PROVE Untold' /\ Deferred' /\ Cancelled'
  <2>1. call.at = "buffer" /\ call.tx = t /\ lost = {} /\ ~deferred_error /\ work[t] = "new"
    BY <1>00, <1>2 DEF Enqueue, QueueInv
  <2>2. CASE Valid(t)
    BY <1>0, <1>00, <1>2, <2>1, <2>2 DEF Enqueue
  <2>3. CASE ~Valid(t)
    BY <1>0, <1>00, <1>2, <2>1, <2>3 DEF Enqueue, Told
  <2> QED BY <2>2, <2>3
<1>3. ASSUME call.at = "pump", PumpFails PROVE Untold' /\ Deferred' /\ Cancelled'
  <2>1. lost = {} /\ ~deferred_error
    BY <1>00, <1>3
  <2>2. \A t \in pending : work[t] = "queued"
    BY <1>0 DEF QueueInv
  <2>3. CASE /\ answer' = [answer EXCEPT ![call.tx] = "refused"] /\ lost' = {}
             /\ work' = [t \in Tx |-> IF t \in pending \cup {call.tx} THEN "cancelled" ELSE work[t]]
             /\ deferred_error' = deferred_error
    BY <1>0, <1>00, <2>1, <2>2, <2>3
  <2>5. CASE /\ answer' = [answer EXCEPT ![call.tx] = "ok"] /\ lost' = lost \cup pending
             /\ work' = [t \in Tx |-> IF t \in pending THEN "cancelled" ELSE work[t]]
             /\ deferred_error' = TRUE /\ call' = [call EXCEPT !.at = "idle"]
    BY <1>0, <1>00, <2>1, <2>2, <2>5
  <2>4. CASE PumpFails /\ call.ret = "flush"
    <3>1. /\ call' = [call EXCEPT !.at = "flush", !.failed = TRUE]
          /\ work' = [t \in Tx |-> IF t \in pending THEN "cancelled" ELSE work[t]]
          /\ lost' = lost \cup pending /\ UNCHANGED <<answer, deferred_error>>
      BY <2>4 DEF PumpFails, CancelQueue
    <3>2. call'.at = "flush" /\ call'.failed = TRUE
      BY <1>0, <3>1
    <3> QED BY <1>0, <1>00, <2>1, <2>2, <3>1, <3>2
  <2> HIDE DEF Untold, Deferred, Cancelled
  <2> QED BY <1>0, <1>3, <2>3, <2>4, <2>5 DEF PumpFails, CancelQueue, Told
<1>4. PumpReturns \/ BufferFull => Untold' /\ Deferred' /\ Cancelled'
  BY <1>0, <1>00 DEF PumpReturns, BufferFull, queue
<1>5. FlushWaits \/ FlushReturns => Untold' /\ Deferred' /\ Cancelled'
  <2>1. FlushWaits => Untold' /\ Deferred' /\ Cancelled'
    BY <1>0, <1>00 DEF FlushWaits, queue
  <2>2. FlushReturns => Untold' /\ Deferred' /\ Cancelled'
    BY <1>0, <1>00 DEF FlushReturns, Told, queue
  <2> QED BY <2>1, <2>2
<1>6. CallFlush => Untold' /\ Deferred' /\ Cancelled'
  <2>1. \A t \in pending : work[t] = "queued"
    BY <1>0 DEF QueueInv
  <2>2. CASE CallFlush /\ deferred_error
    <3>1. /\ call' = [call EXCEPT !.at = "flush", !.failed = TRUE]
          /\ work' = [t \in Tx |-> IF t \in pending THEN "cancelled" ELSE work[t]]
          /\ lost' = lost \cup pending /\ answer' = answer /\ deferred_error' = FALSE
      BY <2>2 DEF CallFlush, CancelQueue
    <3>2. call'.at = "flush" /\ call'.failed = TRUE
      BY <1>0, <3>1
    <3> QED BY <1>0, <1>00, <2>1, <3>1, <3>2
  <2>3. CASE CallFlush /\ ~deferred_error
    BY <1>0, <1>00, <2>3 DEF CallFlush
  <2> QED BY <1>0, <2>2, <2>3
<1>7. Drain \/ Recv => Untold' /\ Deferred' /\ Cancelled'
  BY <1>0, <1>00 DEF Drain, Recv, queue
<1>8. ASSUME NEW t \in Tx,
             Dispatch(t) \/ Advances(t) \/ WorkerReports(t) \/ NodeAccepts(t) \/ NodeResolves(t)
      PROVE  Untold' /\ Deferred' /\ Cancelled'
  <2>1. /\ UNCHANGED <<answer, deferred_error, call, lost>> /\ work[t] # "cancelled"
        /\ \A u \in Tx : u # t => work'[u] = work[u]
    BY <1>8, CallerIsElsewhere
  <2> QED BY <1>0, <1>00, <2>1
<1>9. UNCHANGED vars => Untold' /\ Deferred' /\ Cancelled'
  BY <1>00 DEF vars, queue
<1>10. \A t \in Tx : AuthFails(t) => Untold' /\ Deferred' /\ Cancelled'
  BY <1>3 DEF AuthFails
<1>11. PumpStops => Untold' /\ Deferred' /\ Cancelled'
  BY <1>3 DEF PumpStops
<1>12. Untold' /\ Deferred' /\ Cancelled' => LostInv'
  BY DEF LostInv
<1> HIDE DEF Untold, Deferred, Cancelled
<1> QED
  BY <1>1, <1>2, <1>4, <1>5, <1>6, <1>7, <1>8, <1>9, <1>10, <1>11, <1>12
     DEF Next, CallerStep, Pump, LocalStep, Advances, WorkerReports

-----------------------------------------------------------------------------
(* Workers and the node                                                    *)

LEMMA OwedInvStep ==
    ASSUME TypeOK, QueueInv, OwedInv, NodeInv, [Next]_vars PROVE OwedInv'
<1> DEFINE Owes(t) ==
        /\ work[t] \in {"queued", "preparing", "rpc", "failed", "error", "unsure", "accepted"}
               => owed[t] = Keys(t)
        /\ work[t] = "observing" => owed[t] = tx[t].inclusion
        /\ work[t] \in {"done", "observing_unsure"} => owed[t] = {}
<1>0. DOMAIN work = Tx /\ DOMAIN owed = Tx
  BY DEF TypeOK
<1>00. \A t \in Tx : Owes(t)
  BY DEF OwedInv
<1>1. Quiet => \A u \in Tx : Owes(u)'
  BY <1>00 DEF Quiet, Keys
<1>2. Reads => \A u \in Tx : Owes(u)'
  BY <1>00 DEF Reads, queue, Keys
<1>3. ASSUME NEW t \in Tx, Enqueue(t), Valid(t) PROVE \A u \in Tx : Owes(u)'
  BY <1>0, <1>00, <1>3 DEF Enqueue, Keys
<1>4. ASSUME NEW t \in Tx, Dispatch(t) PROVE \A u \in Tx : Owes(u)'
  <2>1. work[t] = "queued"
    BY <1>4 DEF Dispatch, MayDispatch, NextReady, Ready, QueueInv
  <2> QED BY <1>0, <1>00, <1>4, <2>1 DEF Dispatch, Keys
<1>5. ASSUME NEW t \in Tx, Advances(t) PROVE \A u \in Tx : Owes(u)'
  BY <1>0, <1>00, <1>5 DEF Advances, FailBeforeRpc, SubmitRpc, RpcAnswers, Caller, queue, Keys
<1>6. ASSUME NEW t \in Tx, WorkerReports(t) PROVE \A u \in Tx : Owes(u)'
  <2>1. PICK R : \E keys \in SUBSET Key : Reports(t, R, keys)
    BY <1>6, ReportingStep
  <2>2. /\ tx' = tx /\ \A u \in Tx : u # t => work'[u] = work[u] /\ owed'[u] = owed[u]
        /\ work'[t] \in {"observing", "observing_unsure", "done"}
        /\ work'[t] = "observing" => owed'[t] = tx[t].inclusion
        /\ work'[t] # "observing" => owed'[t] = {}
    BY <1>0, <2>1 DEF Reports, Caller, queue
  <2> QED BY <1>00, <2>2 DEF Keys
<1>7. ASSUME NEW t \in Tx, NodeAccepts(t) \/ NodeResolves(t) PROVE \A u \in Tx : Owes(u)'
  BY <1>00, <1>7 DEF NodeAccepts, NodeResolves, Caller, queue, Keys
<1> HIDE DEF Owes
<1>8. \A u \in Tx : Owes(u)'
  BY <1>1, <1>2, <1>3, <1>4, <1>5, <1>6, <1>7, StepKinds
<1> QED BY <1>8 DEF OwedInv, Owes

LEMMA NodeInvStep ==
    ASSUME TypeOK, QueueInv, OwedInv, NodeInv, [Next]_vars PROVE NodeInv'
<1>0. DOMAIN work = Tx /\ DOMAIN node = Tx
  BY DEF TypeOK
<1>1. CASE Quiet
  BY <1>1 DEF Quiet, NodeInv, Dispatched
<1>2. CASE Reads
  BY <1>2 DEF Reads, NodeInv, Dispatched
<1>3. ASSUME NEW t \in Tx, Enqueue(t), Valid(t) PROVE NodeInv'
  <2>1. work[t] = "new"
    BY <1>3 DEF Enqueue, QueueInv
  <2> QED BY <1>0, <1>3, <2>1 DEF Enqueue, NodeInv, Dispatched
<1>4. ASSUME NEW t \in Tx, Dispatch(t) PROVE NodeInv'
  <2>1. work[t] = "queued"
    BY <1>4 DEF Dispatch, MayDispatch, NextReady, Ready, QueueInv
  <2> QED BY <1>0, <1>4, <2>1 DEF Dispatch, NodeInv, Dispatched
<1>5. ASSUME NEW t \in Tx, Advances(t) PROVE NodeInv'
  BY <1>0, <1>5 DEF Advances, FailBeforeRpc, SubmitRpc, RpcAnswers, Caller, NodeInv, Dispatched
<1>6. ASSUME NEW t \in Tx, WorkerReports(t) PROVE NodeInv'
  <2>1. PICK R : \E keys \in SUBSET Key : Reports(t, R, keys)
    BY <1>6, ReportingStep
  <2>2. /\ node' = node /\ \A u \in Tx : u # t => work'[u] = work[u]
        /\ work'[t] \in {"observing", "observing_unsure", "done"}
    BY <1>0, <2>1 DEF Reports
  <2> QED BY <2>2 DEF NodeInv, Dispatched
<1>7. ASSUME NEW t \in Tx, NodeAccepts(t) PROVE NodeInv'
  BY <1>0, <1>7 DEF NodeAccepts, NodeInv, Dispatched
<1>8. ASSUME NEW t \in Tx, NodeResolves(t) PROVE NodeInv'
  BY <1>0, <1>8 DEF NodeResolves, NodeInv, Dispatched
<1> QED BY <1>1, <1>2, <1>3, <1>4, <1>5, <1>6, <1>7, <1>8, StepKinds

\* What is included stays included, and is all that is ever reported as success.
LEMMA IncludedIsFinal ==
    ASSUME TypeOK, QueueInv, OwedInv, NodeInv, [Next]_vars, NEW t \in Tx, node[t] = "included"
    PROVE  node'[t] = "included"
<1>0. DOMAIN node = Tx
  BY DEF TypeOK
<1>1. ASSUME NEW u \in Tx, WorkerReports(u) PROVE node' = node
  <2>1. PICK R : \E keys \in SUBSET Key : Reports(u, R, keys)
    BY <1>1, ReportingStep
  <2> QED BY <2>1 DEF Reports
<1>2. \A u \in Tx : Advances(u) => node' = node
  BY DEF Advances, FailBeforeRpc, SubmitRpc, RpcAnswers
<1>3. \A u \in Tx : NodeAccepts(u) \/ NodeResolves(u) => node'[t] = "included"
  BY <1>0 DEF NodeAccepts, NodeResolves
<1>4. \A u \in Tx : Enqueue(u) \/ Dispatch(u) => node' = node
  BY DEF Enqueue, Dispatch
<1>5. Quiet \/ Reads => node' = node
  BY DEF Quiet, Reads
<1> QED BY <1>1, <1>2, <1>3, <1>4, <1>5, StepKinds

LEMMA SetupInvStep ==
    ASSUME TypeOK, QueueInv, OwedInv, NodeInv, KeyInv, SetupInv, SetupAfterDependencies, [Next]_vars
    PROVE  SetupInv' /\ SetupAfterDependencies'
<1>0. /\ DOMAIN work = Tx /\ completed_setup \subseteq Tx /\ channel \in Seq(Messages)
      /\ \A t \in Tx : tx[t].depends_on \subseteq Tx
      /\ \A i \in DOMAIN channel : channel[i].tx \in Tx
  <2>1. /\ DOMAIN work = Tx /\ completed_setup \subseteq Tx /\ channel \in Seq(Messages)
        /\ \A t \in Tx : tx[t] \in GeneratedTx
    BY DEF TypeOK
  <2>2. \A i \in DOMAIN channel : channel[i] \in Messages
    BY <2>1
  <2> QED BY <2>1, <2>2 DEF GeneratedTx, Messages
<1>00. \A t \in Tx : node[t] = "included" => node'[t] = "included"
  BY IncludedIsFinal
<1>1. SetupAfterDependencies'
  <2> SUFFICES ASSUME NEW t \in Tx, Dispatched(t)', NEW d \in tx'[t].depends_on
               PROVE  node'[d] = "included"
    BY DEF SetupAfterDependencies
  <2>1. CASE Dispatched(t) /\ tx'[t] = tx[t]
    BY <1>0, <1>00, <2>1 DEF SetupAfterDependencies
  <2>2. CASE Dispatch(t)
    <3>1. tx' = tx /\ tx[t].depends_on \subseteq completed_setup
      BY <2>2 DEF Dispatch, MayDispatch, NextReady, Ready
    <3> QED BY <1>0, <1>00, <3>1 DEF SetupInv
  <2>3. Quiet => Dispatched(t) /\ tx'[t] = tx[t]
    BY DEF Quiet, Dispatched
  <2>4. Reads => Dispatched(t) /\ tx'[t] = tx[t]
    BY DEF Reads, queue, Dispatched
  <2>5. \A u \in Tx : Enqueue(u) /\ Valid(u) => Dispatched(t) /\ tx'[t] = tx[t]
    BY <1>0 DEF Enqueue, Dispatched
  <2>6. ASSUME NEW u \in Tx,
               Dispatch(u) \/ Advances(u) \/ WorkerReports(u) \/ NodeAccepts(u) \/ NodeResolves(u)
        PROVE  (Dispatched(t) /\ tx'[t] = tx[t]) \/ Dispatch(t)
    <3>1. /\ tx' = tx /\ \A v \in Tx : v # u => work'[v] = work[v]
          /\ work[u] \notin {"new", "cancelled"}
      BY <2>6, CallerIsElsewhere
    <3>2. CASE t # u
      BY <3>1, <3>2 DEF Dispatched
    <3>3. CASE t = u /\ work[u] # "queued"
      BY <3>1, <3>3 DEF Dispatched
    <3>4. CASE t = u /\ work[u] = "queued"
      <4>1. ~Advances(u)
        BY <3>4 DEF Advances, FailBeforeRpc, SubmitRpc, RpcAnswers
      <4>2. ~WorkerReports(u)
        BY <3>4 DEF WorkerReports, WorkerFails, WorkerUnsure, WorkerAccepted, WorkerObserves
      <4>3. ~NodeAccepts(u)
        BY <3>4 DEF NodeAccepts
      <4>4. ~NodeResolves(u)
        BY <3>4 DEF NodeResolves, NodeInv, Dispatched
      <4> QED BY <2>6, <3>4, <4>1, <4>2, <4>3, <4>4
    <3> QED BY <3>2, <3>3, <3>4
  <2> QED BY <2>1, <2>2, <2>3, <2>4, <2>5, <2>6, StepKinds
<1>2. CASE UNCHANGED <<channel, completed_setup>>
  BY <1>0, <1>00, <1>1, <1>2 DEF SetupInv
<1>3. CASE Reads
  <2>1. /\ channel # <<>> /\ channel' = Tail(channel)
        /\ \A d \in completed_setup' :
              d \in completed_setup \/ (d = channel[1].tx /\ channel[1].kind = "setup" /\ channel[1].ok)
    BY <1>0, <1>3, ChannelTail DEF Reads, Handle
  <2>2. 1 \in DOMAIN channel /\ \A i \in DOMAIN channel' : i + 1 \in DOMAIN channel /\ channel'[i] = channel[i + 1]
    BY <1>0, <2>1, ChannelTail
  <2>3. \A d \in completed_setup' : node'[d] = "included"
    BY <1>0, <1>00, <2>1, <2>2 DEF SetupInv
  <2>4. \A i \in DOMAIN channel' : channel'[i].kind = "setup" /\ channel'[i].ok
                                       => node'[channel'[i].tx] = "included"
    BY <1>0, <1>00, <2>2 DEF SetupInv
  <2> QED BY <1>1, <2>3, <2>4 DEF SetupInv
<1>4. ASSUME NEW t \in Tx, WorkerReports(t) PROVE SetupInv' /\ SetupAfterDependencies'
  <2>1. PICK R : \E keys \in SUBSET Key : Reports(t, R, keys)
    BY <1>4, ReportingStep
  <2>2. PICK keys \in SUBSET Key : Reports(t, R, keys)
    BY <2>1
  <2>3. /\ completed_setup' = completed_setup /\ channel' = channel \o R /\ IsReport(R, t, keys)
        /\ \A i \in DOMAIN R : R[i].kind = "setup" /\ R[i].ok => node[t] = "included"
        /\ \A i \in DOMAIN R : R[i].tx = t
    BY <2>2 DEF Reports, Caller, ledger, IsReport
  <2>4. \A d \in completed_setup' : node'[d] = "included"
    BY <1>0, <1>00, <2>3 DEF SetupInv
  <2>5. \A i \in DOMAIN channel' :
            \/ i \in DOMAIN channel /\ channel'[i] = channel[i]
            \/ i - Len(channel) \in DOMAIN R /\ channel'[i] = R[i - Len(channel)]
    BY <1>0, <2>3, ReportElements
  <2>6. \A i \in DOMAIN channel' : channel'[i].kind = "setup" /\ channel'[i].ok
                                       => node'[channel'[i].tx] = "included"
    BY <1>0, <1>00, <2>3, <2>5 DEF SetupInv
  <2> QED BY <1>1, <2>4, <2>6 DEF SetupInv
<1>5. Quiet => UNCHANGED <<channel, completed_setup>>
  BY DEF Quiet
<1>6. \A t \in Tx : Enqueue(t) \/ Dispatch(t) \/ Advances(t) \/ NodeAccepts(t) \/ NodeResolves(t)
                       => UNCHANGED <<channel, completed_setup>>
  BY DEF Enqueue, Dispatch, Advances, FailBeforeRpc, SubmitRpc, RpcAnswers, NodeAccepts, NodeResolves,
         Caller, ledger
<1> QED BY <1>2, <1>3, <1>4, <1>5, <1>6, StepKinds

-----------------------------------------------------------------------------
(* Where every key is                                                      *)

InHand(k) == \E t \in AtWork : k \in owed[t]
OnItsWay(k) == \E i \in DOMAIN channel : k \in channel[i].keys

LEMMA ActiveKeys ==
    ASSUME ActiveKeysAreOwned, KeyInv, TypeOK
    PROVE  \A k : k \in active_keys <=> InHand(k) \/ OnItsWay(k)
<1>1. \A i \in DOMAIN channel : channel[i].tx \in AtWork
  <2>1. \A i \in DOMAIN channel : channel[i] \in Messages
    BY DEF TypeOK
  <2> QED BY <2>1 DEF KeyInv, AtWork, Messages
<1>2. active_keys = UNION {Outstanding(t) : t \in AtWork}
  BY DEF ActiveKeysAreOwned, AtWork
<1>3. \A k, t : t \in AtWork => (k \in Outstanding(t) <=>
          k \in owed[t] \/ \E i \in DOMAIN channel : channel[i].tx = t /\ k \in channel[i].keys)
  BY OutstandingKeys DEF AtWork
<1> QED BY <1>1, <1>2, <1>3 DEF InHand, OnItsWay

LEMMA ActiveKeysAfter ==
    ASSUME TypeOK', KeyInv', \A k : k \in active_keys' <=> InHand(k)' \/ OnItsWay(k)'
    PROVE  ActiveKeysAreOwned'
<1>1. \A i \in DOMAIN channel' : channel'[i].tx \in AtWork'
  <2>1. \A i \in DOMAIN channel' : channel'[i] \in Messages
    BY DEF TypeOK
  <2> QED BY <2>1 DEF KeyInv, AtWork, Messages
<1>2. \A k, t : k \in Outstanding(t)' <=>
          k \in owed'[t] \/ \E i \in DOMAIN channel' : channel'[i].tx = t /\ k \in channel'[i].keys
  BY DEF Outstanding
<1>3. \A k : k \in active_keys' <=> \E t \in AtWork' : k \in Outstanding(t)'
  BY <1>1, <1>2 DEF InHand, OnItsWay
<1>4. active_keys' = UNION {Outstanding(t)' : t \in AtWork'}
  BY <1>3
<1> QED BY <1>4 DEF ActiveKeysAreOwned, AtWork

\* KeyInv in terms of sets, before and after.
OnlyWorkersWrite == \A i \in DOMAIN channel : channel[i].tx \in AtWork
SentOnce == \A i, j \in DOMAIN channel : i # j => channel[i].keys \cap channel[j].keys = {}
SentOrKept == \A i \in DOMAIN channel : \A t \in AtWork : channel[i].keys \cap owed[t] = {}
KeptOnce == \A t, u \in AtWork : t # u => owed[t] \cap owed[u] = {}

LEMMA KeyInvParts ==
    ASSUME TypeOK
    PROVE  KeyInv <=> OnlyWorkersWrite /\ SentOnce /\ SentOrKept /\ KeptOnce
<1>1. \A i \in DOMAIN channel : channel[i].tx \in Tx
  <2>1. \A i \in DOMAIN channel : channel[i] \in Messages
    BY DEF TypeOK
  <2> QED BY <2>1 DEF Messages
<1> QED BY <1>1 DEF KeyInv, OnlyWorkersWrite, SentOnce, SentOrKept, KeptOnce, AtWork

LEMMA KeyInvAfter ==
    ASSUME OnlyWorkersWrite', SentOnce', SentOrKept', KeptOnce' PROVE KeyInv'
BY DEF KeyInv, OnlyWorkersWrite, SentOnce, SentOrKept, KeptOnce, AtWork

LEMMA KeysKept ==
    ASSUME TypeOK, KeyInv, ActiveKeysAreOwned, TypeOK', AtWork' = AtWork, UNCHANGED <<channel, active_keys>>,
           \A t \in AtWork : owed'[t] = owed[t]
    PROVE  KeyInv' /\ ActiveKeysAreOwned'
<1>1. OnlyWorkersWrite /\ SentOnce /\ SentOrKept /\ KeptOnce
  BY KeyInvParts
<1>2. KeyInv'
  <2>1. OnlyWorkersWrite' /\ SentOnce'
    BY <1>1 DEF OnlyWorkersWrite, SentOnce
  <2>2. SentOrKept' /\ KeptOnce'
    BY <1>1 DEF SentOrKept, KeptOnce
  <2> QED BY <2>1, <2>2, KeyInvAfter
<1>3. \A k : (InHand(k)' <=> InHand(k)) /\ (OnItsWay(k)' <=> OnItsWay(k))
  BY DEF InHand, OnItsWay
<1>4. \A k : k \in active_keys' <=> InHand(k)' \/ OnItsWay(k)'
  BY <1>3, ActiveKeys
<1> QED BY <1>2, <1>4, ActiveKeysAfter

LEMMA KeysAfterRead ==
    ASSUME TypeOK, KeyInv, ActiveKeysAreOwned, TypeOK', Reads
    PROVE  KeyInv' /\ ActiveKeysAreOwned'
<1>1. OnlyWorkersWrite /\ SentOnce /\ SentOrKept /\ KeptOnce
  BY KeyInvParts
<1>2. channel \in Seq(Messages) /\ channel # <<>> /\ channel' = Tail(channel)
  BY DEF TypeOK, Reads
<1>3. /\ Head(channel) = channel[1] /\ 1 \in DOMAIN channel
      /\ \A i \in DOMAIN channel' : i + 1 \in DOMAIN channel /\ channel'[i] = channel[i + 1]
      /\ \A i \in DOMAIN channel : i = 1 \/ (i - 1 \in DOMAIN channel' /\ channel'[i - 1] = channel[i])
  BY <1>2, ChannelTail
<1>4. active_keys' = active_keys \ channel[1].keys /\ owed' = owed /\ AtWork' = AtWork
  BY <1>3 DEF Reads, Handle, AtWork, Dispatched
<1>5. \A i \in DOMAIN channel' : i \in Nat /\ i # 0
  <2>1. channel' \in Seq(Messages)
    BY <1>2, ChannelTail
  <2> QED BY <2>1
<1>6. KeyInv'
  <2>1. OnlyWorkersWrite'
    BY <1>1, <1>3, <1>4 DEF OnlyWorkersWrite
  <2>2. SentOnce'
    <3> SUFFICES ASSUME NEW i \in DOMAIN channel', NEW j \in DOMAIN channel', i # j
                 PROVE  channel'[i].keys \cap channel'[j].keys = {}
      BY DEF SentOnce
    <3>1. i + 1 # j + 1
      BY <1>5
    <3> QED BY <1>1, <1>3, <3>1 DEF SentOnce
  <2>3. SentOrKept' /\ KeptOnce'
    BY <1>1, <1>3, <1>4 DEF SentOrKept, KeptOnce
  <2> QED BY <2>1, <2>2, <2>3, KeyInvAfter
<1>7. \A k : k \in active_keys' <=> InHand(k)' \/ OnItsWay(k)'
  <2> SUFFICES ASSUME NEW k PROVE k \in active_keys' <=> InHand(k)' \/ OnItsWay(k)'
    OBVIOUS
  <2>1. k \in active_keys <=> InHand(k) \/ OnItsWay(k)
    BY ActiveKeys
  <2>2. InHand(k)' <=> InHand(k)
    BY <1>4 DEF InHand
  <2>3. InHand(k) => k \notin channel[1].keys
    BY <1>1, <1>3 DEF InHand, SentOrKept
  <2>4. OnItsWay(k)' <=> OnItsWay(k) /\ k \notin channel[1].keys
    <3>1. ASSUME OnItsWay(k)' PROVE OnItsWay(k) /\ k \notin channel[1].keys
      <4>1. PICK i \in DOMAIN channel' : k \in channel'[i].keys
        BY <3>1 DEF OnItsWay
      <4>2. i + 1 \in DOMAIN channel /\ k \in channel[i + 1].keys /\ i + 1 # 1
        BY <1>3, <1>5, <4>1
      <4> QED BY <1>1, <1>3, <4>2 DEF OnItsWay, SentOnce
    <3>2. ASSUME OnItsWay(k), k \notin channel[1].keys PROVE OnItsWay(k)'
      <4>1. PICK i \in DOMAIN channel : k \in channel[i].keys
        BY <3>2 DEF OnItsWay
      <4>2. i - 1 \in DOMAIN channel' /\ channel'[i - 1] = channel[i]
        BY <1>3, <3>2, <4>1
      <4> QED BY <4>1, <4>2 DEF OnItsWay
    <3> QED BY <3>1, <3>2
  <2> QED BY <1>4, <2>1, <2>2, <2>3, <2>4
<1> QED BY <1>6, <1>7, ActiveKeysAfter

LEMMA KeysAfterDispatch ==
    ASSUME TypeOK, QueueInv, OwedInv, KeyInv, ActiveKeysAreOwned, TypeOK', NEW t \in Tx, Dispatch(t)
    PROVE  KeyInv' /\ ActiveKeysAreOwned'
<1>1. OnlyWorkersWrite /\ SentOnce /\ SentOrKept /\ KeptOnce
  BY KeyInvParts
<1>2. /\ work[t] = "queued" /\ owed[t] = Keys(t) /\ Keys(t) \cap active_keys = {}
      /\ AtWork' = AtWork \cup {t} /\ active_keys' = active_keys \cup owed[t]
      /\ owed' = owed /\ channel' = channel
  <2>1. work[t] = "queued" /\ Keys(t) \cap active_keys = {}
    BY DEF Dispatch, MayDispatch, NextReady, Ready, QueueInv
  <2>2. DOMAIN work = Tx
    BY DEF TypeOK
  <2> QED BY <2>1, <2>2 DEF Dispatch, OwedInv, AtWork, Dispatched
<1>3. \A k : k \in owed[t] => ~InHand(k) /\ ~OnItsWay(k)
  BY <1>2, ActiveKeys
<1>4. KeyInv'
  <2>1. OnlyWorkersWrite' /\ SentOnce'
    BY <1>1, <1>2 DEF OnlyWorkersWrite, SentOnce
  <2>2. SentOrKept'
    BY <1>1, <1>2, <1>3 DEF SentOrKept, OnItsWay
  <2>3. KeptOnce'
    BY <1>1, <1>2, <1>3 DEF KeptOnce, InHand
  <2> QED BY <2>1, <2>2, <2>3, KeyInvAfter
<1>5. \A k : k \in active_keys' <=> InHand(k)' \/ OnItsWay(k)'
  <2>1. \A k : k \in active_keys <=> InHand(k) \/ OnItsWay(k)
    BY ActiveKeys
  <2>2. \A k : InHand(k)' <=> InHand(k) \/ k \in owed[t]
    BY <1>2 DEF InHand
  <2>3. \A k : OnItsWay(k)' <=> OnItsWay(k)
    BY <1>2 DEF OnItsWay
  <2> QED BY <1>2, <2>1, <2>2, <2>3
<1> QED BY <1>4, <1>5, ActiveKeysAfter

LEMMA KeysAfterReport ==
    ASSUME TypeOK, KeyInv, ActiveKeysAreOwned, TypeOK', NEW t \in Tx, NEW R, NEW keys \in SUBSET Key,
           Reports(t, R, keys)
    PROVE  KeyInv' /\ ActiveKeysAreOwned'
<1>1. OnlyWorkersWrite /\ SentOnce /\ SentOrKept /\ KeptOnce
  BY KeyInvParts
<1>2. /\ channel \in Seq(Messages) /\ channel' = channel \o R /\ IsReport(R, t, keys)
      /\ keys \subseteq owed[t] /\ owed' = [owed EXCEPT ![t] = @ \ keys] /\ DOMAIN owed = Tx
      /\ active_keys' = active_keys /\ t \in AtWork /\ AtWork' = AtWork
  <2>1. DOMAIN work = Tx
    BY DEF TypeOK
  <2> QED BY <2>1 DEF TypeOK, Reports, Caller, ledger, AtWork, Dispatched
<1>3. /\ \A i \in DOMAIN channel : i \in DOMAIN channel' /\ channel'[i] = channel[i]
      /\ \A i \in DOMAIN R : i + Len(channel) \in DOMAIN channel' /\ channel'[i + Len(channel)] = R[i]
      /\ \A i \in DOMAIN channel' : \/ i \in DOMAIN channel
                                    \/ i - Len(channel) \in DOMAIN R /\ channel'[i] = R[i - Len(channel)]
  BY <1>2, ReportElements
<1>4. /\ \A i \in DOMAIN R : R[i].tx = t /\ R[i].keys = IF R[i].kind = "release" THEN keys ELSE {}
      /\ \A i, j \in DOMAIN R : R[i].kind = R[j].kind => i = j
      /\ keys # {} => \E i \in DOMAIN R : R[i].kind = "release"
  BY <1>2 DEF IsReport
<1>5. \A i \in DOMAIN channel' : i \in Int /\ Len(channel) \in Int
  BY <1>2 DEF TypeOK
<1>6. AtWork \subseteq Tx /\ owed'[t] = owed[t] \ keys /\ \A u \in Tx : u # t => owed'[u] = owed[u]
  BY <1>2 DEF AtWork
<1>7. KeyInv'
  <2>1. OnlyWorkersWrite'
    BY <1>1, <1>2, <1>3, <1>4 DEF OnlyWorkersWrite
  <2>2. \A i \in DOMAIN channel' : i \in DOMAIN channel \/ channel'[i].keys \subseteq keys
    BY <1>3, <1>4
  <2>3. \A i \in DOMAIN channel : channel[i].keys \cap keys = {}
    BY <1>1, <1>2 DEF SentOrKept
  <2>4. SentOnce'
    <3> SUFFICES ASSUME NEW i \in DOMAIN channel', NEW j \in DOMAIN channel', i # j
                 PROVE  channel'[i].keys \cap channel'[j].keys = {}
      BY DEF SentOnce
    <3>1. CASE i \in DOMAIN channel /\ j \in DOMAIN channel
      BY <1>1, <1>3, <3>1 DEF SentOnce
    <3>2. CASE i \in DOMAIN channel /\ j \notin DOMAIN channel
      BY <1>3, <2>2, <2>3, <3>2
    <3>3. CASE i \notin DOMAIN channel /\ j \in DOMAIN channel
      BY <1>3, <2>2, <2>3, <3>3
    <3>4. CASE i \notin DOMAIN channel /\ j \notin DOMAIN channel
      <4>1. i - Len(channel) # j - Len(channel)
        BY <1>5
      <4>2. PICK a \in DOMAIN R, b \in DOMAIN R : a # b /\ channel'[i] = R[a] /\ channel'[j] = R[b]
        BY <1>3, <3>4, <4>1
      <4>3. R[a].keys = {} \/ R[b].keys = {}
        BY <1>4, <4>2
      <4> QED BY <4>2, <4>3
    <3> QED BY <3>1, <3>2, <3>3, <3>4
  <2>5. SentOrKept'
    <3> SUFFICES ASSUME NEW i \in DOMAIN channel', NEW u \in AtWork
                 PROVE  channel'[i].keys \cap owed'[u] = {}
      BY <1>2 DEF SentOrKept
    <3>1. owed'[u] \subseteq owed[u]
      BY <1>6
    <3>2. CASE i \in DOMAIN channel
      BY <1>1, <1>3, <3>1, <3>2 DEF SentOrKept
    <3>3. CASE i \notin DOMAIN channel /\ u = t
      BY <1>6, <2>2, <3>3
    <3>4. CASE i \notin DOMAIN channel /\ u # t
      <4>1. owed[t] \cap owed[u] = {}
        BY <1>1, <1>2, <3>4 DEF KeptOnce
      <4>2. channel'[i].keys \subseteq owed[t]
        <5>1. keys \subseteq owed[t]
          BY <1>2
        <5> QED BY <2>2, <3>4, <5>1
      <4> QED BY <3>1, <4>1, <4>2
    <3> QED BY <3>2, <3>3, <3>4
  <2>6. KeptOnce'
    <3>1. \A u \in AtWork : owed'[u] \subseteq owed[u]
      BY <1>6
    <3> QED BY <1>1, <1>2, <3>1 DEF KeptOnce
  <2> QED BY <2>1, <2>4, <2>5, <2>6, KeyInvAfter
<1>8. \A k : k \in active_keys' <=> InHand(k)' \/ OnItsWay(k)'
  <2>1. \A k : k \in active_keys <=> InHand(k) \/ OnItsWay(k)
    BY ActiveKeys
  <2>2. \A k : InHand(k)' => InHand(k)
    BY <1>2, <1>6 DEF InHand
  <2>3. \A k : InHand(k) => InHand(k)' \/ k \in keys
    BY <1>2, <1>6 DEF InHand
  <2>4. \A k : k \in keys => InHand(k) /\ OnItsWay(k)'
    <3> SUFFICES ASSUME NEW k \in keys PROVE InHand(k) /\ OnItsWay(k)'
      OBVIOUS
    <3>1. InHand(k)
      BY <1>2 DEF InHand
    <3>2. PICK i \in DOMAIN R : R[i].kind = "release"
      BY <1>4
    <3>3. R[i].keys = keys
      BY <1>4, <3>2
    <3>4. OnItsWay(k)'
      BY <1>3, <3>3 DEF OnItsWay
    <3> QED BY <3>1, <3>4
  <2>5. \A k : OnItsWay(k) => OnItsWay(k)'
    BY <1>3 DEF OnItsWay
  <2>6. \A k : OnItsWay(k)' => OnItsWay(k) \/ k \in keys
    BY <1>3, <1>4 DEF OnItsWay
  <2> QED BY <1>2, <2>1, <2>2, <2>3, <2>4, <2>5, <2>6
<1> QED BY <1>7, <1>8, ActiveKeysAfter

LEMMA KeyInvStep ==
    ASSUME TypeOK, QueueInv, OwedInv, NodeInv, KeyInv, ActiveKeysAreOwned, TypeOK', [Next]_vars
    PROVE  KeyInv' /\ ActiveKeysAreOwned'
<1>0. DOMAIN work = Tx /\ DOMAIN owed = Tx
  BY DEF TypeOK
<1>1. CASE Quiet
  <2>1. AtWork' = AtWork
    BY <1>1 DEF Quiet, AtWork, Dispatched
  <2> QED BY <1>1, <2>1, KeysKept DEF Quiet
<1>2. ASSUME NEW t \in Tx, Enqueue(t), Valid(t) PROVE KeyInv' /\ ActiveKeysAreOwned'
  <2>1. /\ work[t] = "new" /\ work' = [work EXCEPT ![t] = "queued"] /\ owed' = [owed EXCEPT ![t] = Keys(t)]
        /\ UNCHANGED <<channel, active_keys>>
    BY <1>2 DEF Enqueue, QueueInv
  <2>2. AtWork' = AtWork /\ \A u \in AtWork : owed'[u] = owed[u]
    BY <1>0, <2>1 DEF AtWork, Dispatched
  <2> QED BY <2>1, <2>2, KeysKept
<1>3. ASSUME NEW t \in Tx, Advances(t) PROVE KeyInv' /\ ActiveKeysAreOwned'
  <2>1. AtWork' = AtWork /\ UNCHANGED <<owed, channel, active_keys>>
    BY <1>0, <1>3 DEF Advances, FailBeforeRpc, SubmitRpc, RpcAnswers, Caller, ledger, AtWork, Dispatched
  <2> QED BY <2>1, KeysKept
<1>4. ASSUME NEW t \in Tx, NodeAccepts(t) \/ NodeResolves(t) PROVE KeyInv' /\ ActiveKeysAreOwned'
  <2>1. AtWork' = AtWork /\ UNCHANGED <<owed, channel, active_keys>>
    BY <1>4 DEF NodeAccepts, NodeResolves, Caller, ledger, AtWork, Dispatched
  <2> QED BY <2>1, KeysKept
<1>5. ASSUME NEW t \in Tx, WorkerReports(t) PROVE KeyInv' /\ ActiveKeysAreOwned'
  <2>1. PICK R : \E keys \in SUBSET Key : Reports(t, R, keys)
    BY <1>5, ReportingStep
  <2> QED BY <2>1, KeysAfterReport
<1> QED BY <1>1, <1>2, <1>3, <1>4, <1>5, KeysAfterRead, KeysAfterDispatch, StepKinds

-----------------------------------------------------------------------------
(* Lanes                                                                   *)

\* The worker has every key its transaction needs.
LEMMA NeedsAreOwed ==
    ASSUME OwedInv, NEW t \in Tx
    PROVE  Needs(t) \subseteq owed[t] /\ Needs(t) \subseteq Keys(t)
BY DEF OwedInv, Needs, Keys

LEMMA LaneOrderStep ==
    ASSUME TypeOK, QueueInv, OwedInv, NodeInv, KeyInv, ActiveKeysAreOwned, LaneOrder, [Next]_vars
    PROVE  LaneOrder'
<1>0. /\ DOMAIN work = Tx /\ DOMAIN id = Tx /\ next_queue_id \in Nat
      /\ \A t \in Tx : id[t] \in Nat /\ id[t] < next_queue_id
      /\ \A t \in pending : work[t] = "queued"
  BY DEF TypeOK, QueueInv
<1>1. ASSUME id' = id, \A u \in Tx : Dispatched(u)' => Dispatched(u) /\ Keys(u)' = Keys(u),
             \A t \in Tx : Needs(t)' \subseteq Needs(t),
             \A t \in Tx : t \in pending' => t \in pending /\ Keys(t)' = Keys(t)
      PROVE  LaneOrder'
  BY <1>0, <1>1 DEF LaneOrder
<1>2. CASE Quiet
  <2>1. \A t \in Tx : work[t] # "new" => Keys(t)' = Keys(t)
    BY <1>2 DEF Quiet, Keys
  <2>2. \A t \in Tx : Needs(t)' \subseteq Needs(t)
    <3> SUFFICES ASSUME NEW t \in Tx PROVE Needs(t)' \subseteq Needs(t)
      OBVIOUS
    <3>1. CASE work'[t] = "cancelled"
      BY <3>1 DEF Needs
    <3>2. CASE work'[t] = work[t] /\ work[t] = "new"
      BY <3>2 DEF Needs
    <3>3. CASE work'[t] = work[t] /\ tx'[t] = tx[t]
      BY <3>3 DEF Needs, Keys
    <3> QED BY <1>2, <3>1, <3>2, <3>3 DEF Quiet
  <2>3. \A u \in Tx : Dispatched(u)' => Dispatched(u) /\ work[u] # "new"
    BY <1>2 DEF Quiet, Dispatched
  <2>4. id' = id /\ \A t \in Tx : t \in pending' => t \in pending /\ work[t] # "new"
    BY <1>0, <1>2 DEF Quiet
  <2> QED BY <1>1, <2>1, <2>2, <2>3, <2>4
<1>3. CASE Reads
  <2>1. UNCHANGED <<id, tx, work, pending>>
    BY <1>3 DEF Reads, queue
  <2> QED BY <1>1, <2>1 DEF Dispatched, Keys, Needs
<1>4. ASSUME NEW t \in Tx, Enqueue(t), Valid(t) PROVE LaneOrder'
  <2>1. /\ work[t] = "new" /\ work' = [work EXCEPT ![t] = "queued"] /\ tx' = tx
        /\ id' = [id EXCEPT ![t] = next_queue_id] /\ pending' = pending \cup {t}
    BY <1>4 DEF Enqueue, QueueInv
  <2>2. \A u \in Tx : Dispatched(u)' => Dispatched(u) /\ u # t
    BY <1>0, <2>1 DEF Dispatched
  <2>3. \A u \in Tx : Keys(u)' = Keys(u) /\ Needs(u)' \subseteq Needs(u)
    BY <1>0, <2>1 DEF Keys, Needs
  <2> QED BY <1>0, <2>1, <2>2, <2>3 DEF LaneOrder
<1>5. ASSUME NEW t \in Tx, Dispatch(t) PROVE LaneOrder'
  <2>1. /\ work[t] = "queued" /\ work' = [work EXCEPT ![t] = "preparing"] /\ UNCHANGED <<tx, id>>
        /\ pending' = pending \ {t} /\ t \in pending /\ Keys(t) \cap active_keys = {}
        /\ \A u \in pending : id[u] < id[t] => Keys(t) \cap Keys(u) = {}
    BY <1>5 DEF Dispatch, MayDispatch, NextReady, Ready, QueueInv
  <2>2. /\ \A u \in Tx : Keys(u)' = Keys(u) /\ (u # t => Needs(u)' = Needs(u))
        /\ Needs(t)' = Keys(t)
    BY <1>0, <2>1 DEF Keys, Needs
  <2>3. \A u \in Tx : u # t => (Dispatched(u)' <=> Dispatched(u))
    BY <1>0, <2>1 DEF Dispatched
  <2>4. \A u \in Tx : Needs(u) \cap Keys(t) = {}
    <3>1. \A u \in Tx : Dispatched(u) => Needs(u) \subseteq active_keys
      BY NeedsAreOwed, ActiveKeys DEF InHand, AtWork
    <3>2. \A u \in Tx : ~Dispatched(u) => Needs(u) = {}
      BY DEF Needs, Dispatched
    <3> QED BY <2>1, <3>1, <3>2
  <2> SUFFICES ASSUME NEW u \in Tx, NEW v \in Tx, Dispatched(v)', 0 < id[u], id[u] < id[v]
               PROVE  /\ Needs(u)' \cap Keys(v) = {}
                      /\ u \in pending' => Keys(u) \cap Keys(v) = {}
    BY <2>1, <2>2 DEF LaneOrder
  <2>5. CASE v = t
    <3>1. u # t
      BY <1>0, <2>5
    <3> QED BY <2>1, <2>2, <2>4, <2>5, <3>1
  <2>6. CASE v # t /\ u = t
    BY <2>1, <2>2, <2>3, <2>6 DEF LaneOrder
  <2>7. CASE v # t /\ u # t
    BY <2>1, <2>2, <2>3, <2>7 DEF LaneOrder
  <2> QED BY <2>5, <2>6, <2>7
<1>6. ASSUME NEW t \in Tx, Advances(t) PROVE LaneOrder'
  <2>1. /\ work[t] \in {"preparing", "rpc"} /\ UNCHANGED <<tx, id, pending>>
        /\ \E w \in {"rpc", "failed", "error", "accepted", "unsure"} : work' = [work EXCEPT ![t] = w]
    BY <1>6 DEF Advances, FailBeforeRpc, SubmitRpc, RpcAnswers, Caller, queue
  <2>2. \A u \in Tx : Keys(u)' = Keys(u) /\ Needs(u)' \subseteq Needs(u)
    BY <1>0, <2>1 DEF Keys, Needs
  <2>3. \A u \in Tx : Dispatched(u)' => Dispatched(u)
    BY <1>0, <2>1 DEF Dispatched
  <2> QED BY <1>0, <1>1, <2>1, <2>2, <2>3 DEF TypeOK
<1>7. ASSUME NEW t \in Tx, WorkerReports(t) PROVE LaneOrder'
  <2>1. PICK R : \E keys \in SUBSET Key : Reports(t, R, keys)
    BY <1>7, ReportingStep
  <2>2. /\ UNCHANGED <<tx, id, pending>> /\ \A u \in Tx : u # t => work'[u] = work[u]
        /\ work[t] \in {"failed", "error", "unsure", "accepted", "observing", "observing_unsure"}
        /\ work'[t] \in {"observing", "observing_unsure", "done"}
        /\ work'[t] = "observing" => work[t] = "accepted"
    BY <1>0, <2>1 DEF Reports, Caller, queue
  <2>3. \A u \in Tx : Keys(u)' = Keys(u) /\ Needs(u)' \subseteq Needs(u)
    BY <2>2 DEF Keys, Needs
  <2>4. \A u \in Tx : Dispatched(u)' => Dispatched(u)
    BY <2>2 DEF Dispatched
  <2> QED BY <1>0, <1>1, <2>2, <2>3, <2>4 DEF TypeOK
<1>8. ASSUME NEW t \in Tx, NodeAccepts(t) \/ NodeResolves(t) PROVE LaneOrder'
  <2>1. UNCHANGED <<tx, id, pending, work>>
    BY <1>8 DEF NodeAccepts, NodeResolves, Caller, queue
  <2> QED BY <1>1, <2>1 DEF Dispatched, Keys, Needs
<1> QED BY <1>2, <1>3, <1>4, <1>5, <1>6, <1>7, <1>8, StepKinds

\* Whatever is lost was queued when it was cancelled, and nothing is
\* dispatched before the caller knows.
LEMMA NoSkippedNonceStep ==
    ASSUME TypeOK, QueueInv, OwedInv, NodeInv, LostInv, LaneOrder, NoSkippedNonce, [Next]_vars
    PROVE  NoSkippedNonce'
<1>0. /\ DOMAIN work = Tx /\ DOMAIN id = Tx /\ pending \subseteq Tx /\ lost \subseteq Tx
      /\ \A t \in Tx : id[t] \in Nat
      /\ \A t \in pending : work[t] = "queued" /\ id[t] > 0
      /\ \A t \in lost : work[t] = "cancelled"
  BY DEF TypeOK, QueueInv, LostInv
<1>1. CASE Quiet
  <2>1. /\ id' = id /\ lost' \subseteq lost \cup pending
        /\ \A t \in Tx : work[t] # "new" => Keys(t)' = Keys(t)
        /\ \A t \in Tx : Dispatched(t)' => Dispatched(t) /\ work[t] # "new"
    BY <1>1 DEF Quiet, Keys, Dispatched
  <2> SUFFICES ASSUME NEW t \in Tx, NEW u \in lost', Dispatched(t)', id[u] < id[t]
               PROVE  Keys(t)' \cap Keys(u)' = {}
    BY <2>1 DEF NoSkippedNonce
  <2>2. Keys(t)' = Keys(t) /\ Keys(u)' = Keys(u) /\ Dispatched(t)
    BY <1>0, <2>1
  <2>3. CASE u \in lost
    BY <1>0, <2>2, <2>3 DEF NoSkippedNonce
  <2>4. CASE u \in pending
    BY <1>0, <2>2, <2>4 DEF LaneOrder
  <2> QED BY <2>1, <2>2, <2>3, <2>4
<1>2. CASE Reads
  BY <1>2 DEF Reads, queue, NoSkippedNonce, Dispatched, Keys
<1>3. ASSUME NEW t \in Tx, Enqueue(t), Valid(t) PROVE NoSkippedNonce'
  <2>1. /\ work[t] = "new" /\ work' = [work EXCEPT ![t] = "queued"] /\ UNCHANGED <<tx, lost>>
        /\ id' = [id EXCEPT ![t] = next_queue_id]
    BY <1>3 DEF Enqueue, QueueInv
  <2>2. \A u \in Tx : Dispatched(u)' => Dispatched(u) /\ u # t
    BY <1>0, <2>1 DEF Dispatched
  <2>3. \A u \in Tx : Keys(u)' = Keys(u)
    BY <2>1 DEF Keys
  <2> QED BY <1>0, <2>1, <2>2, <2>3 DEF NoSkippedNonce
<1>4. ASSUME NEW t \in Tx, Dispatch(t) PROVE NoSkippedNonce'
  <2>1. lost' = {}
    BY <1>4 DEF Dispatch, LostInv
  <2> QED BY <2>1 DEF NoSkippedNonce
<1>5. ASSUME NEW t \in Tx, Advances(t) \/ WorkerReports(t) \/ NodeAccepts(t) \/ NodeResolves(t)
      PROVE  NoSkippedNonce'
  <2>1. /\ UNCHANGED <<tx, id, lost>> /\ \A u \in Tx : u # t => work'[u] = work[u]
        /\ work[t] \notin {"new", "cancelled"}
    BY <1>5, CallerIsElsewhere
  <2>2. work[t] # "queued"
    <3>1. ~(Advances(t) /\ work[t] = "queued")
      BY DEF Advances, FailBeforeRpc, SubmitRpc, RpcAnswers
    <3>2. ~(WorkerReports(t) /\ work[t] = "queued")
      BY DEF WorkerReports, WorkerFails, WorkerUnsure, WorkerAccepted, WorkerObserves
    <3>3. ~(NodeAccepts(t) /\ work[t] = "queued")
      BY DEF NodeAccepts
    <3>4. ~(NodeResolves(t) /\ work[t] = "queued")
      BY DEF NodeResolves, NodeInv, Dispatched
    <3> QED BY <1>5, <3>1, <3>2, <3>3, <3>4
  <2>3. \A u \in Tx : (Dispatched(u)' => Dispatched(u)) /\ Keys(u)' = Keys(u)
    BY <2>1, <2>2 DEF Dispatched, Keys
  <2> QED BY <2>1, <2>3 DEF NoSkippedNonce
<1> QED BY <1>1, <1>2, <1>3, <1>4, <1>5, StepKinds

-----------------------------------------------------------------------------
(* The node's pool                                                         *)

FailingReport == \E i \in DOMAIN channel : channel[i].kind = "pending" /\ ~channel[i].ok

LEMMA PoolShrinks ==
    ASSUME TypeOK, CountInv, PoolInv, Tracked, config' = config,
           Unresolved' \cup Stuck' \subseteq Unresolved \cup Stuck,
           Stuck' # {} => pending_failure' \/ FailingReport'
    PROVE  PoolInv'
<1>1. IsFiniteSet(AtWork)
  BY CountFacts
<1>2. Unresolved \cup Stuck \in SUBSET AtWork
  BY DEF Unresolved, Stuck, AtWork, Dispatched
<1>3. IsFiniteSet(Unresolved \cup Stuck) /\ Cardinality(Unresolved \cup Stuck) \in Nat
  BY <1>1, <1>2, FS_Subset, FS_CardinalityType
<1> DEFINE A == Unresolved \cup Stuck
           B == Unresolved' \cup Stuck'
<1>4. IsFiniteSet(A) /\ Cardinality(A) \in Nat /\ B \in SUBSET A /\ Cardinality(A) <= MaxPending
  BY <1>3 DEF PoolInv
<1> HIDE DEF A, B
<1>5. IsFiniteSet(B) /\ Cardinality(B) <= Cardinality(A)
  BY <1>4, FS_Subset
<1>6. Cardinality(B) \in Nat /\ MaxPending \in Nat /\ MaxPending' = MaxPending
  BY <1>5, FS_CardinalityType, ConfigType DEF MaxPending
<1>7. Cardinality(B) <= MaxPending'
  BY <1>4, <1>5, <1>6
<1> QED BY <1>7 DEF PoolInv, B, FailingReport

LEMMA PoolInvStep ==
    ASSUME TypeOK, QueueInv, OwedInv, NodeInv, CountInv, PoolInv, [Next]_vars
    PROVE  PoolInv'
<1>0. DOMAIN work = Tx /\ DOMAIN node = Tx /\ channel \in Seq(Messages)
  BY DEF TypeOK
<1>00. CASE ~Tracked /\ config' = config
  BY <1>00 DEF PoolInv, Tracked, MaxPending
<1>01. Tracked => (Stuck # {} => pending_failure \/ FailingReport)
  BY DEF PoolInv, FailingReport
<1>1. Quiet => config' = config /\ Unresolved' = Unresolved /\ Stuck' = Stuck
               /\ UNCHANGED <<pending_failure, channel>>
  BY DEF Quiet, Unresolved, Stuck, Dispatched
<1>2. Reads => config' = config /\ Unresolved' = Unresolved /\ Stuck' = Stuck
               /\ (pending_failure \/ FailingReport => pending_failure' \/ FailingReport')
  <2> SUFFICES ASSUME Reads PROVE config' = config /\ Unresolved' = Unresolved /\ Stuck' = Stuck
               /\ (pending_failure \/ FailingReport => pending_failure' \/ FailingReport')
    OBVIOUS
  <2>1. config' = config /\ Unresolved' = Unresolved /\ Stuck' = Stuck
    BY DEF Reads, queue, Unresolved, Stuck, Dispatched
  <2>2. channel # <<>> /\ channel' = Tail(channel)
    BY DEF Reads
  <2>3. pending_failure' = (pending_failure \/ (channel[1].kind = "pending" /\ ~channel[1].ok))
    BY <1>0, <2>2, ChannelTail DEF Reads, Handle
  <2>4. \A i \in DOMAIN channel : i = 1 \/ (i - 1 \in DOMAIN channel' /\ channel'[i - 1] = channel[i])
    BY <1>0, <2>2, ChannelTail
  <2>5. FailingReport => FailingReport' \/ (channel[1].kind = "pending" /\ ~channel[1].ok)
    BY <2>4 DEF FailingReport
  <2> QED BY <2>1, <2>3, <2>5
<1>3. ASSUME NEW t \in Tx, Enqueue(t), Valid(t)
      PROVE  config' = config /\ Unresolved' = Unresolved /\ Stuck' = Stuck
             /\ UNCHANGED <<pending_failure, channel>>
  <2>1. work[t] = "new" /\ work' = [work EXCEPT ![t] = "queued"]
        /\ UNCHANGED <<config, node, pending_failure, channel>>
    BY <1>3 DEF Enqueue, QueueInv
  <2> QED BY <1>0, <2>1 DEF Unresolved, Stuck, Dispatched
<1>4. ASSUME NEW t \in Tx, Dispatch(t), Tracked PROVE PoolInv'
  <2>1. /\ work[t] = "queued" /\ work' = [work EXCEPT ![t] = "preparing"] /\ UNCHANGED <<config, node>>
        /\ ~pending_failure /\ channel = <<>> /\ in_flight_pending < MaxPending
    BY <1>4 DEF Dispatch, MayDispatch, NextReady, Ready, QueueInv, Failure, SlotFree
  <2>2. ~FailingReport
    <3>1. DOMAIN channel = {}
      BY <2>1
    <3> QED BY <3>1 DEF FailingReport
  <2>3. Stuck = {}
    BY <1>01, <1>4, <2>1, <2>2
  <2>4. Unresolved' = Unresolved \cup {t} /\ Stuck' = Stuck /\ t \notin Unresolved
    BY <1>0, <2>1 DEF Unresolved, Stuck, Dispatched
  <2> DEFINE U == Cardinality(Unresolved)
             Q == Queued("pending")
  <2>5. IsFiniteSet(Unresolved) /\ U \in Nat /\ Q \in Nat /\ in_flight_pending = Q + U
    BY <1>4, CountFacts
  <2>6. Cardinality(Unresolved') = U + 1
    BY <2>4, <2>5, FS_AddElement
  <2>7. MaxPending' = MaxPending /\ MaxPending \in Nat
    BY <2>1, ConfigType DEF MaxPending
  <2>8. Unresolved' \cup Stuck' = Unresolved'
    BY <2>3, <2>4
  <2> HIDE DEF U, Q
  <2>9. Cardinality(Unresolved' \cup Stuck') <= MaxPending'
    <3>1. U + 1 <= MaxPending
      BY <2>1, <2>5, <2>7
    <3> QED BY <2>6, <2>7, <2>8, <3>1
  <2> QED BY <2>3, <2>4, <2>9 DEF PoolInv
<1>5. ASSUME NEW t \in Tx, Advances(t)
      PROVE  config' = config /\ Unresolved' = Unresolved /\ Stuck' = Stuck
             /\ UNCHANGED <<pending_failure, channel>>
  BY <1>0, <1>5 DEF Advances, FailBeforeRpc, SubmitRpc, RpcAnswers, Caller, queue, ledger,
                    Unresolved, Stuck, Dispatched
<1>6. ASSUME NEW t \in Tx, WorkerReports(t), Tracked
      PROVE  /\ config' = config /\ Unresolved' \cup Stuck' \subseteq Unresolved \cup Stuck
             /\ Stuck' # {} => pending_failure' \/ FailingReport'
  <2>1. PICK R : \E keys \in SUBSET Key : Reports(t, R, keys)
    BY <1>6, ReportingStep
  <2>2. PICK keys \in SUBSET Key : Reports(t, R, keys)
    BY <2>1
  <2>3. /\ UNCHANGED <<config, pending_failure, node>> /\ channel' = channel \o R /\ IsReport(R, t, keys)
        /\ work[t] \in {"failed", "error", "unsure", "accepted", "observing", "observing_unsure"}
        /\ \E w \in {"observing", "observing_unsure", "done"} : work' = [work EXCEPT ![t] = w]
    BY <2>2 DEF Reports, Caller, queue, ledger
  <2>4. /\ Unresolved' \cup Stuck' \subseteq Unresolved \cup Stuck
        /\ Stuck' \subseteq Stuck \cup {t}
        /\ t \in Stuck' => work'[t] = "done" /\ node[t] = "pool"
    BY <1>0, <2>3 DEF Unresolved, Stuck, Dispatched
  <2>5. /\ \A i \in DOMAIN channel : i \in DOMAIN channel' /\ channel'[i] = channel[i]
        /\ \A i \in DOMAIN R : /\ i + Len(channel) \in DOMAIN channel'
                               /\ channel'[i + Len(channel)] = R[i]
    BY <1>0, <2>3, ReportElements
  <2>6. FailingReport => FailingReport'
    BY <2>5 DEF FailingReport
  <2>7. t \in Stuck' => FailingReport'
    <3> SUFFICES ASSUME t \in Stuck' PROVE FailingReport'
      OBVIOUS
    <3>1. PICK i \in DOMAIN R : R[i].kind = "pending"
      BY <1>6, <2>2, <2>4 DEF Reports, Tells
    <3>2. ~R[i].ok
      BY <2>2, <2>4, <3>1 DEF Reports
    <3> QED BY <2>5, <3>1, <3>2 DEF FailingReport
  <2> QED BY <1>01, <1>6, <2>3, <2>4, <2>6, <2>7
<1>7. ASSUME NEW t \in Tx, NodeAccepts(t) \/ NodeResolves(t)
      PROVE  config' = config /\ Unresolved' = Unresolved /\ Stuck' \subseteq Stuck
             /\ UNCHANGED <<pending_failure, channel>>
  <2>1. /\ UNCHANGED <<config, work, pending_failure, channel>>
        /\ \E n \in {"pool", "included", "failed"} : node' = [node EXCEPT ![t] = n]
        /\ NodeAccepts(t) => work[t] # "done"
        /\ NodeResolves(t) => node'[t] # "pool"
    BY <1>0, <1>7 DEF NodeAccepts, NodeResolves, Caller, queue, ledger
  <2>2. Unresolved' = Unresolved
    BY <2>1 DEF Unresolved, Dispatched
  <2>3. Stuck' \subseteq Stuck
    BY <1>0, <1>7, <2>1 DEF Stuck
  <2> QED BY <2>1, <2>2, <2>3
<1>8. ASSUME config' = config, Unresolved' = Unresolved, Stuck' \subseteq Stuck, Tracked,
             pending_failure \/ FailingReport => pending_failure' \/ FailingReport'
      PROVE  PoolInv'
  <2>1. Stuck' # {} => pending_failure' \/ FailingReport'
    BY <1>01, <1>8
  <2> QED BY <1>8, <2>1, PoolShrinks
<1>9. UNCHANGED <<pending_failure, channel>>
          => (pending_failure \/ FailingReport => pending_failure' \/ FailingReport')
  BY DEF FailingReport
<1>10. config' = config
  <2>1. \A t \in Tx : Enqueue(t) \/ Dispatch(t) => config' = config
    BY DEF Enqueue, Dispatch
  <2>2. \A t \in Tx : Advances(t) \/ WorkerReports(t) \/ NodeAccepts(t) \/ NodeResolves(t)
                          => config' = config
    BY CallerIsElsewhere
  <2> QED BY <1>1, <1>2, <2>1, <2>2, StepKinds
<1>11. CASE Tracked
  <2>1. \A t \in Tx : WorkerReports(t) => PoolInv'
    BY <1>6, <1>11, PoolShrinks
  <2> HIDE DEF PoolInv
  <2> QED BY <1>1, <1>2, <1>3, <1>4, <1>5, <1>7, <1>8, <1>9, <1>11, <2>1, StepKinds
<1> QED BY <1>00, <1>10, <1>11

-----------------------------------------------------------------------------
(* The inductive invariant                                                 *)

LEMMA IInvInit == Init => IInv
<1> SUFFICES ASSUME Init PROVE IInv
  OBVIOUS
<1>0. /\ \A t \in Tx : work[t] = "new" /\ owed[t] = {} /\ node[t] = "absent" /\ id[t] = 0
      /\ \A t \in Tx : tx[t].submission = {} /\ tx[t].inclusion = {} /\ ~Dispatched(t) /\ answer[t] = "none"
      /\ pending = {} /\ lost = {} /\ channel = <<>> /\ DOMAIN channel = {} /\ active_keys = {}
      /\ call.at = "idle" /\ next_queue_id = 1 /\ permits = MaxConcurrent /\ completed_setup = {}
      /\ in_flight_pending = 0 /\ in_flight_setup = 0 /\ ~deferred_error
  BY DEF Init, Dispatched
<1>1. TypeOK
  <2>1. config \in Configs /\ MaxConcurrent \in Nat \ {0}
    BY SenderAssumption DEF Init, MaxConcurrent
  <2>2. [phase |-> "workload", submission |-> {}, inclusion |-> {}, depends_on |-> {}] \in GeneratedTx
    BY DEF GeneratedTx
  <2>3. tx \in [Tx -> GeneratedTx]
    BY <2>2 DEF Init
  <2>4. work \in [Tx -> Work] /\ owed \in [Tx -> SUBSET Key]
    BY DEF Init, Work
  <2>5. permits \in 0 .. MaxConcurrent /\ channel \in Seq(Messages)
    BY <2>1 DEF Init
  <2>6. CallerTypes
    <3>1. call \in [at : {"idle", "buffer", "pump", "recv", "flush", "reap", "gone"},
                   ret : {"buffer", "send", "flush"}, tx : Tx, failed : BOOLEAN]
      BY DEF Init
    <3>2. answer \in [Tx -> {"none", "ok", "refused"}]
      BY DEF Init
    <3>3. pending = {} /\ lost = {} /\ deferred_error = FALSE
      BY DEF Init
    <3> QED BY <2>4, <3>1, <3>2, <3>3 DEF CallerTypes
  <2>7. OtherTypes
    <3>1. id \in [Tx -> Nat] /\ node \in [Tx -> {"absent", "pool", "included", "failed"}]
      BY DEF Init
    <3>2. /\ next_queue_id = 1 /\ active_keys = {} /\ known_setup = {} /\ completed_setup = {}
          /\ in_flight_setup = 0 /\ in_flight_pending = 0
      BY DEF Init
    <3>3. setup_failure \in BOOLEAN /\ pending_failure \in BOOLEAN
      BY DEF Init
    <3>4. /\ next_queue_id \in Nat \ {0} /\ active_keys \in SUBSET Key /\ known_setup \in SUBSET Tx
          /\ completed_setup \in SUBSET Tx /\ in_flight_setup \in Nat /\ in_flight_pending \in Nat
      BY <3>2
    <3> QED BY <2>1, <2>3, <2>4, <2>5, <3>1, <3>3, <3>4 DEF OtherTypes
  <2> QED BY <2>6, <2>7, TypeOKSplit
<1>2. QueueInv /\ OwedInv /\ NodeInv /\ LostInv
  BY <1>0 DEF QueueInv, OwedInv, NodeInv, LostInv
<1>3. KeyInv /\ SetupInv /\ LaneOrder /\ SetupAfterDependencies /\ NoSkippedNonce
  BY <1>0 DEF KeyInv, SetupInv, LaneOrder, SetupAfterDependencies, NoSkippedNonce
<1>4. ActiveKeysAreOwned
  BY <1>0 DEF ActiveKeysAreOwned
<1>5. AtWork = {} /\ Unresolved = {} /\ SetupAtWork = {} /\ PermitHolders = {} /\ Stuck = {}
  BY <1>0 DEF AtWork, Unresolved, SetupAtWork, PermitHolders, Stuck
<1>6. Queued("pending") = 0 /\ Queued("setup") = 0
  <2>1. \A kind : {i \in DOMAIN channel : channel[i].kind = kind} = {}
    BY <1>0
  <2> QED BY <2>1, FS_EmptySet DEF Queued
<1>7. MaxConcurrent \in Nat /\ MaxPending \in Nat
  BY <1>1, ConfigType
<1>8. CountInv
  <2>1. IsFiniteSet(AtWork) /\ permits + Cardinality(PermitHolders) = MaxConcurrent
    BY <1>0, <1>5, <1>7, FS_EmptySet
  <2>2. in_flight_pending = Queued("pending") + (IF Tracked THEN Cardinality(Unresolved) ELSE 0)
    BY <1>0, <1>5, <1>6, FS_EmptySet
  <2>3. in_flight_setup = Queued("setup") + Cardinality(SetupAtWork)
    BY <1>0, <1>5, <1>6, FS_EmptySet
  <2> QED BY <2>1, <2>2, <2>3 DEF CountInv, AtWork, SetupAtWork
<1>9. PoolInv
  <2>1. Cardinality(Unresolved \cup Stuck) = 0
    BY <1>5, FS_EmptySet
  <2> QED BY <1>5, <1>7, <2>1 DEF PoolInv
<1> QED BY <1>1, <1>2, <1>3, <1>4, <1>8, <1>9 DEF IInv

LEMMA IInvStep == IInv /\ [Next]_vars => IInv'
<1> SUFFICES ASSUME IInv, [Next]_vars PROVE IInv'
  OBVIOUS
<1>0. /\ TypeOK /\ QueueInv /\ OwedInv /\ KeyInv /\ CountInv /\ NodeInv /\ PoolInv /\ SetupInv
      /\ LostInv /\ LaneOrder /\ ActiveKeysAreOwned /\ SetupAfterDependencies /\ NoSkippedNonce
  BY DEF IInv
<1>1. TypeOK'
  BY <1>0, TypeOKStep
<1>2. QueueInv' /\ OwedInv' /\ NodeInv'
  BY <1>0, QueueInvStep, OwedInvStep, NodeInvStep
<1>3. KeyInv' /\ ActiveKeysAreOwned'
  BY <1>0, <1>1, KeyInvStep
<1>4. CountInv' /\ PoolInv'
  BY <1>0, CountInvStep, PoolInvStep
<1>5. SetupInv' /\ SetupAfterDependencies'
  BY <1>0, SetupInvStep
<1>6. LostInv' /\ LaneOrder' /\ NoSkippedNonce'
  BY <1>0, LostInvStep, LaneOrderStep, NoSkippedNonceStep
<1> QED BY <1>1, <1>2, <1>3, <1>4, <1>5, <1>6 DEF IInv

\* The strengthening of Sender's invariants that every step keeps: where each
\* key, each slot and each permit is, and what the caller knows.
THEOREM SenderInductive == Spec => []IInv
<1>1. Init => IInv
  BY IInvInit
<1>2. IInv /\ [Next]_vars => IInv'
  BY IInvStep
<1> QED BY <1>1, <1>2, PTL DEF Spec

\* TypeOK: in_flight_setup and in_flight_pending never go below zero, and the
\* semaphore never has more permits than with_max_concurrent gave it.
THEOREM TypeCorrect == Spec => []TypeOK
<1>1. IInv => TypeOK
  BY DEF IInv
<1> QED BY <1>1, SenderInductive, PTL

\* LaneOrder: what send() promises of transactions that share a key.
THEOREM LanesInOrder == Spec => []LaneOrder
<1>1. IInv => LaneOrder
  BY DEF IInv
<1> QED BY <1>1, SenderInductive, PTL

\* ActiveKeysAreOwned: each key in Sender::active_keys has a worker or a
\* message that will give it back, and no other key is out.
THEOREM KeysComeBack == Spec => []ActiveKeysAreOwned
<1>1. IInv => ActiveKeysAreOwned
  BY DEF IInv
<1> QED BY <1>1, SenderInductive, PTL

\* SlotsAccounted: in_flight_pending and in_flight_setup are exact, and the
\* pool of the node never holds more than with_max_pending of the sender's.
THEOREM SlotsExact == Spec => []SlotsAccounted
<1>1. IInv => SlotsAccounted
  <2> SUFFICES ASSUME IInv PROVE SlotsAccounted
    OBVIOUS
  <2>0. TypeOK /\ CountInv /\ NodeInv /\ PoolInv
    BY DEF IInv
  <2>1. ASSUME Tracked PROVE Cardinality({t \in Tx : node[t] = "pool"}) <= MaxPending
    <3> DEFINE A == Unresolved \cup Stuck
               B == {t \in Tx : node[t] = "pool"}
    <3>1. B \in SUBSET A
      BY <2>0 DEF NodeInv, Unresolved, Stuck
    <3>2. A \in SUBSET AtWork
      BY DEF Unresolved, Stuck, AtWork, Dispatched
    <3>3. IsFiniteSet(AtWork)
      BY <2>0, CountFacts
    <3>4. Cardinality(A) <= MaxPending
      BY <2>0, <2>1 DEF PoolInv
    <3> HIDE DEF A, B
    <3>5. IsFiniteSet(A)
      BY <3>2, <3>3, FS_Subset
    <3>6. IsFiniteSet(B) /\ Cardinality(B) <= Cardinality(A)
      BY <3>1, <3>5, FS_Subset
    <3>7. Cardinality(A) \in Nat /\ Cardinality(B) \in Nat /\ MaxPending \in Nat
      BY <2>0, <3>5, <3>6, FS_CardinalityType, ConfigType
    <3>8. Cardinality(B) <= MaxPending
      BY <3>4, <3>6, <3>7
    <3> QED BY <3>8 DEF B
  <2> QED BY <2>0, <2>1 DEF SlotsAccounted, CountInv
<1> QED BY <1>1, SenderInductive, PTL

\* SetupAfterDependencies: a setup transaction waits for the inclusion, with
\* success, of everything it depends on.
THEOREM SetupInOrder == Spec => []SetupAfterDependencies
<1>1. IInv => SetupAfterDependencies
  BY DEF IInv
<1> QED BY <1>1, SenderInductive, PTL

\* AnswersHold: what send() refused is never sent, and no nonce is skipped
\* behind the caller's back.
THEOREM AnswersAreKept == Spec => []AnswersHold
<1>1. IInv => AnswersHold
  BY DEF IInv, AnswersHold, RefusedNeverSent, LostInv, Dispatched
<1> QED BY <1>1, SenderInductive, PTL

-----------------------------------------------------------------------------
(* Sender implements KeyOrdering                                           *)

KeysOf == [t \in Tx |-> Outstanding(t)]
Holders == {t \in Tx : Dispatched(t) /\ Outstanding(t) # {}}

\* Nothing of a transaction that no worker has is in the channel.
LEMMA OutstandingWhenQueued ==
    ASSUME QueueInv, OwedInv, KeyInv, NEW t \in pending, t \in Tx
    PROVE  Outstanding(t) = Keys(t)
<1>1. work[t] = "queued" /\ owed[t] = Keys(t)
  BY DEF QueueInv, OwedInv
<1>2. \A i \in DOMAIN channel : channel[i].tx # t
  BY <1>1 DEF KeyInv, Dispatched
<1>3. \A k : k \in Outstanding(t) <=> k \in Keys(t)
  BY <1>1, <1>2, OutstandingKeys
<1> QED BY <1>3

LEMMA OutstandingIsKeys ==
    ASSUME TypeOK, NEW t \in Tx PROVE Outstanding(t) \subseteq Key
<1>1. owed[t] \subseteq Key /\ \A i \in DOMAIN channel : channel[i] \in Messages
  BY DEF TypeOK
<1> QED BY <1>1, OutstandingKeys DEF Messages

LEMMA SilentStep ==
    ASSUME UNCHANGED <<id, pending>>, KeysOf' = KeysOf, Holders' = Holders
    PROVE  UNCHANGED Ordering!vars
BY DEF Ordering!vars, KeysOf, Holders

\* A message on its way back still counts as held; reading it gives up its keys.
LEMMA RefinesRead == ASSUME IInv, Reads PROVE [Ordering!Next]_(Ordering!vars)
<1>0. TypeOK /\ KeyInv
  BY DEF IInv
<1>1. /\ UNCHANGED <<id, pending, owed>> /\ \A t \in Tx : Dispatched(t)' <=> Dispatched(t)
      /\ channel \in Seq(Messages) /\ channel # <<>> /\ channel' = Tail(channel)
  BY <1>0 DEF Reads, queue, Dispatched, TypeOK
<1>2. /\ 1 \in DOMAIN channel /\ channel[1] \in Messages
      /\ \A i \in DOMAIN channel' : i + 1 \in DOMAIN channel /\ channel'[i] = channel[i + 1]
      /\ \A i \in DOMAIN channel : i = 1 \/ (i - 1 \in DOMAIN channel' /\ channel'[i - 1] = channel[i])
  BY <1>1, ChannelTail
<1>3. \A t \in Tx : \A k : k \in Outstanding(t) <=>
          \/ k \in owed[t]
          \/ \E i \in DOMAIN channel : channel[i].tx = t /\ k \in channel[i].keys
  BY OutstandingKeys
<1>4. \A t \in Tx : \A k : k \in Outstanding(t)' <=>
          \/ k \in owed[t]
          \/ \E i \in DOMAIN channel' : channel'[i].tx = t /\ k \in channel'[i].keys
  BY <1>1 DEF Outstanding
<1>5. \A t \in Tx : Outstanding(t)' \subseteq Outstanding(t)
  BY <1>2, <1>3, <1>4
<1>6. \A t \in Tx : \A k \in Outstanding(t) :
          k \in Outstanding(t)' \/ (t = channel[1].tx /\ k \in channel[1].keys)
  BY <1>2, <1>3, <1>4
<1>7. PICK t \in Tx : t = channel[1].tx /\ Dispatched(t)
  BY <1>0, <1>2 DEF KeyInv, Messages
<1>8. \A u \in Tx : u # t => Outstanding(u)' = Outstanding(u)
  BY <1>5, <1>6, <1>7
<1>9. CASE Outstanding(t)' = Outstanding(t)
  <2>1. \A u \in Tx : Outstanding(u)' = Outstanding(u)
    BY <1>8, <1>9
  <2>2. KeysOf' = KeysOf
    BY <2>1 DEF KeysOf
  <2>3. Holders' = Holders
    BY <1>1, <2>1 DEF Holders
  <2> QED BY <1>1, <2>2, <2>3, SilentStep
<1>10. CASE Outstanding(t)' # Outstanding(t)
  <2>1. t \in Holders
    BY <1>5, <1>7, <1>10 DEF Holders
  <2>2. \/ Outstanding(t)' # {} /\ Holders' = Holders
        \/ Outstanding(t)' = {} /\ Holders' = Holders \ {t}
    BY <1>1, <1>7, <1>8, <2>1 DEF Holders
  <2> DEFINE ks == Outstanding(t) \ Outstanding(t)'
  <2>3. KeysOf[t] = Outstanding(t) /\ KeysOf'[t] = Outstanding(t)'
    BY <1>7 DEF KeysOf
  <2>4. KeysOf' = [KeysOf EXCEPT ![t] = @ \ ks]
    <3>1. \A u \in Tx : KeysOf'[u] = IF u = t THEN KeysOf[t] \ ks ELSE KeysOf[u]
      BY <1>5, <1>7, <1>8, <2>3 DEF KeysOf
    <3> HIDE DEF ks
    <3> QED BY <3>1 DEF KeysOf
  <2>5. ks \in SUBSET KeysOf[t]
    BY <2>3
  <2> HIDE DEF ks
  <2>6. Ordering!Release(t)
    BY <1>1, <2>1, <2>2, <2>3, <2>4, <2>5 DEF Ordering!Release, KeysOf, Holders
  <2> QED BY <1>7, <2>6 DEF Ordering!Next
<1> QED BY <1>9, <1>10

\* Keys pass from the worker to the channel unnoticed.
LEMMA RefinesReport ==
    ASSUME IInv, NEW t \in Tx, WorkerReports(t) PROVE UNCHANGED Ordering!vars
<1>0. TypeOK /\ QueueInv /\ OwedInv /\ NodeInv /\ KeyInv
  BY DEF IInv
<1>1. PICK R : \E keys \in SUBSET Key : Reports(t, R, keys)
  BY <1>0, ReportingStep
<1>2. PICK keys \in SUBSET Key : Reports(t, R, keys)
  BY <1>1
<1>3. /\ channel \in Seq(Messages) /\ channel' = channel \o R /\ IsReport(R, t, keys)
      /\ keys \subseteq owed[t] /\ owed' = [owed EXCEPT ![t] = @ \ keys] /\ DOMAIN owed = Tx
      /\ UNCHANGED <<id, pending>>
      /\ \A u \in Tx : Dispatched(u)' <=> Dispatched(u)
  <2>1. DOMAIN work = Tx
    BY <1>0 DEF TypeOK
  <2> QED BY <1>0, <1>2, <2>1 DEF TypeOK, Reports, Caller, queue, Dispatched
<1>4. /\ \A i \in DOMAIN channel : i \in DOMAIN channel' /\ channel'[i] = channel[i]
      /\ \A i \in DOMAIN R : i + Len(channel) \in DOMAIN channel' /\ channel'[i + Len(channel)] = R[i]
      /\ \A i \in DOMAIN channel' : \/ i \in DOMAIN channel
                                    \/ i - Len(channel) \in DOMAIN R /\ channel'[i] = R[i - Len(channel)]
  BY <1>3, ReportElements
<1>5. /\ \A i \in DOMAIN R : R[i].tx = t /\ R[i].keys \subseteq keys
      /\ keys # {} => \E i \in DOMAIN R : R[i].keys = keys
  BY <1>3 DEF IsReport
<1>6. owed'[t] = owed[t] \ keys /\ \A u \in Tx : u # t => owed'[u] = owed[u]
  BY <1>3
<1>7. \A u \in Tx : Outstanding(u)' = Outstanding(u)
  <2> SUFFICES ASSUME NEW u \in Tx, NEW k PROVE k \in Outstanding(u)' <=> k \in Outstanding(u)
    OBVIOUS
  <2>1. k \in Outstanding(u)' <=> \/ k \in owed'[u]
                                  \/ \E i \in DOMAIN channel' : channel'[i].tx = u /\ k \in channel'[i].keys
    BY DEF Outstanding
  <2>2. k \in Outstanding(u) <=> \/ k \in owed[u]
                                 \/ \E i \in DOMAIN channel : channel[i].tx = u /\ k \in channel[i].keys
    BY OutstandingKeys
  <2>3. CASE u # t
    <3>1. (\E i \in DOMAIN channel' : channel'[i].tx = u /\ k \in channel'[i].keys)
            <=> \E i \in DOMAIN channel : channel[i].tx = u /\ k \in channel[i].keys
      BY <1>4, <1>5, <2>3
    <3> QED BY <1>6, <2>1, <2>2, <2>3, <3>1
  <2>4. CASE u = t
    <3>1. k \in keys => \E i \in DOMAIN channel' : channel'[i].tx = t /\ k \in channel'[i].keys
      <4> SUFFICES ASSUME k \in keys
                   PROVE  \E i \in DOMAIN channel' : channel'[i].tx = t /\ k \in channel'[i].keys
        OBVIOUS
      <4>1. PICK i \in DOMAIN R : R[i].tx = t /\ k \in R[i].keys
        BY <1>5
      <4> QED BY <1>4, <4>1
    <3>2. (\E i \in DOMAIN channel : channel[i].tx = t /\ k \in channel[i].keys)
            => \E i \in DOMAIN channel' : channel'[i].tx = t /\ k \in channel'[i].keys
      BY <1>4
    <3>3. (\E i \in DOMAIN channel' : channel'[i].tx = t /\ k \in channel'[i].keys)
            => \/ \E i \in DOMAIN channel : channel[i].tx = t /\ k \in channel[i].keys
               \/ k \in keys
      BY <1>4, <1>5
    <3> QED BY <1>3, <1>6, <2>1, <2>2, <2>4, <3>1, <3>2, <3>3
  <2> QED BY <2>3, <2>4
<1>8. KeysOf' = KeysOf
  BY <1>7 DEF KeysOf
<1>9. Holders' = Holders
  BY <1>3, <1>7 DEF Holders
<1> QED BY <1>3, <1>8, <1>9, SilentStep

LEMMA RefinesStep == ASSUME IInv, IInv', [Next]_vars PROVE [Ordering!Next]_(Ordering!vars)
<1>0. /\ TypeOK /\ QueueInv /\ OwedInv /\ NodeInv /\ KeyInv /\ ActiveKeysAreOwned
      /\ DOMAIN work = Tx /\ DOMAIN owed = Tx /\ DOMAIN id = Tx /\ pending \subseteq Tx /\ pending' \subseteq Tx
      /\ next_queue_id \in Nat /\ \A t \in Tx : id[t] \in Nat /\ id[t] < next_queue_id
  BY DEF IInv, TypeOK, QueueInv
<1>1. CASE Quiet
  <2>1. /\ UNCHANGED <<id, owed, channel>> /\ \A t \in Tx : Dispatched(t)' <=> Dispatched(t)
        /\ pending' \subseteq pending
    BY <1>0, <1>1 DEF Quiet, Dispatched
  <2>2. \A t \in Tx : Outstanding(t)' = Outstanding(t)
    BY <2>1 DEF Outstanding
  <2>3. KeysOf' = KeysOf
    BY <2>2 DEF KeysOf
  <2>4. Holders' = Holders
    BY <2>1, <2>2 DEF Holders
  <2>5. Ordering!Withdraw
    <3>1. pending \ pending' \in SUBSET pending /\ pending' = pending \ (pending \ pending')
      BY <2>1
    <3>2. \E gone \in SUBSET pending : pending' = pending \ gone
      BY <3>1
    <3> QED BY <2>1, <2>3, <2>4, <3>2 DEF Ordering!Withdraw, KeysOf, Holders
  <2> QED BY <2>5 DEF Ordering!Next
<1>2. ASSUME NEW t \in Tx, Enqueue(t), Valid(t) PROVE [Ordering!Next]_(Ordering!vars)
  <2>1. /\ work[t] = "new" /\ work' = [work EXCEPT ![t] = "queued"] /\ owed' = [owed EXCEPT ![t] = Keys(t)]
        /\ channel' = channel /\ id' = [id EXCEPT ![t] = next_queue_id] /\ pending' = pending \cup {t}
        /\ id[t] = 0
    BY <1>2 DEF Enqueue, QueueInv, IInv
  <2>2. \A u \in Tx : Dispatched(u)' <=> Dispatched(u)
    BY <1>0, <2>1 DEF Dispatched
  <2>3. \A u \in Tx : u # t => Outstanding(u)' = Outstanding(u)
    BY <1>0, <2>1 DEF Outstanding
  <2>4. \A i \in DOMAIN channel : channel[i].tx # t
    BY <1>0, <2>1 DEF KeyInv, Dispatched
  <2>5. Outstanding(t)' = Keys(t)
    BY <1>0, <2>1, <2>4 DEF Outstanding
  <2>6. Keys(t) \in SUBSET Key
    BY <1>0 DEF TypeOK, GeneratedTx, Keys
  <2>7. KeysOf' = [KeysOf EXCEPT ![t] = Keys(t)]
    <3>1. \A u \in Tx : KeysOf'[u] = IF u = t THEN Keys(t) ELSE KeysOf[u]
      BY <2>3, <2>5 DEF KeysOf
    <3> QED BY <3>1 DEF KeysOf
  <2>8. Holders' = Holders
    <3>1. ~Dispatched(t)
      BY <2>1 DEF Dispatched
    <3> QED BY <2>2, <2>3, <3>1 DEF Holders
  <2>9. id'[t] = next_queue_id
    BY <1>0, <2>1
  <2>10. Ordering!Arrive(t)
    BY <1>0, <2>1, <2>6, <2>7, <2>8, <2>9 DEF Ordering!Arrive, KeysOf, Holders
  <2> QED BY <2>10 DEF Ordering!Next
<1>3. ASSUME NEW t \in Tx, Dispatch(t) PROVE [Ordering!Next]_(Ordering!vars)
  <2>1. /\ t \in pending /\ Keys(t) \cap active_keys = {} /\ pending' = pending \ {t}
        /\ \A u \in pending : id[u] < id[t] => Keys(t) \cap Keys(u) = {}
        /\ work' = [work EXCEPT ![t] = "preparing"] /\ UNCHANGED <<id, owed, channel>>
    BY <1>3 DEF Dispatch, MayDispatch, NextReady, Ready
  <2>2. \A u \in pending : Outstanding(u) = Keys(u)
    BY <1>0, OutstandingWhenQueued
  <2>3. \A u \in Tx : Outstanding(u)' = Outstanding(u)
    BY <2>1 DEF Outstanding
  <2>4. Keys(t) # {}
    BY <1>0, <2>1 DEF QueueInv
  <2>5. \A u \in Tx : u # t => (Dispatched(u)' <=> Dispatched(u))
    BY <1>0, <2>1 DEF Dispatched
  <2>6. Dispatched(t)'
    BY <1>0, <2>1 DEF Dispatched
  <2>7. Holders' = Holders \cup {t}
    BY <2>1, <2>2, <2>3, <2>4, <2>5, <2>6 DEF Holders
  <2>8. KeysOf' = KeysOf
    BY <2>3 DEF KeysOf
  <2>9. \A u \in Holders : KeysOf[t] \cap KeysOf[u] = {}
    <3> SUFFICES ASSUME NEW u \in Holders PROVE Keys(t) \cap Outstanding(u) = {}
      BY <2>1, <2>2 DEF KeysOf, Holders
    <3>1. Outstanding(u) \subseteq active_keys
      BY <1>0 DEF ActiveKeysAreOwned, Holders
    <3> QED BY <2>1, <3>1
  <2>10. \A u \in pending : id[u] < id[t] => KeysOf[t] \cap KeysOf[u] = {}
    BY <1>0, <2>1, <2>2 DEF KeysOf
  <2>11. Ordering!Grant(t)
    BY <2>1, <2>7, <2>8, <2>9, <2>10 DEF Ordering!Grant, Ordering!Eligible, KeysOf, Holders
  <2> QED BY <2>11 DEF Ordering!Next
<1>4. ASSUME NEW t \in Tx, Advances(t) \/ NodeAccepts(t) \/ NodeResolves(t) PROVE UNCHANGED Ordering!vars
  <2>1. UNCHANGED <<id, pending, owed, channel>> /\ \A u \in Tx : Dispatched(u)' <=> Dispatched(u)
    BY <1>0, <1>4 DEF Advances, FailBeforeRpc, SubmitRpc, RpcAnswers, NodeAccepts, NodeResolves, Caller,
       queue, Dispatched
  <2>2. \A u \in Tx : Outstanding(u)' = Outstanding(u)
    BY <2>1 DEF Outstanding
  <2>3. KeysOf' = KeysOf
    BY <2>2 DEF KeysOf
  <2>4. Holders' = Holders
    BY <2>1, <2>2 DEF Holders
  <2> QED BY <2>1, <2>3, <2>4, SilentStep
<1> QED BY <1>0, <1>1, <1>2, <1>3, <1>4, RefinesRead, RefinesReport, StepKinds

LEMMA RefinesInit == Init => Ordering!Init
<1> SUFFICES ASSUME Init PROVE Ordering!Init
  OBVIOUS
<1>1. /\ \A t \in Tx : owed[t] = {} /\ ~Dispatched(t)
      /\ DOMAIN channel = {} /\ pending = {} /\ id = [t \in Tx |-> 0]
  BY DEF Init, Dispatched
<1>2. \A t \in Tx : Outstanding(t) = {}
  BY <1>1 DEF Outstanding
<1> QED BY <1>1, <1>2 DEF Ordering!Init

\* The sender keeps the promise of KeyOrdering, as RpcSubmitter does: keys are
\* granted in the order transactions were handed in, and the holder alone
\* gives them up.
THEOREM SenderImplementsKeyOrdering == Spec => ImplementsKeyOrdering
<1>1. IInv /\ IInv' /\ [Next]_vars => [Ordering!Next]_(Ordering!vars)
  BY RefinesStep
<1> QED BY RefinesInit, SenderInductive, <1>1, PTL DEF Spec, ImplementsKeyOrdering, Ordering!Spec
=============================================================================
