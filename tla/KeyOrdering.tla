----------------------------- MODULE KeyOrdering -----------------------------
(***************************************************************************)
(* What transaction submission promises about scheduling keys, whichever   *)
(* of the two submission clients of bench-core gives the promise           *)
(* (RpcSubmitter, used by scenarios, or Sender, used by "bench send"):     *)
(* transactions that share a key are dispatched one after the other in     *)
(* the order they were handed in, transactions with disjoint keys need not *)
(* wait for each other, and a key is held by one transaction at a time     *)
(* until that transaction gives it up.                                     *)
(*                                                                         *)
(* This is the abstract specification; RpcSubmitter and Sender are shown   *)
(* to implement it.                                                        *)
(***************************************************************************)
EXTENDS Naturals

CONSTANTS Tx,     \* the transactions handed to the client
          Key     \* scheduling keys (a nonce lane is one key)

VARIABLES ticket,    \* position of a transaction in arrival order; 0 before it
          waiting,   \* transactions handed in and not yet granted
          holding,   \* transactions granted that have keys to give up
          keys       \* the keys a transaction waits for, or still holds

vars == <<ticket, waiting, holding, keys>>

\* t may be granted: nobody holds one of its keys and nobody who came before
\* it still waits for one of them.
Eligible(t) ==
    /\ t \in waiting
    /\ \A u \in holding : keys[t] \cap keys[u] = {}
    /\ \A u \in waiting : ticket[u] < ticket[t] => keys[t] \cap keys[u] = {}

Init ==
    /\ ticket = [t \in Tx |-> 0]
    /\ waiting = {}
    /\ holding = {}
    /\ keys = [t \in Tx |-> {}]

Arrive(t) ==
    /\ ticket[t] = 0
    /\ \E ks \in SUBSET Key : keys' = [keys EXCEPT ![t] = ks]
    /\ \A u \in Tx : ticket[u] < ticket'[t]
    /\ ticket' = [ticket EXCEPT ![t] = ticket'[t]]
    /\ waiting' = waiting \cup {t}
    /\ UNCHANGED holding

Grant(t) ==
    /\ Eligible(t)
    /\ waiting' = waiting \ {t}
    /\ holding' = holding \cup {t}
    /\ UNCHANGED <<ticket, keys>>

\* Some or all of the keys of t become free for others.
Release(t) ==
    /\ t \in holding
    /\ \E ks \in SUBSET keys[t] : keys' = [keys EXCEPT ![t] = @ \ ks]
    /\ \/ holding' = holding
       \/ keys'[t] = {} /\ holding' = holding \ {t}
    /\ UNCHANGED <<ticket, waiting>>

\* Transactions are dropped from the queue undispatched.
Withdraw ==
    /\ \E gone \in SUBSET waiting : waiting' = waiting \ gone
    /\ UNCHANGED <<ticket, holding, keys>>

Next == Withdraw \/ \E t \in Tx : Arrive(t) \/ Grant(t) \/ Release(t)

Spec == Init /\ [][Next]_vars
=============================================================================
