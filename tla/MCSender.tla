------------------------------- MODULE MCSender -------------------------------
(* Instances of Sender for TLC.                                            *)
EXTENDS Sender, TLC

CONSTANTS k1, k2

Workload(s, i) == [phase |-> "workload", submission |-> s, inclusion |-> i]
SetupTx(s, i) == [phase |-> "setup", submission |-> s, inclusion |-> i]

Lane(k) == Workload({k}, {})       \* released when the node accepts
Included(k) == Workload({}, {k})   \* released on inclusion

Config(concurrent, buffered, tracked, inputs, sends, stop) ==
    [max_concurrent |-> concurrent, max_buffered |-> buffered, max_pending |-> tracked,
     inputs |-> inputs, sends |-> sends, stop_on_error |-> stop]

\* Lanes of both kinds, a transaction on both lanes with a key in both sets,
\* and one the sender refuses; a single permit, and a caller that goes on
\* after errors.
MCLanes == Config(1, 2, 0, {Lane(k1), Lane(k2), Included(k1), Workload({k1, k2}, {k1}),
                            Workload({}, {})}, 3, FALSE)

\* Four transactions on two lanes.
MCCancel == Config(2, 2, 0, {Lane(k1), Lane(k2)}, 4, FALSE)

\* A pending limit that is reached.
MCPool == Config(2, 1, 2, {Included(k1), Included(k2)}, 3, FALSE)

\* Setup transactions with prerequisites, on two lanes.
MCSetup == Config(1, 2, 0, {SetupTx({k1}, {}), SetupTx({}, {k2})}, 3, FALSE)

MCSafety == {MCLanes, MCCancel, MCPool, MCSetup}

\* Everything at its limit, with a caller that stops at the first error.
MCLive == {Config(1, 1, 1, {SetupTx({k1}, {}), SetupTx({}, {k2}), Workload({k1}, {k2})}, 3, TRUE)}

Symmetry == Permutations(Tx)
=============================================================================
