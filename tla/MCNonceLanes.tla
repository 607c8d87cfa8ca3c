---------------------------- MODULE MCNonceLanes -----------------------------
(* Instances of NonceLanes for TLC.                                        *)
EXTENDS NonceLanes

CONSTANTS a, b, c, d, l1, l2

\* a and b may run in parallel in one instance, where c follows a; d is
\* another instance.
MCParallel == [t \in {a, b, c, d} |-> IF t = d THEN 2 ELSE 1]
MCForked == [t \in {a, b, c, d} |-> IF t = c THEN {a} ELSE {}]

\* Two instances.
MCPair == [t \in {a, b} |-> IF t = a THEN 1 ELSE 2]
MCPairUnordered == [t \in {a, b} |-> {}]

\* An ordered nonce on one lane or on both, and one that only has to be unique
\* on a lane that others order.
MCChoices == {[keys |-> {l1}, ordered |-> {l1}], [keys |-> {l1, l2}, ordered |-> {l1, l2}],
              [keys |-> {l1}, ordered |-> {}]}

=============================================================================
