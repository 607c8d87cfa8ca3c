--------------------------- MODULE MCRpcSubmitter ----------------------------
(* Instances of RpcSubmitter for TLC.                                      *)
EXTENDS RpcSubmitter

CONSTANTS k1, k2

\* A lane released on acceptance, one released on inclusion, both at once with
\* a key in both sets, and the refused empty choice.
MCKeyChoices == {<<{}, {}>>, <<{k1}, {}>>, <<{}, {k2}>>, <<{k1, k2}, {k1}>>}

\* Two disjoint lanes.
MCDisjoint == {<<{k1}, {}>>, <<{k2}, {}>>}
=============================================================================
