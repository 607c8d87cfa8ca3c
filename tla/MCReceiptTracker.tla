-------------------------- MODULE MCReceiptTracker ---------------------------
(* Instances of ReceiptTracker for TLC.                                    *)
EXTENDS ReceiptTracker

Symmetry == Permutations(Reg)
=============================================================================
