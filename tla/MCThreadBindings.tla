-------------------------- MODULE MCThreadBindings --------------------------
(* Instances of ThreadBindings for TLC.                                    *)
EXTENDS ThreadBindings, TLC

CONSTANTS w1, w2, b1, b2, v1, v2

\* Programs only copy values.
ValueSymmetry == Permutations(Values)
=============================================================================
