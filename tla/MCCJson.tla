------------------------------- MODULE MCCJson -------------------------------
(* CJsonTree and CJsonCopy for TLC: cells are alike until they are linked.  *)
EXTENDS CJsonCopy

Swaps == Permutations(Items)

\* Bound: a call begins with at most three items, so that there are cells for
\* a copy of any of them.
FewItems == Cardinality(heap.live) <= 3
=============================================================================
