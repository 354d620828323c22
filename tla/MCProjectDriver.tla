--------------------------- MODULE MCProjectDriver ---------------------------
(* A thread the user started, a child and a grandchild; the child's turns     *)
(* name their parent too, and the grandchild's real parent is reported.       *)
EXTENDS ProjectDriver, TLC

CONSTANTS top, child, grandchild, k1, k2

MCThreads   == {top, child, grandchild}
MCPrimaries == {top}
MCLinks     == {<<top, child>>, <<child, grandchild>>, <<child, top>>}
MCReported  == [t \in MCThreads |-> IF t = grandchild THEN child ELSE None]
MCCallers   == {k1, k2}

CallerSymmetry == Permutations(MCCallers)
=============================================================================
