------------------------------ MODULE MCHandles ------------------------------
(* Two threads, three pointers over two addresses (so that an address is     *)
(* reused), one wrapper and two owned types.                                 *)
EXTENDS Handles, TLC

CONSTANTS t1, t2, p1, p2, p3, w1, a1, a2, series, expr

MCThreads == {t1, t2}
MCPointers == {p1, p2, p3}
MCTwoPointers == {p1, p2}
MCWrappers == {w1}
MCAddresses == {a1, a2}
MCKinds == {series, expr}

Symmetry == Permutations(MCThreads) \cup Permutations(MCPointers)
              \cup Permutations(MCAddresses) \cup Permutations(MCKinds)
==============================================================================
