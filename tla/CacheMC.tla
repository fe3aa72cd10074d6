------------------------------ MODULE CacheMC ------------------------------
(* Small instances of Cache for TLC.                                       *)
EXTENDS Cache, TLC

CONSTANTS k1, k2, k3, k4, c1, c2, t1, t2, h0, h1

MCKeys == {k1, k2, k3, k4}
MCContents == {c1, c2}
MCTimes == {t1, t2}
MCHeaders == {h0, h1}
\* One resource has HTTP headers, the other has none.
MCValues ==
  { [content |-> c1, modified |-> t1, headers |-> h1],
    [content |-> c2, modified |-> t2, headers |-> h0] }

\* The keys are interchangeable.
Symmetry == Permutations(MCKeys)
=============================================================================
