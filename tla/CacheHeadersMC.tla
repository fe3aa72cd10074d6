--------------------------- MODULE CacheHeadersMC ---------------------------
(* Small instances of CacheHeaders for TLC.                                *)
EXTENDS CacheHeaders, TLC

CONSTANTS k1, k2, c1, c2, c0, t1, t2, t0, n1, x1, x2

MCKeys == {k1, k2}
MCContents == {c0, c1, c2}
MCTimes == {t0, t1, t2}
MCHeaderNames == {n1}
MCHeaderValues == {x1, x2}
MCNoHeaders == <<>>
MCHeaders == UNION {[N -> MCHeaderValues] : N \in SUBSET MCHeaderNames}
MCPairs == {<<c0, t0>>, <<c1, t1>>, <<c2, t2>>}
MCValues == {[content |-> p[1], modified |-> p[2], headers |-> h] : p \in MCPairs, h \in MCHeaders}
MCResources == {[content |-> c1, modified |-> t1, headers |-> <<>>],
                [content |-> c2, modified |-> t2, headers |-> [n \in {n1} |-> x2]]}

\* The keys are interchangeable.
Symmetry == Permutations(MCKeys)
=============================================================================
