----------------------------- MODULE DiskCacheMC -----------------------------
(* Small instances of DiskCache for TLC.                                    *)
EXTENDS DiskCache

CONSTANTS k1, k2, k3, c1, c2, t1, t2, h0, h1

MCKeys == {k1, k2, k3}

MCContents == {c1, c2}
MCTimes == {t1, t2}
MCHeaders == {h0, h1}
\* One resource has HTTP headers, the other has none.
MCValues ==
  { [content |-> c1, modified |-> t1, headers |-> h1],
    [content |-> c2, modified |-> t2, headers |-> h0] }
=============================================================================
