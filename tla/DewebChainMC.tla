---------------------------- MODULE DewebChainMC ----------------------------
(* Small instances of DewebChain for TLC.                                  *)
EXTENDS DewebChain, TLC

CONSTANTS f1, f2, d1, m1, v1, o1, o2

MCFiles == {f1, f2}
MCData == {d1}
MCMetaKeys == {m1}
MCMetaValues == {v1}
MCCallers == {o1, o2}

\* The files are interchangeable, and so are the accounts.
Symmetry == Permutations(MCFiles) \cup Permutations(MCCallers)
=============================================================================
