------------------------------ MODULE CacheMap ------------------------------
(***************************************************************************)
(* What the two-level cache promises to the code that uses it: a map that  *)
(* may forget.  A resource is returned as it was last saved, never after   *)
(* it was deleted, but any resource may be missing at any time, and any    *)
(* call may fail.                                                          *)
(***************************************************************************)
CONSTANTS Keys, Values, None

VARIABLES
  map,     \* the resources that can be read
  reply    \* which call returned last, and what; None is an error

vars == <<map, reply>>

\* Every resource outside S is as before, or forgotten.
MayForgetOthers(S) ==
  /\ map' \in [Keys -> Values \cup {None}]
  /\ \A k \in Keys \ S : map'[k] \in {map[k], None}

Init == map \in [Keys -> Values \cup {None}] /\ reply = None

Save(k, v) ==
  reply' = <<"saved", k, v>> /\ MayForgetOthers({k}) /\ map'[k] = v

Delete(k) ==
  reply' = <<"deleted", k>> /\ MayForgetOthers({k}) /\ map'[k] = None

Read(k) ==
  map[k] # None /\ reply' = <<"read", k, map[k]>> /\ MayForgetOthers({})

GetLastModified(k) ==
  /\ map[k] # None
  /\ reply' = <<"modified", k, map[k].modified>>
  /\ UNCHANGED map

\* A call that fails or finds nothing, a restart, an eviction.
Fail == reply' = None /\ MayForgetOthers({})

Next ==
  \/ \E k \in Keys : \/ \E v \in Values : Save(k, v)
                     \/ Delete(k)
                     \/ Read(k)
                     \/ GetLastModified(k)
  \/ Fail

Spec == Init /\ [][Next]_vars
=============================================================================
