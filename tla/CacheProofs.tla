----------------------------- MODULE CacheProofs -----------------------------
(***************************************************************************)
(* Theorems about the two-level cache, for every set of resources and all  *)
(* sizes, with and without failing transactions.  The last part is about   *)
(* the cache with the operations on single headers; nothing before it uses *)
(* what CacheHeaders assumes.                                              *)
(***************************************************************************)
EXTENDS CacheHeaders, DiskStoreProofs

\* What a database holds for a resource.
Look(d, k) == IF OnDisk(d, k) THEN ValueOnDisk(d, k) ELSE None

\* A list r is well formed.
ListOK(r) ==
  /\ r \in Ram
  /\ \A k \in Keys : r.pos[k] = 0 <=> r.entry[k] = None
  /\ \A j, k \in Keys : r.pos[j] = r.pos[k] /\ r.pos[k] # 0 => j = k
  /\ \A k \in Keys : r.pos[k] > 1 => \E j \in Keys : r.pos[j] = r.pos[k] - 1

-----------------------------------------------------------------------------
(* The list in RAM.                                                        *)

LEMMA TouchOK ==
  ASSUME NEW r, ListOK(r), NEW k \in Keys, InRam(r, k)
  PROVE  ListOK(Touch(r, k)) /\ Touch(r, k).entry = r.entry
<1> DEFINE x == Touch(r, k)
<1>1. /\ r \in Ram /\ MaxRam \in Nat \ {0}
      /\ \A j \in Keys : r.pos[j] \in Nat /\ r.pos[j] <= MaxRam
  BY CacheAssumption DEF ListOK, Ram
<1>2. /\ x.entry = r.entry
      /\ \A j \in Keys : x.pos[j] = IF j = k THEN 1
                                    ELSE IF r.pos[j] \in 1 .. r.pos[k] - 1
                                         THEN r.pos[j] + 1 ELSE r.pos[j]
  BY <1>1 DEF Touch, Ram
<1>3. r.pos[k] >= 1
  BY <1>1 DEF InRam
<1>4. x \in Ram
  <2>1. ASSUME NEW j \in Keys
        PROVE  (IF j = k THEN 1 ELSE IF r.pos[j] \in 1 .. r.pos[k] - 1
                                     THEN r.pos[j] + 1 ELSE r.pos[j]) \in 0 .. MaxRam
    BY <1>1, <1>3
  <2>. QED BY <1>1, <2>1 DEF Touch, Ram
<1>5. \A j \in Keys : x.pos[j] = 0 <=> x.entry[j] = None
  <2>. TAKE j \in Keys
  <2>1. x.pos[j] = 0 <=> r.pos[j] = 0
    BY <1>1, <1>2, <1>3
  <2>. QED BY <1>2, <2>1 DEF ListOK
<1>6. ASSUME NEW i \in Keys, NEW j \in Keys, x.pos[i] = x.pos[j], x.pos[j] # 0
      PROVE  i = j
  <2>1. /\ r.pos[i] = r.pos[j] /\ r.pos[j] # 0 => i = j
        /\ r.pos[i] = r.pos[k] => i = k
        /\ r.pos[j] = r.pos[k] => j = k
    BY <1>3 DEF ListOK
  <2>2. /\ r.pos[i] \in Nat /\ r.pos[j] \in Nat /\ r.pos[k] \in Nat
        /\ r.pos[i] = r.pos[j] \/ r.pos[i] + 1 = r.pos[j] + 1 => r.pos[i] = r.pos[j]
    BY <1>1
  <2>3. CASE i = k
    BY <1>2, <1>3, <1>6, <2>1, <2>2, <2>3
  <2>4. CASE i # k /\ j = k
    BY <1>2, <1>3, <1>6, <2>1, <2>2, <2>4
  <2>5. CASE i # k /\ j # k
    BY <1>2, <1>3, <1>6, <2>1, <2>2, <2>5
  <2>. QED BY <2>3, <2>4, <2>5
<1>7. ASSUME NEW i \in Keys, x.pos[i] > 1
      PROVE  \E j \in Keys : x.pos[j] = x.pos[i] - 1
  <2>1. i # k
    BY <1>2, <1>7
  <2>2. CASE r.pos[i] \in 1 .. r.pos[k] - 1
    <3>1. CASE r.pos[i] = 1
      BY <1>2, <2>1, <2>2, <3>1
    <3>2. CASE r.pos[i] # 1
      <4>1. PICK j \in Keys : r.pos[j] = r.pos[i] - 1
        BY <1>1, <2>2, <3>2 DEF ListOK
      <4>. QED BY <1>1, <1>2, <2>1, <2>2, <3>2, <4>1
    <3>. QED BY <3>1, <3>2
  <2>3. CASE ~(r.pos[i] \in 1 .. r.pos[k] - 1)
    <3>1. x.pos[i] = r.pos[i] /\ r.pos[i] > 1 /\ r.pos[i] >= r.pos[k]
      BY <1>1, <1>2, <1>7, <2>1, <2>3
    <3>2. r.pos[i] # r.pos[k]
      BY <2>1, <3>1 DEF ListOK, InRam
    <3>3. PICK j \in Keys : r.pos[j] = r.pos[i] - 1
      BY <3>1 DEF ListOK
    <3>4. CASE j = k /\ r.pos[k] # 1
      <4>1. PICK l \in Keys : r.pos[l] = r.pos[k] - 1
        BY <1>1, <1>3, <3>4 DEF ListOK
      <4>2. x.pos[l] = r.pos[k]
        BY <1>1, <1>2, <1>3, <3>4, <4>1
      <4>. QED BY <3>1, <3>3, <3>4, <4>2
    <3>5. CASE j = k /\ r.pos[k] = 1
      BY <1>2, <3>1, <3>3, <3>5
    <3>6. CASE j # k
      <4>1. r.pos[j] >= r.pos[k]
        BY <1>1, <3>1, <3>2, <3>3
      <4>. QED BY <1>1, <1>2, <3>1, <3>3, <3>6, <4>1
    <3>. QED BY <3>4, <3>5, <3>6
  <2>. QED BY <2>2, <2>3
<1>. QED BY <1>2, <1>4, <1>5, <1>6, <1>7 DEF ListOK

LEMMA RamRemoveOK ==
  ASSUME NEW r, ListOK(r), NEW k \in Keys
  PROVE  LET x == RamRemove(r, k)
         IN  /\ ListOK(x)
             /\ x.pos[k] = 0
             /\ \A j \in Keys \ {k} : x.entry[j] = r.entry[j]
             /\ InRam(r, k) => \A j \in Keys : x.pos[j] < MaxRam
<1> DEFINE x == RamRemove(r, k)
<1>1. /\ r \in Ram /\ MaxRam \in Nat \ {0}
      /\ \A j \in Keys : r.pos[j] \in Nat /\ r.pos[j] <= MaxRam
  BY CacheAssumption DEF ListOK, Ram
<1>2. CASE ~InRam(r, k)
  BY <1>2 DEF RamRemove, InRam
<1>3. CASE InRam(r, k)
  <2>1. /\ \A j \in Keys : x.entry[j] = IF j = k THEN None ELSE r.entry[j]
        /\ \A j \in Keys : x.pos[j] = IF j = k THEN 0 ELSE IF r.pos[j] > r.pos[k]
                                                           THEN r.pos[j] - 1 ELSE r.pos[j]
    BY <1>1, <1>3 DEF RamRemove, Ram
  <2>2. r.pos[k] >= 1
    BY <1>1, <1>3 DEF InRam
  <2>3. \A j \in Keys : x.pos[j] \in Nat /\ x.pos[j] < MaxRam
    <3>. TAKE j \in Keys
    <3>1. r.pos[j] = r.pos[k] => j = k
      BY <2>2 DEF ListOK
    <3>. QED BY <1>1, <2>1, <2>2, <3>1
  <2>4. x \in Ram
    <3>1. ASSUME NEW j \in Keys
          PROVE  (IF j = k THEN 0 ELSE IF r.pos[j] > r.pos[k]
                                       THEN r.pos[j] - 1 ELSE r.pos[j]) \in 0 .. MaxRam
      BY <1>1, <2>2
    <3>. QED BY <1>1, <1>3, <3>1 DEF RamRemove, Ram
  <2>5. \A j \in Keys : x.pos[j] = 0 <=> x.entry[j] = None
    <3>. TAKE j \in Keys
    <3>1. j # k => (x.pos[j] = 0 <=> r.pos[j] = 0)
      BY <1>1, <2>1, <2>2
    <3>. QED BY <2>1, <3>1 DEF ListOK
  <2>6. ASSUME NEW i \in Keys, NEW j \in Keys, x.pos[i] = x.pos[j], x.pos[j] # 0
        PROVE  i = j
    <3>1. /\ r.pos[i] = r.pos[j] /\ r.pos[j] # 0 => i = j
          /\ r.pos[i] = r.pos[k] => i = k
          /\ r.pos[j] = r.pos[k] => j = k
      BY <2>2 DEF ListOK
    <3>. QED BY <1>1, <2>1, <2>2, <2>6, <3>1
  <2>7. ASSUME NEW i \in Keys, x.pos[i] > 1
        PROVE  \E j \in Keys : x.pos[j] = x.pos[i] - 1
    <3>1. i # k /\ r.pos[i] > 1
      BY <1>1, <2>1, <2>7
    <3>2. PICK j \in Keys : r.pos[j] = r.pos[i] - 1
      BY <3>1 DEF ListOK
    <3>3. CASE j # k
      <4>1. r.pos[i] # r.pos[k] /\ r.pos[j] # r.pos[k]
        BY <2>2, <3>1, <3>3 DEF ListOK
      <4>. QED BY <1>1, <2>1, <3>1, <3>2, <3>3, <4>1
    <3>4. CASE j = k
      <4>1. r.pos[k] > 1
        BY <1>1, <2>1, <2>7, <3>1, <3>2, <3>4
      <4>2. PICK l \in Keys : r.pos[l] = r.pos[k] - 1
        BY <4>1 DEF ListOK
      <4>. QED BY <1>1, <2>1, <3>1, <3>2, <3>4, <4>1, <4>2
    <3>. QED BY <3>3, <3>4
  <2> HIDE DEF x
  <2>. QED BY <2>1, <2>3, <2>4, <2>5, <2>6, <2>7 DEF ListOK, x
<1>. QED BY <1>2, <1>3

LEMMA RamAddOK ==
  ASSUME NEW r, ListOK(r), NEW k \in Keys, ~InRam(r, k), NEW v \in Values
  PROVE  LET x == RamAdd(r, k, v)
         IN  /\ ListOK(x)
             /\ x.pos[k] = 1 /\ x.entry[k] = v
             /\ \A j \in Keys \ {k} : x.entry[j] = IF j \in Pushed(r) THEN None
                                                   ELSE r.entry[j]
<1> DEFINE x == RamAdd(r, k, v)
<1>1. /\ r \in Ram /\ MaxRam \in Nat \ {0} /\ None \notin Values
      /\ \A j \in Keys : r.pos[j] \in Nat /\ r.pos[j] <= MaxRam
  BY CacheAssumption, StoreAssumption DEF ListOK, Ram
<1>2. /\ \A j \in Keys : x.entry[j] = IF j = k THEN v ELSE IF r.pos[j] = MaxRam THEN None
                                                           ELSE r.entry[j]
      /\ \A j \in Keys : x.pos[j] = IF j = k THEN 1
                                    ELSE IF r.pos[j] = MaxRam \/ r.pos[j] = 0 THEN 0
                                         ELSE r.pos[j] + 1
  BY DEF RamAdd, Pushed
<1>3. x \in Ram
  <2>1. ASSUME NEW j \in Keys
        PROVE  (IF j = k THEN 1 ELSE IF j \in Pushed(r) \/ r.pos[j] = 0 THEN 0
                                     ELSE r.pos[j] + 1) \in 0 .. MaxRam
    BY <1>1 DEF Pushed
  <2>2. ASSUME NEW j \in Keys
        PROVE  (IF j = k THEN v ELSE IF j \in Pushed(r) THEN None ELSE r.entry[j])
                 \in Values \cup {None}
    BY <1>1 DEF Ram
  <2>. QED BY <2>1, <2>2 DEF RamAdd, Ram
<1>4. \A j \in Keys : x.pos[j] = 0 <=> x.entry[j] = None
  BY <1>1, <1>2 DEF ListOK
<1>5. ASSUME NEW i \in Keys, NEW j \in Keys, x.pos[i] = x.pos[j], x.pos[j] # 0
      PROVE  i = j
  <2>1. r.pos[i] = r.pos[j] /\ r.pos[j] # 0 => i = j
    BY DEF ListOK
  <2>. QED BY <1>1, <1>2, <1>5, <2>1
<1>6. ASSUME NEW i \in Keys, x.pos[i] > 1
      PROVE  \E j \in Keys : x.pos[j] = x.pos[i] - 1
  <2>1. i # k /\ x.pos[i] = r.pos[i] + 1 /\ r.pos[i] # 0 /\ r.pos[i] # MaxRam
    BY <1>1, <1>2, <1>6
  <2>2. CASE r.pos[i] = 1
    BY <1>2, <2>1, <2>2
  <2>3. CASE r.pos[i] > 1
    <3>1. PICK j \in Keys : r.pos[j] = r.pos[i] - 1
      BY <2>3 DEF ListOK
    <3>2. j # k /\ r.pos[j] # 0 /\ r.pos[j] # MaxRam
      BY <1>1, <2>1, <2>3, <3>1 DEF InRam
    <3>. QED BY <1>1, <1>2, <2>1, <3>1, <3>2
  <2>. QED BY <1>1, <2>1, <2>2, <2>3
<1> HIDE DEF x
<1>. QED BY <1>2, <1>3, <1>4, <1>5, <1>6 DEF ListOK, x, Pushed

-----------------------------------------------------------------------------
(* What the operations on the database do to what it holds.                *)

\* x holds nothing that d does not hold.
Within(x, d) == \A j \in Keys : Look(x, j) \in {Look(d, j), None}

LEMMA LookType ==
  ASSUME NEW d, Consistent(d), NEW k \in Keys
  PROVE  /\ Look(d, k) \in Values \cup {None}
         /\ OnDisk(d, k) <=> Look(d, k) # None
         /\ OnDisk(d, k) <=> d.idKey[k] # None
<1>1. OnDisk(d, k) => d.idKey[k] # None
  BY DEF Consistent, EntriesWhole, OnDisk
<1>2. d.idKey[k] # None => ValueOnDisk(d, k) \in Values /\ OnDisk(d, k)
  <2>. SUFFICES ASSUME d.idKey[k] # None PROVE ValueOnDisk(d, k) \in Values /\ OnDisk(d, k)
    OBVIOUS
  <2>1. ValueOnDisk(d, k) \in Values
    BY DEF Consistent, EntriesWhole
  <2>2. ValueOnDisk(d, k) \in [content : Contents, modified : Times, headers : Headers]
    BY <2>1, StoreAssumption
  <2>3. d.data[k] \in Contents /\ d.timestamp[k] \in Times
    BY <2>2 DEF ValueOnDisk
  <2>. QED BY <2>1, <2>3, StoreAssumption DEF OnDisk
<1>. QED BY <1>1, <1>2, StoreAssumption DEF Look

LEMMA DeleteEntriesLook ==
  ASSUME NEW d, Consistent(d), NEW S \in SUBSET Keys
  PROVE  Within(DeleteEntries(d, S), d)
<1> DEFINE x == DeleteEntries(d, S)
<1>. SUFFICES ASSUME NEW j \in Keys PROVE Look(x, j) \in {Look(d, j), None}
  BY DEF Within
<1>1. d \in Disk
  BY DEF Consistent
<1>2. CASE j \notin S \/ d.idKey[j] = None
  <2>1. x.data[j] = d.data[j] /\ x.timestamp[j] = d.timestamp[j] /\ x.headersKey = d.headersKey
    BY <1>1, <1>2, DeleteEntriesKeys
  <2>. QED BY <2>1 DEF Look, OnDisk, ValueOnDisk
<1>3. CASE j \in S /\ d.idKey[j] # None
  <2>1. x.data[j] = None
    BY <1>1, <1>3, DeleteEntriesKeys
  <2>. QED BY <2>1 DEF Look, OnDisk
<1>. QED BY <1>2, <1>3

LEMMA DeleteEntryLook ==
  ASSUME NEW d, Consistent(d), NEW k \in Keys
  PROVE  /\ Within(DeleteEntry(d, k), d)
         /\ Look(DeleteEntry(d, k), k) = None
         /\ \A j \in Keys \ {k} : Look(DeleteEntry(d, k), j) = Look(d, j)
<1> DEFINE x == DeleteEntry(d, k)
<1>1. d \in Disk /\ Within(x, d)
  BY DeleteEntriesLook DEF Consistent, DeleteEntry
<1>2. Look(x, k) = None
  <2>1. Consistent(x) /\ x.idKey[k] = None
    BY DeleteEntryConsistent
  <2>. QED BY <2>1, LookType
<1>3. ASSUME NEW j \in Keys \ {k} PROVE Look(x, j) = Look(d, j)
  <2>1. x.data[j] = d.data[j] /\ x.timestamp[j] = d.timestamp[j] /\ x.headersKey = d.headersKey
    BY <1>1, <1>3, DeleteEntriesKeys DEF DeleteEntry
  <2>. QED BY <2>1 DEF Look, OnDisk, ValueOnDisk
<1>. QED BY <1>1, <1>2, <1>3

LEMMA SavedLook ==
  ASSUME NEW d, Consistent(d), NEW k \in Keys, NEW v \in Values, NEW x \in Saved(d, k, v)
  PROVE  /\ Look(x, k) = v
         /\ \A j \in Keys \ {k} : Look(x, j) \in {Look(d, j), None}
<1>1. PICK y \in Evicted(d, Surplus(d)) : x = SaveEntry(DeleteEntry(y, k), k, v)
  BY DEF Saved, MadeRoom
<1>2. Surplus(d) \in Nat /\ d \in Disk
  BY SurplusType DEF Consistent
<1>3. Consistent(y) /\ Within(y, d)
  <2>1. PICK E \in SUBSET d.index : y = DeleteEntries(d, {e.key : e \in E})
    BY <1>1 DEF Evicted, Oldest, kSubset
  <2>. QED BY <1>1, <1>2, <2>1, EvictedConsistent, KeysOfEntries, DeleteEntriesLook
<1> DEFINE z == DeleteEntry(y, k)
<1>4. z \in Disk /\ Within(z, y)
  BY <1>3, DeleteEntryConsistent, DeleteEntryLook DEF Consistent
<1>5. v \in [content : Contents, modified : Times, headers : Headers]
  BY StoreAssumption
<1> HIDE DEF z
<1>6. /\ x.data[k] = v.content /\ x.timestamp[k] = v.modified /\ x.headersKey[k] = v.headers
      /\ \A j \in Keys \ {k} : /\ x.data[j] = z.data[j]
                               /\ x.timestamp[j] = z.timestamp[j]
                               /\ x.headersKey[j] = z.headersKey[j]
  BY <1>1, <1>4 DEF SaveEntry, Disk, z
<1>7. Look(x, k) = v
  <2>1. v.content # None /\ v.modified # None /\ v.headers # None
    BY <1>5, StoreAssumption
  <2>. QED BY <1>5, <1>6, <2>1 DEF Look, OnDisk, ValueOnDisk
<1>8. ASSUME NEW j \in Keys \ {k} PROVE Look(x, j) \in {Look(d, j), None}
  <2>1. Look(x, j) = Look(z, j)
    BY <1>6 DEF Look, OnDisk, ValueOnDisk
  <2>. QED BY <1>3, <1>4, <2>1 DEF Within
<1>. QED BY <1>7, <1>8

LEMMA FailedLook ==
  ASSUME NEW d, d \in Disk, NEW R, NEW x \in Failed(d, R), NEW j \in Keys
  PROVE  Look(x, j) = Look(d, j)
<1>1. PICK y : x = RollBack(d, y)
  BY DEF Failed
<1>. QED BY <1>1 DEF RollBack, Disk, Look, OnDisk, ValueOnDisk

LEMMA ReopenedLook ==
  ASSUME NEW d, d \in Disk, NEW limit, NEW j \in Keys
  PROVE  Look(Reopened(d, limit), j) = Look(d, j)
BY DEF Reopened, Disk, Look, OnDisk, ValueOnDisk

-----------------------------------------------------------------------------
(* The inductive invariant.                                                *)

IInv == /\ TypeOK
        /\ ListOK(ram)
        /\ Consistent(disk)
        /\ LevelsAgree

\* A database that holds of each resource what can be read, or nothing.
Agrees(d) == Consistent(d) /\ \A j \in Keys : Look(d, j) \in {Visible[j], None}

LEMMA DiskAgrees == IInv => Agrees(disk)
<1>. SUFFICES ASSUME IInv, NEW j \in Keys PROVE Look(disk, j) \in {Visible[j], None}
  BY DEF IInv, Agrees
<1>. QED BY DEF IInv, LevelsAgree, Look, Visible

LEMMA VisibleValues ==
  ASSUME IInv, NEW k \in Keys
  PROVE  /\ Visible[k] \in Values \cup {None}
         /\ InRam(ram, k) => /\ Visible[k] = ram.entry[k]
                             /\ ram.entry[k] \in Values
         /\ ~InRam(ram, k) => Visible[k] = Look(disk, k)
<1>1. ram \in Ram /\ (ram.pos[k] = 0 <=> ram.entry[k] = None) /\ Consistent(disk)
  BY DEF IInv, ListOK
<1>. QED BY <1>1, LookType DEF Visible, Look, InRam, Ram

LEMMA SavedAgrees ==
  ASSUME IInv, NEW d, Agrees(d), NEW k \in Keys, InRam(ram, k),
         NEW x \in Saved(d, k, ram.entry[k]) \cup SaveFailed(d, k, ram.entry[k])
  PROVE  /\ Agrees(x)
         /\ \A j \in Keys \ {k} : Look(x, j) \in {Look(d, j), None}
<1>1. ram.entry[k] \in Values /\ Visible[k] = ram.entry[k]
  BY VisibleValues
<1>2. Consistent(d) /\ d \in Disk
  BY DEF Agrees, Consistent
<1>3. Consistent(x)
  BY <1>1, <1>2, SavedConsistent, SaveFailedConsistent
<1>4. CASE x \in Saved(d, k, ram.entry[k])
  <2>1. /\ Look(x, k) = ram.entry[k]
        /\ \A j \in Keys \ {k} : Look(x, j) \in {Look(d, j), None}
    BY <1>1, <1>2, <1>4, SavedLook
  <2>. QED BY <1>1, <1>3, <2>1 DEF Agrees
<1>5. CASE x \in SaveFailed(d, k, ram.entry[k])
  <2>1. \A j \in Keys : Look(x, j) = Look(d, j)
    BY <1>2, <1>5, FailedLook DEF SaveFailed
  <2>. QED BY <1>3, <2>1 DEF Agrees
<1>. QED BY <1>4, <1>5

LEMMA SpilledAgrees ==
  ASSUME IInv, NEW d, Agrees(d), NEW S \in SUBSET Keys, \A j \in S : InRam(ram, j),
         NEW x \in Spilled(d, S)
  PROVE  /\ Agrees(x)
         /\ \A j \in Keys \ S : Look(x, j) \in {Look(d, j), None}
<1>1. CASE S = {} \/ status = "closed"
  BY <1>1 DEF Spilled
<1>2. CASE ~(S = {} \/ status = "closed")
  <2>1. PICK j \in S : x \in Saved(d, j, ram.entry[j]) \cup SaveFailed(d, j, ram.entry[j])
    BY <1>2 DEF Spilled
  <2>. QED BY <2>1, SavedAgrees
<1>. QED BY <1>1, <1>2

LEMMA LetGoAgrees ==
  ASSUME IInv, NEW k \in Keys, NEW d \in LetGo(k)
  PROVE  Agrees(d) /\ (~InRam(ram, k) => d = disk)
<1>1. Agrees(disk)
  BY DiskAgrees
<1>2. CASE InRam(ram, k)
  BY <1>1, <1>2, SpilledAgrees DEF LetGo
<1>3. CASE ~InRam(ram, k)
  BY <1>1, <1>3 DEF LetGo, Spilled
<1>. QED BY <1>2, <1>3

LEMMA RemovedAgrees ==
  ASSUME NEW d, Agrees(d), NEW k \in Keys
  PROVE  /\ Agrees(DeleteEntry(d, k)) /\ Look(DeleteEntry(d, k), k) = None
         /\ \A x \in Removed(d, k) : x = DeleteEntry(d, k)
         /\ \A x \in NotRemoved(d, k) :
              Agrees(x) /\ \A j \in Keys : Look(x, j) = Look(d, j)
<1>1. Consistent(d) /\ d \in Disk
  BY DEF Agrees, Consistent
<1>2. Agrees(DeleteEntry(d, k)) /\ Look(DeleteEntry(d, k), k) = None
  BY <1>1, DeleteEntryConsistent, DeleteEntryLook DEF Agrees, Within
<1>3. ASSUME NEW x \in NotRemoved(d, k)
      PROVE  Agrees(x) /\ \A j \in Keys : Look(x, j) = Look(d, j)
  <2>1. CASE status = "closed"
    BY <1>3, <2>1 DEF NotRemoved
  <2>2. CASE status # "closed"
    <3>1. x \in RemoveFailed(d, k)
      BY <1>3, <2>2 DEF NotRemoved
    <3>2. Consistent(x) /\ \A j \in Keys : Look(x, j) = Look(d, j)
      BY <1>1, <3>1, RemoveFailedConsistent, FailedLook DEF RemoveFailed
    <3>. QED BY <3>2 DEF Agrees
  <2>. QED BY <2>1, <2>2
<1>. QED BY <1>2, <1>3 DEF Removed

-----------------------------------------------------------------------------
(* The steps.  Outside the resources of S, RAM is left with what it held or *)
(* less, and the database x agrees with what could be read.                *)

Lost(S) == \A j \in Keys \ S : Visible'[j] \in {Visible[j], None}

\* What an action establishes: the invariant, and a step of the abstract map.
StepOK == IInv' /\ [Map!Next]_<<Visible, reply>>

LEMMA Combine ==
  ASSUME IInv, NEW S \in SUBSET Keys, Agrees(disk'), ListOK(ram'),
         \A j \in Keys \ S : ram'.entry[j] \in {ram.entry[j], None},
         \A j \in S : Look(disk', j) \in {ram'.entry[j], None}
  PROVE  /\ Consistent(disk') /\ LevelsAgree'
         /\ Lost(S)
         /\ Visible' \in [Keys -> Values \cup {None}]
         /\ \A j \in Keys : Visible'[j] = IF InRam(ram', j) THEN ram'.entry[j]
                                          ELSE Look(disk', j)
<1>1. Consistent(disk') /\ ram' \in Ram
  BY DEF Agrees, ListOK
<1>2. ASSUME NEW j \in Keys
      PROVE  /\ InRam(ram', j) <=> ram'.entry[j] # None
             /\ InRam(ram, j) <=> ram.entry[j] # None
             /\ Look(disk', j) \in {Visible[j], None}
             /\ Visible[j] = IF InRam(ram, j) THEN ram.entry[j] ELSE Look(disk, j)
  BY VisibleValues DEF ListOK, InRam, Agrees, IInv
<1>3. \A j \in Keys : Visible'[j] = IF InRam(ram', j) THEN ram'.entry[j] ELSE Look(disk', j)
  BY DEF Visible, Look
<1>4. LevelsAgree'
  <2>. SUFFICES ASSUME NEW k \in Keys, InRam(ram', k), OnDisk(disk', k)
                PROVE  ram'.entry[k] = ValueOnDisk(disk', k)
    BY DEF LevelsAgree
  <2>1. Look(disk', k) = ValueOnDisk(disk', k) /\ Look(disk', k) # None
    BY <1>1, LookType DEF Look
  <2>. QED BY <1>2, <2>1
<1>5. Lost(S)
  BY <1>2, <1>3 DEF Lost
<1>6. ASSUME NEW j \in Keys
      PROVE  (IF InRam(ram', j) THEN ram'.entry[j] ELSE Look(disk', j)) \in Values \cup {None}
  BY <1>1, LookType DEF Ram
<1>7. Visible' = [j \in Keys |-> IF InRam(ram', j) THEN ram'.entry[j] ELSE Look(disk', j)]
  BY DEF Visible, Look
<1>. QED BY <1>1, <1>3, <1>4, <1>5, <1>6, <1>7

LEMMA RepliesOK ==
  /\ None \in Replies
  /\ \A k \in Keys : /\ <<"deleted", k>> \in Replies
                     /\ \A v \in Values : /\ <<"saved", k, v>> \in Replies
                                          /\ <<"read", k, v>> \in Replies
                     /\ \A t \in Times : <<"modified", k, t>> \in Replies
BY DEF Replies

\* A step that saves nothing new fails, as far as the map can tell.
LEMMA FailOK ==
  ASSUME IInv, Agrees(disk'), ListOK(ram'), reply' = None,
         status' \in {"open", "closing", "closed", "hung"}, cursor' \in 0 .. MaxRam,
         \A j \in Keys : ram'.entry[j] \in {ram.entry[j], None}
  PROVE  StepOK
<1>1. /\ Consistent(disk') /\ LevelsAgree' /\ Lost({})
      /\ Visible' \in [Keys -> Values \cup {None}]
  BY Combine
<1>2. Map!Fail
  BY <1>1 DEF Map!Fail, Map!MayForgetOthers, Lost
<1>3. TypeOK'
  BY <1>1, RepliesOK DEF TypeOK, ListOK, Consistent
<1>. QED BY <1>1, <1>2, <1>3 DEF StepOK, IInv, Map!Next

LEMMA SaveOK ==
  ASSUME IInv, NEW k \in Keys, NEW v \in Values, Save(k, v)
  PROVE  StepOK
<1> DEFINE r == RamRemove(ram, k)
<1>1. ListOK(r) /\ r.pos[k] = 0 /\ \A j \in Keys \ {k} : r.entry[j] = ram.entry[j]
  BY RamRemoveOK DEF IInv
<1>2. ListOK(ram) /\ ~InRam(r, k) /\ r.entry[k] = None
  BY <1>1 DEF IInv, ListOK, InRam
<1> HIDE DEF r
<1>3. PICK d1 \in LetGo(k) :
        \/ /\ \E d2 \in Removed(d1, k) : disk' \in Spilled(d2, Pushed(r))
           /\ ram' = RamAdd(r, k, v)
           /\ reply' = <<"saved", k, v>>
        \/ disk' \in NotRemoved(d1, k) /\ ram' = r /\ reply' = None
  BY DEF Save, r
<1>4. Agrees(d1) /\ UNCHANGED <<status, cursor>>
  BY LetGoAgrees DEF Save
<1>5. CASE /\ \E d2 \in Removed(d1, k) : disk' \in Spilled(d2, Pushed(r))
           /\ ram' = RamAdd(r, k, v)
           /\ reply' = <<"saved", k, v>>
  <2>1. PICK d2 \in Removed(d1, k) : disk' \in Spilled(d2, Pushed(r))
    BY <1>5
  <2>2. Agrees(d2) /\ Look(d2, k) = None
    BY <1>4, <2>1, RemovedAgrees
  <2>3. Pushed(r) \subseteq Keys /\ k \notin Pushed(r)
    BY <1>1, CacheAssumption DEF Pushed
  <2>4. ASSUME NEW j \in Pushed(r) PROVE InRam(ram, j)
    <3>1. j \in Keys \ {k} /\ r.pos[j] # 0
      BY <2>3, CacheAssumption DEF Pushed
    <3>. QED BY <1>1, <1>2, <3>1 DEF ListOK, InRam
  <2>5. Agrees(disk') /\ Look(disk', k) = None
    BY <2>1, <2>2, <2>3, <2>4, SpilledAgrees
  <2>6. /\ ListOK(ram') /\ ram'.pos[k] = 1 /\ ram'.entry[k] = v
        /\ \A j \in Keys \ {k} : ram'.entry[j] \in {ram.entry[j], None}
    BY <1>1, <1>2, <1>5, RamAddOK
  <2>7. /\ Consistent(disk') /\ LevelsAgree' /\ Lost({k})
        /\ Visible' \in [Keys -> Values \cup {None}]
        /\ Visible'[k] = v
    BY <2>5, <2>6, Combine DEF InRam
  <2>8. Map!Save(k, v)
    BY <1>5, <2>7 DEF Map!Save, Map!MayForgetOthers, Lost
  <2>9. TypeOK'
    BY <1>4, <1>5, <2>6, <2>7, RepliesOK DEF IInv, TypeOK, ListOK, Consistent
  <2>. QED BY <2>6, <2>7, <2>8, <2>9 DEF StepOK, IInv, Map!Next
<1>6. CASE disk' \in NotRemoved(d1, k) /\ ram' = r /\ reply' = None
  <2>1. Agrees(disk')
    BY <1>4, <1>6, RemovedAgrees
  <2>2. \A j \in Keys : ram'.entry[j] \in {ram.entry[j], None}
    BY <1>1, <1>2, <1>6
  <2>. QED BY <1>1, <1>4, <1>6, <2>1, <2>2, FailOK DEF IInv, TypeOK
<1>. QED BY <1>3, <1>5, <1>6

LEMMA DeleteOK ==
  ASSUME IInv, NEW k \in Keys, Delete(k)
  PROVE  StepOK
<1>1. /\ ListOK(ram') /\ ram'.pos[k] = 0
      /\ \A j \in Keys \ {k} : ram'.entry[j] = ram.entry[j]
  BY RamRemoveOK DEF IInv, Delete
<1>2. \A j \in Keys : ram'.entry[j] \in {ram.entry[j], None}
  BY <1>1 DEF ListOK
<1>3. PICK d1 \in LetGo(k) : \/ disk' \in Removed(d1, k) /\ reply' = <<"deleted", k>>
                             \/ disk' \in NotRemoved(d1, k) /\ reply' = None
  BY DEF Delete
<1>4. Agrees(d1) /\ UNCHANGED <<status, cursor>>
  BY LetGoAgrees DEF Delete
<1>5. CASE disk' \in Removed(d1, k) /\ reply' = <<"deleted", k>>
  <2>1. Agrees(disk') /\ Look(disk', k) = None
    BY <1>4, <1>5, RemovedAgrees
  <2>2. /\ Consistent(disk') /\ LevelsAgree' /\ Lost({})
        /\ Visible' \in [Keys -> Values \cup {None}]
        /\ Visible'[k] = None
    BY <1>1, <1>2, <2>1, Combine DEF InRam
  <2>3. Map!Delete(k)
    BY <1>5, <2>2 DEF Map!Delete, Map!MayForgetOthers, Lost
  <2>4. TypeOK'
    BY <1>1, <1>4, <1>5, <2>2, RepliesOK DEF IInv, TypeOK, ListOK, Consistent
  <2>. QED BY <1>1, <2>2, <2>3, <2>4 DEF StepOK, IInv, Map!Next
<1>6. CASE disk' \in NotRemoved(d1, k) /\ reply' = None
  <2>1. Agrees(disk')
    BY <1>4, <1>6, RemovedAgrees
  <2>. QED BY <1>1, <1>2, <1>4, <1>6, <2>1, FailOK DEF IInv, TypeOK
<1>. QED BY <1>3, <1>5, <1>6

LEMMA ReadRamOK ==
  ASSUME IInv, NEW k \in Keys, ReadRam(k)
  PROVE  StepOK
<1>1. ListOK(ram') /\ ram'.entry = ram.entry
  BY TouchOK DEF IInv, ReadRam
<1>2. Agrees(disk') /\ UNCHANGED <<disk, status, cursor>> /\ reply' = <<"read", k, ram.entry[k]>>
  BY DiskAgrees DEF ReadRam
<1>3. /\ Consistent(disk') /\ LevelsAgree' /\ Lost({})
      /\ Visible' \in [Keys -> Values \cup {None}]
  BY <1>1, <1>2, Combine
<1>4. reply' = <<"read", k, Visible[k]>> /\ Visible[k] \in Values /\ Visible[k] # None
  BY <1>2, VisibleValues, StoreAssumption DEF ReadRam
<1>5. Map!Read(k)
  BY <1>3, <1>4 DEF Map!Read, Map!MayForgetOthers, Lost
<1>6. TypeOK'
  <2>1. reply' \in Replies
    BY <1>4, RepliesOK
  <2>. QED BY <1>1, <1>2, <1>3, <2>1 DEF IInv, TypeOK, ListOK, Consistent
<1>. QED BY <1>1, <1>3, <1>5, <1>6 DEF StepOK, IInv, Map!Next

LEMMA ReadDiskOK ==
  ASSUME IInv, NEW k \in Keys, ReadDisk(k)
  PROVE  StepOK
<1> DEFINE v == ValueOnDisk(disk, k)
<1>1. /\ ListOK(ram) /\ Consistent(disk) /\ ~InRam(ram, k) /\ OnDisk(disk, k)
      /\ ram' = RamAdd(ram, k, v) /\ reply' = <<"read", k, v>> /\ UNCHANGED <<status, cursor>>
  BY DEF IInv, ReadDisk
<1>2. v \in Values /\ v # None /\ Visible[k] = v
  BY <1>1, ReplyType, VisibleValues, StoreAssumption DEF Look
<1>3. PICK d \in Removed(disk, k) : disk' \in Spilled(d, Pushed(ram))
  BY DEF ReadDisk
<1>4. Agrees(d) /\ Look(d, k) = None
  BY <1>3, DiskAgrees, RemovedAgrees
<1>5. /\ Pushed(ram) \subseteq Keys /\ k \notin Pushed(ram)
      /\ \A j \in Pushed(ram) : InRam(ram, j)
  BY <1>1, CacheAssumption DEF Pushed, InRam
<1>6. Agrees(disk') /\ Look(disk', k) = None
  BY <1>3, <1>4, <1>5, SpilledAgrees
<1> HIDE DEF v
<1>7. /\ ListOK(ram') /\ ram'.pos[k] = 1 /\ ram'.entry[k] = v
      /\ \A j \in Keys \ {k} : ram'.entry[j] \in {ram.entry[j], None}
  BY <1>1, <1>2, RamAddOK
<1>8. /\ Consistent(disk') /\ LevelsAgree' /\ Lost({k})
      /\ Visible' \in [Keys -> Values \cup {None}]
      /\ Visible'[k] = v
  BY <1>6, <1>7, Combine DEF InRam
<1>9. Map!Read(k)
  BY <1>1, <1>2, <1>8 DEF Map!Read, Map!MayForgetOthers, Lost
<1>10. TypeOK'
  BY <1>1, <1>2, <1>7, <1>8, RepliesOK DEF IInv, TypeOK, ListOK, Consistent
<1>. QED BY <1>7, <1>8, <1>9, <1>10 DEF StepOK, IInv, Map!Next

LEMMA ReadFailsOK ==
  ASSUME IInv, NEW k \in Keys, ReadFails(k)
  PROVE  StepOK
<1>1. Agrees(disk')
  BY DiskAgrees, RemovedAgrees DEF ReadFails
<1>. QED BY <1>1, FailOK DEF ReadFails, IInv, TypeOK

LEMMA GetLastModifiedOK ==
  ASSUME IInv, NEW k \in Keys, GetLastModified(k)
  PROVE  StepOK
<1>1. UNCHANGED <<disk, ram, status, cursor>> /\ UNCHANGED Visible
  BY DEF GetLastModified, Visible
<1>2. TypeOK /\ Consistent(disk) /\ ListOK(ram)
  BY DEF IInv
<1>3. CASE InRam(ram, k)
  <2>1. /\ Visible[k] = ram.entry[k] /\ Visible[k] \in Values /\ None \notin Values
        /\ Visible[k] # None /\ reply' = <<"modified", k, Visible[k].modified>>
    BY <1>3, VisibleValues, StoreAssumption DEF GetLastModified
  <2>2. reply' \in Replies
    <3>1. Visible[k].modified \in Times
      BY <2>1, StoreAssumption
    <3>. QED BY <2>1, <3>1, RepliesOK
  <2>3. Map!GetLastModified(k)
    BY <1>1, <2>1 DEF Map!GetLastModified
  <2>. QED BY <1>1, <1>2, <2>2, <2>3
           DEF StepOK, IInv, TypeOK, LevelsAgree, Map!Next
<1>4. CASE ~InRam(ram, k) /\ status = "open" /\ disk.timestamp[k] # None
  <2>1. OnDisk(disk, k) /\ reply' = <<"modified", k, disk.timestamp[k]>>
    BY <1>2, <1>4, LookType DEF GetLastModified, Consistent, EntriesWhole
  <2>2. Visible[k] # None /\ reply' = <<"modified", k, Visible[k].modified>>
    <3>1. Visible[k] = ValueOnDisk(disk, k) /\ Visible[k] # None
      BY <1>2, <1>4, <2>1, LookType, VisibleValues DEF Look
    <3>. QED BY <2>1, <3>1 DEF ValueOnDisk
  <2>3. reply' \in Replies
    <3>1. disk.timestamp[k] \in Times
      BY <1>2, <1>4, <2>1, ReplyType
    <3>. QED BY <2>1, <3>1, RepliesOK
  <2>4. Map!GetLastModified(k)
    BY <1>1, <2>2 DEF Map!GetLastModified
  <2>. QED BY <1>1, <1>2, <2>3, <2>4
           DEF StepOK, IInv, TypeOK, LevelsAgree, Map!Next
<1>5. CASE ~InRam(ram, k) /\ (status # "open" \/ disk.timestamp[k] = None)
  BY <1>1, <1>2, <1>5, DiskAgrees, FailOK DEF GetLastModified, TypeOK
<1>. QED BY <1>3, <1>4, <1>5

LEMMA HangOK ==
  ASSUME IInv, NEW k \in Keys, Hang(k)
  PROVE  StepOK
<1>1. Agrees(disk')
  BY DiskAgrees, RemovedAgrees DEF Hang
<1>. QED BY <1>1, FailOK DEF Hang, IInv, TypeOK

LEMMA CloseOK ==
  ASSUME IInv, Close \/ CloseHangs \/ CloseEnds
  PROVE  StepOK
<1> DEFINE P == {0} \cup {ram.pos[k] : k \in Keys}
<1>1. UNCHANGED <<disk, ram>> /\ reply' = None /\ Agrees(disk')
  BY DiskAgrees DEF Close, CloseHangs, CloseEnds
<1>2. Max(P) \in 0 .. MaxRam
  <2>1. \A p \in P : p \in Nat /\ p < MaxRam + 1 /\ p \in 0 .. MaxRam
    BY CacheAssumption DEF IInv, ListOK, Ram
  <2>0. MaxRam + 1 \in Nat
    BY CacheAssumption
  <2>2. P \subseteq Nat
    BY <2>1
  <2>3. P # {}
    OBVIOUS
  <2> HIDE DEF P
  <2>4. Max(P) \in P
    BY <2>0, <2>1, <2>2, <2>3, MaxOfBounded
  <2>. QED BY <2>1, <2>4
<1>3. cursor' \in 0 .. MaxRam /\ status' \in {"open", "closing", "closed", "hung"}
  BY <1>2 DEF Close, CloseHangs, CloseEnds, IInv, TypeOK
<1>. QED BY <1>1, <1>3, FailOK DEF IInv

LEMMA CloseEntryOK ==
  ASSUME IInv, NEW k \in Keys, CloseSaves(k) \/ CloseFails(k)
  PROVE  StepOK
<1>1. InRam(ram, k) /\ reply' = None /\ ram' = ram
  BY DEF CloseSaves, CloseFails, InRam
<1>2. disk' \in Saved(disk, k, ram.entry[k]) \cup SaveFailed(disk, k, ram.entry[k])
  BY DEF CloseSaves, CloseFails
<1>3. Agrees(disk')
  BY <1>1, <1>2, DiskAgrees, SavedAgrees
<1>4. cursor' \in 0 .. MaxRam /\ status' \in {"open", "closing", "closed", "hung"}
  BY CacheAssumption DEF CloseSaves, CloseFails, IInv, TypeOK
<1>. QED BY <1>1, <1>3, <1>4, FailOK DEF IInv

LEMMA RestartOK ==
  ASSUME IInv, NEW limit \in Limits, Restart(limit)
  PROVE  StepOK
<1>1. PICK d \in {disk} \cup UNION {MidCall(k) : k \in Keys} : disk' = Reopened(d, limit)
  BY DEF Restart
<1>2. Agrees(d)
  <2>1. ASSUME NEW k \in Keys, d \in MidCall(k) PROVE Agrees(d)
    BY <2>1, LetGoAgrees, RemovedAgrees DEF MidCall
  <2>. QED BY <1>1, <2>1, DiskAgrees
<1>3. Agrees(disk')
  <2>1. Consistent(disk')
    BY <1>1, <1>2, ReopenedConsistent, CacheAssumption DEF Agrees
  <2>. QED BY <1>1, <1>2, <2>1, ReopenedLook DEF Agrees, Consistent
<1>4. ListOK(EmptyRam) /\ \A j \in Keys : EmptyRam.entry[j] = None
  BY CacheAssumption DEF EmptyRam, ListOK, Ram
<1>5. ram' = EmptyRam /\ status' = "open" /\ cursor' = 0 /\ reply' = None
  BY DEF Restart
<1>. QED BY <1>3, <1>4, <1>5, CacheAssumption, FailOK

-----------------------------------------------------------------------------
(* The theorems.                                                           *)

LEMMA InitOK == Init => IInv /\ Map!Init
<1>. SUFFICES ASSUME Init PROVE IInv /\ Map!Init
  OBVIOUS
<1>1. PICK limit \in Limits : disk = EmptyDisk(limit)
  BY DEF Init
<1>2. Consistent(disk) /\ \A k \in Keys : ~OnDisk(disk, k)
  BY <1>1, EmptyConsistent, CacheAssumption DEF EmptyDisk, OnDisk
<1>3. ListOK(ram) /\ \A k \in Keys : ~InRam(ram, k)
  BY CacheAssumption DEF Init, EmptyRam, ListOK, Ram, InRam
<1>4. IInv
  <2>1. None \in Replies /\ 0 \in 0 .. MaxRam
    BY RepliesOK, CacheAssumption
  <2>. QED BY <1>2, <1>3, <2>1 DEF Init, IInv, TypeOK, LevelsAgree, Consistent, ListOK
<1>. QED BY <1>2, <1>3, <1>4 DEF Init, Map!Init, Visible

LEMMA NextOK == IInv /\ [Next]_vars => StepOK
<1>. SUFFICES ASSUME IInv, [Next]_vars PROVE StepOK
  OBVIOUS
<1>1. ASSUME NEW k \in Keys, NEW v \in Values, Save(k, v) PROVE StepOK
  BY <1>1, SaveOK
<1>2. ASSUME NEW k \in Keys, Delete(k) PROVE StepOK
  BY <1>2, DeleteOK
<1>3. ASSUME NEW k \in Keys, Read(k) PROVE StepOK
  BY <1>3, ReadRamOK, ReadDiskOK, ReadFailsOK DEF Read
<1>4. ASSUME NEW k \in Keys, GetLastModified(k) PROVE StepOK
  BY <1>4, GetLastModifiedOK
<1>5. ASSUME NEW k \in Keys, Hang(k) PROVE StepOK
  BY <1>5, HangOK
<1>6. ASSUME NEW k \in Keys, CloseSaves(k) \/ CloseFails(k) PROVE StepOK
  BY <1>6, CloseEntryOK
<1>7. ASSUME Close \/ CloseHangs \/ CloseEnds PROVE StepOK
  BY <1>7, CloseOK
<1>8. ASSUME NEW limit \in Limits, Restart(limit) PROVE StepOK
  BY <1>8, RestartOK
<1>9. CASE UNCHANGED vars
  BY <1>9 DEF vars, StepOK, IInv, TypeOK, LevelsAgree, Visible
<1>. QED BY <1>1, <1>2, <1>3, <1>4, <1>5, <1>6, <1>7, <1>8, <1>9 DEF Next

LEMMA Invariant == Spec => []IInv
<1>1. IInv /\ [Next]_vars => IInv'
  BY NextOK DEF StepOK
<1>. QED BY <1>1, InitOK, PTL DEF Spec

\* The variables keep their types, whatever fails and whenever it crashes.
THEOREM TypeCorrect == Spec => []TypeOK
BY Invariant, PTL DEF IInv

\* The disk cache is consistent between any two transactions, so also after a
\* crash inside a call of the two-level cache.
THEOREM DiskStaysConsistent == Spec => []DiskConsistent
<1>1. IInv => DiskConsistent
  BY DEF IInv, Consistent, DiskConsistent
<1>. QED BY <1>1, Invariant, PTL

\* When failing transactions leave a resource on both levels, the two copies
\* are the same.
THEOREM LevelsAlwaysAgree == Spec => []LevelsAgree
BY Invariant, PTL DEF IInv

\* The two-level cache implements the map that may forget: no call, failure or
\* crash makes a read return a resource that is not the one last saved, or one
\* that was deleted.
THEOREM CacheImplementsMap == Spec => MapRefinement
<1>1. IInv /\ [Next]_vars => [Map!Next]_<<Visible, reply>>
  BY NextOK DEF StepOK
<1>. QED BY <1>1, InitOK, Invariant, PTL DEF Spec, MapRefinement, Map!Spec, Map!vars

-----------------------------------------------------------------------------
(* When no transaction fails.                                              *)

NoFailures == WriteFaults = FALSE

\* No resource is in RAM and on disk d.
Apart(r, d) == \A k \in Keys : ~(InRam(r, k) /\ Look(d, k) # None)

\* The invariant of a cache whose transactions succeed.
EInv == /\ IInv
        /\ Exclusive
        /\ disk.maxEntries \in Limits

LEMMA NothingFails ==
  ASSUME NoFailures
  PROVE  /\ \A d, R : Failed(d, R) = {}
         /\ \A d, k : status # "closed" => NotRemoved(d, k) = {}
         /\ \A d, k, v : SaveFailed(d, k, v) = {}
BY DEF NoFailures, Failed, NotRemoved, RemoveFailed, SaveFailed

LEMMA ExclusiveMeans ==
  ASSUME Consistent(disk)
  PROVE  Exclusive <=> /\ status = "open" => Apart(ram, disk)
                       /\ CountMatches(disk)
BY LookType DEF Exclusive, Apart

\* What a spill does to the counter, and to what is on disk.
LEMMA SpilledExact ==
  ASSUME NoFailures, IInv, NEW d, Agrees(d), CountMatches(d),
         NEW S \in SUBSET Keys, \A j \in S : InRam(ram, j), NEW x \in Spilled(d, S)
  PROVE  /\ Agrees(x) /\ CountMatches(x) /\ x.maxEntries = d.maxEntries
         /\ \A j \in Keys \ S : Look(x, j) \in {Look(d, j), None}
<1>1. Agrees(x) /\ \A j \in Keys \ S : Look(x, j) \in {Look(d, j), None}
  BY SpilledAgrees
<1>2. CASE x = d
  BY <1>1, <1>2
<1>3. CASE x # d
  <2>1. PICK j \in S : x \in Saved(d, j, ram.entry[j])
    BY <1>3, NothingFails DEF Spilled
  <2>2. ram.entry[j] \in Values /\ Consistent(d)
    BY VisibleValues DEF Agrees
  <2>. QED BY <1>1, <2>1, <2>2, SavedCount, SavedConsistent
<1>. QED BY <1>2, <1>3

LEMMA LetGoExact ==
  ASSUME NoFailures, EInv, NEW k \in Keys, NEW d \in LetGo(k)
  PROVE  /\ Agrees(d) /\ CountMatches(d) /\ d.maxEntries = disk.maxEntries
         /\ \A j \in Keys \ {k} : Look(d, j) \in {Look(disk, j), None}
<1>1. IInv /\ Agrees(disk) /\ CountMatches(disk)
  BY DiskAgrees DEF EInv, Exclusive
<1> DEFINE S == IF InRam(ram, k) THEN {k} ELSE {}
<1>2. /\ S \in SUBSET Keys /\ S \subseteq {k} /\ \A j \in S : InRam(ram, j)
      /\ d \in Spilled(disk, S)
  BY DEF LetGo
<1> HIDE DEF S
<1>. QED BY <1>1, <1>2, SpilledExact

LEMMA DeletedExact ==
  ASSUME NEW d, Agrees(d), CountMatches(d), NEW k \in Keys
  PROVE  LET x == DeleteEntry(d, k)
         IN  /\ Agrees(x) /\ CountMatches(x) /\ x.maxEntries = d.maxEntries
             /\ Look(x, k) = None
             /\ \A j \in Keys \ {k} : Look(x, j) = Look(d, j)
BY RemovedAgrees, DeleteEntryConsistent, DeleteEntryCount, DeleteEntryLook DEF Agrees

\* The common part of Save and of a Read from disk: the resource leaves the disk,
\* and enters RAM, which pushes another one out to the disk.
LEMMA EntersRam ==
  ASSUME NoFailures, EInv, NEW r, ListOK(r), NEW k \in Keys, ~InRam(r, k), NEW v \in Values,
         \A j \in Keys \ {k} : r.entry[j] = ram.entry[j],
         NEW d, Agrees(d), CountMatches(d), d.maxEntries = disk.maxEntries, Look(d, k) = None,
         \A j \in Keys \ {k} : Look(d, j) \in {Look(disk, j), None},
         disk' \in Spilled(d, Pushed(r)), ram' = RamAdd(r, k, v), IInv', status' = status
  PROVE  EInv'
<1>1. IInv /\ Exclusive /\ disk.maxEntries \in Limits /\ Consistent(disk) /\ Consistent(disk')
  BY DEF EInv, IInv
<1>2. ListOK(ram) /\ Pushed(r) \subseteq Keys /\ k \notin Pushed(r)
  BY CacheAssumption DEF Pushed, InRam, IInv, EInv
<1>3. ASSUME NEW j \in Pushed(r) PROVE InRam(ram, j)
  <2>1. j \in Keys \ {k} /\ r.pos[j] # 0
    BY <1>2, CacheAssumption DEF Pushed
  <2>. QED BY <1>2, <2>1 DEF ListOK, InRam
<1>4. /\ Agrees(disk') /\ CountMatches(disk') /\ disk'.maxEntries = d.maxEntries
      /\ \A j \in Keys \ Pushed(r) : Look(disk', j) \in {Look(d, j), None}
  BY <1>1, <1>2, <1>3, SpilledExact
<1>5. /\ ListOK(ram')
      /\ \A j \in Keys \ {k} : ram'.entry[j] = IF j \in Pushed(r) THEN None ELSE r.entry[j]
  BY RamAddOK
<1>6. ASSUME status = "open", NEW j \in Keys, InRam(ram', j) PROVE Look(disk', j) = None
  <2>1. CASE j = k
    BY <1>2, <1>4, <2>1
  <2>2. CASE j # k
    <3>1. ram'.entry[j] # None
      BY <1>5, <1>6 DEF ListOK, InRam
    <3>2. j \notin Pushed(r) /\ ram.entry[j] # None
      BY <1>5, <2>2, <3>1
    <3>3. InRam(ram, j)
      BY <1>2, <3>2 DEF ListOK, InRam
    <3>4. Look(disk, j) = None
      BY <1>1, <1>6, <3>3, ExclusiveMeans DEF Apart
    <3>. QED BY <1>4, <2>2, <3>2, <3>4
  <2>. QED BY <2>1, <2>2
<1>7. Exclusive'
  <2>1. \A j \in Keys : OnDisk(disk', j) => Look(disk', j) # None
    BY <1>1, LookType
  <2>. QED BY <1>4, <1>6, <2>1 DEF Exclusive
<1>. QED BY <1>1, <1>4, <1>7 DEF EInv

\* The list and the disk hold what they held before, or less of it.
LEMMA OnlyLess ==
  ASSUME EInv, IInv', CountMatches(disk'), disk'.maxEntries \in Limits,
         status' = "open" =>
           \A j \in Keys : InRam(ram', j) /\ Look(disk', j) # None
                             => status = "open" /\ InRam(ram, j) /\ Look(disk, j) # None
  PROVE  EInv'
<1>1. Exclusive /\ Consistent(disk) /\ Consistent(disk')
  BY DEF EInv, IInv
<1>2. ASSUME status' = "open", NEW j \in Keys, InRam(ram', j), OnDisk(disk', j) PROVE FALSE
  <2>1. Look(disk', j) # None
    BY <1>1, <1>2, LookType
  <2>2. status = "open" /\ InRam(ram, j) /\ Look(disk, j) # None
    BY <1>2, <2>1
  <2>. QED BY <1>1, <2>2, LookType DEF Exclusive
<1>3. Exclusive'
  BY <1>2 DEF Exclusive
<1>. QED BY <1>3 DEF EInv

LEMMA SaveKeepsApart ==
  ASSUME NoFailures, EInv, IInv', NEW k \in Keys, NEW v \in Values, Save(k, v)
  PROVE  EInv'
<1> DEFINE r == RamRemove(ram, k)
<1>1. ListOK(r) /\ r.pos[k] = 0 /\ \A j \in Keys \ {k} : r.entry[j] = ram.entry[j]
  BY RamRemoveOK DEF EInv, IInv
<1>2. ListOK(ram) /\ ~InRam(r, k) /\ r.entry[k] = None
  BY <1>1 DEF EInv, IInv, ListOK, InRam
<1> HIDE DEF r
<1>3. PICK d1 \in LetGo(k) :
        \/ /\ \E d2 \in Removed(d1, k) : disk' \in Spilled(d2, Pushed(r))
           /\ ram' = RamAdd(r, k, v)
        \/ disk' \in NotRemoved(d1, k) /\ ram' = r
  BY DEF Save, r
<1>4. /\ Agrees(d1) /\ CountMatches(d1) /\ d1.maxEntries = disk.maxEntries
      /\ \A j \in Keys \ {k} : Look(d1, j) \in {Look(disk, j), None}
  BY LetGoExact
<1>5. status' = status
  BY DEF Save
<1>6. CASE /\ \E d2 \in Removed(d1, k) : disk' \in Spilled(d2, Pushed(r))
           /\ ram' = RamAdd(r, k, v)
  <2>1. PICK d2 \in Removed(d1, k) : disk' \in Spilled(d2, Pushed(r))
    BY <1>6
  <2>2. d2 = DeleteEntry(d1, k)
    BY <2>1 DEF Removed
  <2>3. /\ Agrees(d2) /\ CountMatches(d2) /\ d2.maxEntries = disk.maxEntries
        /\ Look(d2, k) = None
        /\ \A j \in Keys \ {k} : Look(d2, j) \in {Look(disk, j), None}
    BY <1>4, <2>2, DeletedExact
  <2>. QED BY <1>1, <1>2, <1>5, <1>6, <2>1, <2>3, EntersRam
<1>7. CASE disk' \in NotRemoved(d1, k) /\ ram' = r
  <2>1. status = "closed" /\ disk' = d1
    BY <1>7, NothingFails DEF NotRemoved
  <2>. QED BY <1>4, <1>5, <2>1, OnlyLess DEF EInv
<1>. QED BY <1>3, <1>6, <1>7

LEMMA DeleteKeepsApart ==
  ASSUME NoFailures, EInv, IInv', NEW k \in Keys, Delete(k)
  PROVE  EInv'
<1>1. /\ ListOK(ram) /\ ListOK(ram') /\ ram'.pos[k] = 0
      /\ \A j \in Keys \ {k} : ram'.entry[j] = ram.entry[j]
  BY RamRemoveOK DEF EInv, IInv, Delete
<1>2. PICK d1 \in LetGo(k) : disk' \in Removed(d1, k) \cup NotRemoved(d1, k)
  BY DEF Delete
<1>3. /\ Agrees(d1) /\ CountMatches(d1) /\ d1.maxEntries = disk.maxEntries
      /\ \A j \in Keys \ {k} : Look(d1, j) \in {Look(disk, j), None}
  BY LetGoExact
<1>4. status' = status
  BY DEF Delete
<1>5. CASE disk' \in Removed(d1, k)
  <2>1. disk' = DeleteEntry(d1, k)
    BY <1>5 DEF Removed
  <2>2. /\ CountMatches(disk') /\ disk'.maxEntries = disk.maxEntries
        /\ \A j \in Keys \ {k} : Look(disk', j) \in {Look(disk, j), None}
    BY <1>3, <2>1, DeletedExact
  <2>3. \A j \in Keys : InRam(ram', j) => j # k /\ InRam(ram, j)
    BY <1>1 DEF InRam, ListOK
  <2>. QED BY <1>4, <2>2, <2>3, OnlyLess DEF EInv
<1>6. CASE disk' \in NotRemoved(d1, k)
  <2>1. status = "closed" /\ disk' = d1
    BY <1>6, NothingFails DEF NotRemoved
  <2>. QED BY <1>3, <1>4, <2>1, OnlyLess DEF EInv
<1>. QED BY <1>2, <1>5, <1>6

LEMMA ReadKeepsApart ==
  ASSUME NoFailures, EInv, IInv', NEW k \in Keys, Read(k)
  PROVE  EInv'
<1>1. ListOK(ram) /\ Consistent(disk) /\ Agrees(disk) /\ CountMatches(disk)
  BY DiskAgrees DEF EInv, IInv, Exclusive
<1>2. CASE ReadRam(k)
  <2>1. ListOK(ram') /\ ram'.entry = ram.entry /\ UNCHANGED <<disk, status>>
    BY <1>1, <1>2, TouchOK DEF ReadRam
  <2>2. \A j \in Keys : InRam(ram', j) => InRam(ram, j)
    BY <1>1, <2>1 DEF ListOK, InRam
  <2>. QED BY <1>1, <2>1, <2>2, OnlyLess DEF EInv
<1>3. CASE ReadDisk(k)
  <2> DEFINE v == ValueOnDisk(disk, k)
             d == DeleteEntry(disk, k)
  <2>1. v \in Values /\ ~InRam(ram, k) /\ ram' = RamAdd(ram, k, v) /\ status' = status
    BY <1>1, <1>3, ReplyType DEF ReadDisk
  <2>2. disk' \in Spilled(d, Pushed(ram))
    BY <1>3 DEF ReadDisk, Removed
  <2>3. /\ Agrees(d) /\ CountMatches(d) /\ d.maxEntries = disk.maxEntries
        /\ Look(d, k) = None
        /\ \A j \in Keys \ {k} : Look(d, j) \in {Look(disk, j), None}
    BY <1>1, DeletedExact
  <2> HIDE DEF v, d
  <2>. QED BY <1>1, <2>1, <2>2, <2>3, EntersRam
<1>4. CASE ReadFails(k)
  <2>1. disk' = disk /\ UNCHANGED <<ram, status>>
    BY <1>4, NothingFails DEF ReadFails, NotRemoved
  <2>. QED BY <1>1, <2>1, OnlyLess DEF EInv
<1>. QED BY <1>2, <1>3, <1>4 DEF Read

\* With limits that are positive, no eviction loop runs for ever.
LEMMA LoopsEnd ==
  ASSUME EInv, 0 \notin Limits
  PROVE  /\ LoopEnds(disk)
         /\ \A k \in Keys : LoopEnds(DeleteEntry(disk, k))
<1>1. Agrees(disk) /\ CountMatches(disk) /\ disk.maxEntries # 0
  BY DiskAgrees DEF EInv, Exclusive
<1>. QED BY <1>1, DeletedExact, LoopEndsWhenExact DEF Agrees

LEMMA OthersKeepApart ==
  ASSUME NoFailures, EInv, IInv', NEW k \in Keys,
         GetLastModified(k) \/ Hang(k) \/ CloseSaves(k) \/ CloseFails(k)
  PROVE  EInv'
<1>1. Agrees(disk) /\ Consistent(disk) /\ CountMatches(disk) /\ IInv
  BY DiskAgrees DEF EInv, IInv, Exclusive
<1>2. CASE GetLastModified(k)
  BY <1>1, <1>2, OnlyLess DEF GetLastModified, EInv
<1>3. CASE Hang(k)
  <2>1. disk' \in {disk, DeleteEntry(disk, k)} /\ status' = "hung"
    BY <1>3 DEF Hang
  <2>2. CountMatches(disk') /\ disk'.maxEntries = disk.maxEntries
    BY <1>1, <2>1, DeletedExact
  <2>. QED BY <2>1, <2>2, OnlyLess DEF EInv
<1>4. CASE CloseSaves(k)
  <2>1. InRam(ram, k) /\ disk' \in Saved(disk, k, ram.entry[k]) /\ status' = "closing"
    BY <1>4 DEF CloseSaves, InRam
  <2>2. ram.entry[k] \in Values
    BY <1>1, <2>1, VisibleValues
  <2>3. CountMatches(disk') /\ disk'.maxEntries = disk.maxEntries
    BY <1>1, <2>1, <2>2, SavedCount, SavedConsistent
  <2>. QED BY <2>1, <2>3, OnlyLess DEF EInv
<1>5. CASE CloseFails(k)
  BY <1>5, NothingFails DEF CloseFails
<1>. QED BY <1>2, <1>3, <1>4, <1>5

LEMMA RestartKeepsApart ==
  ASSUME NoFailures, EInv, IInv', NEW limit \in Limits, Restart(limit)
  PROVE  EInv'
<1>1. PICK d \in {disk} \cup UNION {MidCall(k) : k \in Keys} : disk' = Reopened(d, limit)
  BY DEF Restart
<1>2. Agrees(d)
  <2>1. ASSUME NEW k \in Keys, d \in MidCall(k) PROVE Agrees(d)
    <3>1. IInv
      BY DEF EInv
    <3>. QED BY <2>1, <3>1, LetGoAgrees, RemovedAgrees DEF MidCall
  <2>. QED BY <1>1, <2>1, DiskAgrees DEF EInv
<1>3. CountMatches(disk') /\ disk'.maxEntries = limit
  <2>1. d \in Disk /\ limit \in Nat
    BY <1>2, CacheAssumption DEF Agrees, Consistent
  <2>2. CountMatches(disk')
    BY <1>1, <1>2, <2>1, ReopenedConsistent DEF Agrees
  <2>3. disk'.maxEntries = limit
    BY <1>1, <2>1 DEF Reopened, Disk
  <2>. QED BY <2>2, <2>3
<1>4. \A j \in Keys : ~InRam(ram', j)
  BY DEF Restart, EmptyRam, InRam
<1>. QED BY <1>3, <1>4, OnlyLess

LEMMA NextKeepsApart ==
  ASSUME NoFailures, EInv, [Next]_vars
  PROVE  EInv'
<1>1. IInv'
  BY NextOK DEF EInv, StepOK
<1>2. ASSUME NEW k \in Keys, NEW v \in Values, Save(k, v) PROVE EInv'
  BY <1>1, <1>2, SaveKeepsApart
<1>3. ASSUME NEW k \in Keys, Delete(k) PROVE EInv'
  BY <1>1, <1>3, DeleteKeepsApart
<1>4. ASSUME NEW k \in Keys, Read(k) PROVE EInv'
  BY <1>1, <1>4, ReadKeepsApart
<1>5. ASSUME NEW k \in Keys,
             GetLastModified(k) \/ Hang(k) \/ CloseSaves(k) \/ CloseFails(k)
      PROVE  EInv'
  BY <1>1, <1>5, OthersKeepApart
<1>6. ASSUME NEW limit \in Limits, Restart(limit) PROVE EInv'
  BY <1>1, <1>6, RestartKeepsApart
<1>7. CASE Close \/ CloseHangs \/ CloseEnds \/ UNCHANGED vars
  <2>1. UNCHANGED <<disk, ram>> /\ (status' = "open" => status = "open")
    BY <1>7 DEF Close, CloseHangs, CloseEnds, vars
  <2>. QED BY <1>1, <2>1, OnlyLess DEF EInv, Exclusive
<1>. QED BY <1>2, <1>3, <1>4, <1>5, <1>6, <1>7 DEF Next

LEMMA ApartInvariant ==
  ASSUME NoFailures
  PROVE  Spec => []EInv
<1>1. Init => EInv
  <2>. SUFFICES ASSUME Init PROVE EInv
    OBVIOUS
  <2>1. PICK limit \in Limits : disk = EmptyDisk(limit)
    BY DEF Init
  <2>2. CountMatches(disk) /\ disk.maxEntries = limit /\ \A k \in Keys : ~InRam(ram, k)
    BY <2>1, EmptyConsistent, CacheAssumption DEF EmptyDisk, Init, EmptyRam, InRam
  <2>. QED BY <2>1, <2>2, InitOK DEF EInv, Exclusive
<1>2. EInv /\ [Next]_vars => EInv'
  BY NextKeepsApart
<1>. QED BY <1>1, <1>2, PTL DEF Spec

\* While the cache is open a resource is in RAM or on disk, never on both, and the
\* counter that the evictions go by is right, across crashes between the
\* transactions of a call.
THEOREM LevelsStayApart ==
  ASSUME WriteFaults = FALSE
  PROVE  Spec => []Exclusive
<1>1. EInv => Exclusive
  BY DEF EInv
<1>. QED BY <1>1, ApartInvariant, PTL DEF NoFailures

\* With positive limits no call and no Close keeps the mutex for ever.
THEOREM CacheNeverHangs ==
  ASSUME WriteFaults = FALSE, 0 \notin Limits
  PROVE  Spec => []NeverHung
<1>1. Init => NeverHung
  BY DEF Init, NeverHung
<1>2. EInv /\ NeverHung /\ [Next]_vars => NeverHung'
  <2>. SUFFICES ASSUME EInv, NeverHung, [Next]_vars PROVE NeverHung'
    OBVIOUS
  <2>1. ASSUME NEW k \in Keys, Hang(k) PROVE FALSE
    BY <2>1, LoopsEnd DEF Hang, SpillHangs
  <2>2. ~CloseHangs
    BY LoopsEnd DEF CloseHangs
  <2>3. ASSUME NEW k \in Keys, \E v \in Values : Save(k, v) PROVE status' = status
    BY <2>3 DEF Save
  <2>4. ASSUME NEW k \in Keys,
               Delete(k) \/ Read(k) \/ GetLastModified(k) \/ CloseSaves(k) \/ CloseFails(k)
        PROVE  status' \in {status, "open"}
    BY <2>4 DEF Delete, Read, ReadRam, ReadDisk, ReadFails, GetLastModified, CloseSaves, CloseFails
  <2>5. Close \/ CloseEnds \/ (\E limit \in Limits : Restart(limit)) \/ UNCHANGED vars
          => status' \in {"closing", "closed", "open", status}
    BY DEF Close, CloseEnds, Restart, vars
  <2>. QED BY <2>1, <2>2, <2>3, <2>4, <2>5 DEF Next, NeverHung
<1>. QED BY <1>1, <1>2, ApartInvariant, PTL DEF Spec, NoFailures

-----------------------------------------------------------------------------
(* Reads.                                                                  *)

\* With room for one entry, a save changes nothing else.
LEMMA SavedBeside ==
  ASSUME NEW d, Consistent(d), CountMatches(d), Cardinality(d.index) < d.maxEntries,
         NEW k \in Keys, NEW v \in Values, NEW x \in Saved(d, k, v)
  PROVE  Look(x, k) = v /\ \A j \in Keys \ {k} : Look(x, j) = Look(d, j)
<1>1. Look(x, k) = v
  BY SavedLook
<1>2. ASSUME NEW j \in Keys \ {k} PROVE Look(x, j) = Look(d, j)
  <2>1. PICK y \in Evicted(d, Surplus(d)) : x = SaveEntry(DeleteEntry(y, k), k, v)
    BY DEF Saved, MadeRoom
  <2>2. d \in Disk /\ y = DeleteEntries(d, {}) /\ {} \in SUBSET Keys /\ IsFiniteSet({})
    BY <2>1, NoEviction, FS_EmptySet DEF Consistent
  <2>3. Consistent(y) /\ y.headersKey = d.headersKey
    BY <2>2, DeleteEntriesConsistent, DeleteEntriesType
  <2>4. y.data[j] = d.data[j] /\ y.timestamp[j] = d.timestamp[j]
    BY <2>2, DeleteEntriesKeys
  <2>5. Look(y, j) = Look(d, j)
    BY <2>3, <2>4 DEF Look, OnDisk, ValueOnDisk
  <2> DEFINE z == DeleteEntry(y, k)
  <2>6. z \in Disk /\ Look(z, j) = Look(y, j)
    BY <2>3, DeleteEntryConsistent, DeleteEntryLook DEF Consistent
  <2> HIDE DEF z
  <2>7. /\ x.data[j] = z.data[j] /\ x.timestamp[j] = z.timestamp[j]
        /\ x.headersKey[j] = z.headersKey[j]
    BY <2>1, <2>6 DEF SaveEntry, Disk, z
  <2>. QED BY <2>5, <2>6, <2>7 DEF Look, OnDisk, ValueOnDisk
<1>. QED BY <1>1, <1>2

\* The read of a resource that is on disk, of a database within its limit.
LEMMA ReadDiskKeepsAll ==
  ASSUME NoFailures, EInv, NEW k \in Keys, ReadDisk(k),
         Cardinality(disk.index) <= disk.maxEntries, NEW j \in Keys
  PROVE  IF InRam(ram', j) THEN ram'.entry[j] = Visible[j] ELSE Look(disk', j) = Visible[j]
<1> DEFINE d == DeleteEntry(disk, k)
           v == ValueOnDisk(disk, k)
<1>1. /\ IInv /\ Consistent(disk) /\ CountMatches(disk) /\ ListOK(ram) /\ disk \in Disk
      /\ Agrees(disk) /\ OnDisk(disk, k) /\ v \in Values /\ ~InRam(ram, k)
  BY ReplyType, DiskAgrees DEF EInv, IInv, Exclusive, ReadDisk, Consistent
<1>2. status # "closed" /\ disk' \in Spilled(d, Pushed(ram)) /\ ram' = RamAdd(ram, k, v)
  BY DEF ReadDisk, Removed
<1>3. /\ Consistent(d) /\ CountMatches(d) /\ d.maxEntries = disk.maxEntries
      /\ \A i \in Keys \ {k} : Look(d, i) = Look(disk, i)
  BY <1>1, DeletedExact DEF Agrees
<1>4. Cardinality(d.index) < d.maxEntries
  <2>1. Cardinality(d.index) = Cardinality(disk.index) - 1
    BY <1>1, LookType, DeleteEntryMakesRoom
  <2>. QED BY <1>1, <1>3, <2>1, FS_CardinalityType DEF Disk
<1>5. /\ ListOK(ram') /\ ram'.entry[k] = v
      /\ \A i \in Keys \ {k} : ram'.entry[i] = IF i \in Pushed(ram) THEN None ELSE ram.entry[i]
  BY <1>1, <1>2, RamAddOK
<1>6. v = Visible[k]
  BY <1>1 DEF Visible
<1> HIDE DEF d, v
<1>7. \A i \in Keys : /\ InRam(ram', i) <=> ram'.entry[i] # None
                      /\ InRam(ram, i) <=> ram.entry[i] # None
                      /\ Visible[i] = IF InRam(ram, i) THEN ram.entry[i] ELSE Look(disk, i)
  BY <1>1, <1>5, VisibleValues DEF ListOK, InRam
<1>8. \A i \in Keys : i \in Pushed(ram) => InRam(ram, i) /\ i # k
  BY <1>1, CacheAssumption DEF Pushed, InRam
<1>9. CASE Pushed(ram) = {}
  <2>1. disk' = d
    BY <1>2, <1>9 DEF Spilled
  <2>. QED BY <1>1, <1>3, <1>5, <1>6, <1>7, <1>9, <2>1, StoreAssumption
<1>10. CASE Pushed(ram) # {}
  <2>1. PICK i \in Pushed(ram) : disk' \in Saved(d, i, ram.entry[i])
    BY <1>2, <1>10, NothingFails DEF Spilled
  <2>2. i \in Keys /\ i # k /\ InRam(ram, i)
    BY <1>8, <2>1 DEF Pushed
  <2>3. ram.entry[i] \in Values
    BY <1>1, <2>2, VisibleValues
  <2>4. /\ Look(disk', i) = ram.entry[i]
        /\ \A l \in Keys \ {i} : Look(disk', l) = Look(d, l)
    BY <1>3, <1>4, <2>1, <2>2, <2>3, SavedBeside
  <2>5. \A l \in Pushed(ram) : l = i
    BY <1>1, <2>1, CacheAssumption DEF Pushed, ListOK
  <2>6. CASE j = k
    BY <1>1, <1>5, <1>6, <1>7, <2>6, StoreAssumption
  <2>7. CASE j = i
    BY <1>5, <1>7, <2>1, <2>2, <2>4, <2>7
  <2>8. CASE j # k /\ j # i
    BY <1>3, <1>5, <1>7, <2>4, <2>5, <2>8
  <2>. QED BY <2>6, <2>7, <2>8
<1>. QED BY <1>9, <1>10

\* While nothing fails, no read of a database within its limit loses anything.
THEOREM ReadsLoseNothing ==
  ASSUME WriteFaults = FALSE
  PROVE  Spec => ReadLosesNothing
<1>1. ASSUME EInv, [Next]_vars, NEW k \in Keys, Read(k),
             Cardinality(disk.index) <= disk.maxEntries, NEW j \in Keys
      PROVE  Visible'[j] = Visible[j]
  <2>1. ListOK(ram) /\ IInv
    BY <1>1 DEF EInv, IInv
  <2>2. Visible'[j] = IF InRam(ram', j) THEN ram'.entry[j] ELSE Look(disk', j)
    BY DEF Visible, Look
  <2>3. CASE ReadRam(k)
    <3>1. ListOK(ram') /\ ram'.entry = ram.entry /\ disk' = disk
      BY <2>1, <2>3, TouchOK DEF ReadRam
    <3>2. InRam(ram', j) <=> InRam(ram, j)
      BY <2>1, <3>1 DEF ListOK, InRam
    <3>. QED BY <2>1, <2>2, <3>1, <3>2, VisibleValues
  <2>4. CASE ReadDisk(k)
    BY <1>1, <2>2, <2>4, ReadDiskKeepsAll DEF NoFailures
  <2>5. CASE ReadFails(k)
    <3>1. UNCHANGED <<disk, ram>>
      BY <2>5, NothingFails DEF ReadFails, NotRemoved, NoFailures
    <3>. QED BY <2>1, <2>2, <3>1, VisibleValues
  <2>. QED BY <1>1, <2>3, <2>4, <2>5 DEF Read
<1>2. EInv /\ [Next]_vars =>
        [ \A k \in Keys : Read(k) /\ Cardinality(disk.index) <= disk.maxEntries
            => \A j \in Keys : Visible[j] # None => Visible'[j] = Visible[j] ]_vars
  BY <1>1
<1>. QED BY <1>2, ApartInvariant, PTL DEF Spec, ReadLosesNothing, NoFailures

-----------------------------------------------------------------------------
(* Close.                                                                  *)

\* While Close is at work: the most recent of the entries it has saved are on
\* disk, and what was saved after one of them is more recent than it.
SavedSoFar ==
  status = "closing" =>
    \A k \in Keys : ram.pos[k] \in (cursor + 1) .. (cursor + disk.maxEntries)
      => /\ Look(disk, k) = ram.entry[k]
         /\ \A f \in disk.index :
              f.id > disk.idKey[k] => ram.pos[f.key] \in (cursor + 1) .. (ram.pos[k] - 1)

LEMMA CloseSavesInOrder ==
  ASSUME EInv, SavedSoFar, NEW i \in Keys, CloseSaves(i)
  PROVE  SavedSoFar'
<1> DEFINE m == disk.maxEntries
           v == ram.entry[i]
<1>1. /\ IInv /\ Consistent(disk) /\ CountMatches(disk) /\ ListOK(ram) /\ ram \in Ram
      /\ disk \in Disk /\ m \in Nat /\ cursor \in Nat
  BY CacheAssumption DEF EInv, IInv, Exclusive, TypeOK, Disk
<1>2. /\ status = "closing" /\ cursor # 0 /\ ram.pos[i] = cursor /\ cursor' = cursor - 1
      /\ ram' = ram /\ disk' \in Saved(disk, i, v)
  BY DEF CloseSaves
<1>3. InRam(ram, i) /\ v \in Values
  BY <1>1, <1>2, VisibleValues DEF InRam
<1>4. Look(disk', i) = v /\ Consistent(disk') /\ disk'.maxEntries = m
  BY <1>1, <1>2, <1>3, SavedLook, SavedConsistent
<1>5. \A k \in Keys : ram.pos[k] \in Nat
  BY <1>1, CacheAssumption DEF Ram
<1> HIDE DEF m, v
<1>. SUFFICES ASSUME NEW k \in Keys, ram.pos[k] \in cursor .. (cursor - 1 + m)
              PROVE  /\ Look(disk', k) = ram.entry[k]
                     /\ \A f \in disk'.index :
                          f.id > disk'.idKey[k] => ram.pos[f.key] \in cursor .. (ram.pos[k] - 1)
  BY <1>1, <1>2, <1>4 DEF SavedSoFar
<1>6. CASE k = i
  <2>1. disk'.idKey[i] = disk.idCounter /\ disk'.idCounter = disk.idCounter + 1
    <3>1. PICK z \in MadeRoom(disk, i) : disk' = SaveEntry(z, i, v)
      BY <1>2 DEF Saved
    <3>2. z \in Disk /\ z.idCounter = disk.idCounter
      BY <1>1, <3>1, MadeRoomConsistent DEF Consistent
    <3>. QED BY <3>1, <3>2 DEF SaveEntry, Disk
  <2>2. \A f \in disk'.index : f.id < disk.idCounter + 1 /\ f.id \in Nat
    BY <1>4, <2>1 DEF Consistent, IndexMatches, Disk, IndexEntry
  <2>. QED BY <1>1, <1>4, <1>6, <2>1, <2>2 DEF v, Disk
<1>7. CASE k # i
  <2>1. ram.pos[k] # cursor
    BY <1>1, <1>2, <1>7 DEF ListOK
  <2>2. ram.pos[k] \in (cursor + 1) .. (cursor + m)
    BY <1>1, <1>5, <2>1
  <2>3. /\ Look(disk, k) = ram.entry[k]
        /\ \A f \in disk.index :
             f.id > disk.idKey[k] => ram.pos[f.key] \in (cursor + 1) .. (ram.pos[k] - 1)
    BY <1>2, <2>2 DEF SavedSoFar, m
  <2>4. ram.entry[k] # None
    BY <1>1, <2>2 DEF ListOK
  <2>5. disk.idKey[k] # None
    BY <1>1, <2>3, <2>4, LookType
  <2> DEFINE G == {f \in disk.index : f.id > disk.idKey[k]}
             T == (cursor + 1) .. (ram.pos[k] - 1)
             p == [f \in G |-> ram.pos[f.key]]
  <2>6. IsFiniteSet(T) /\ Cardinality(T) = ram.pos[k] - 1 - cursor
    <3>1. /\ cursor + 1 \in Int /\ ram.pos[k] - 1 \in Int
          /\ IF cursor + 1 > ram.pos[k] - 1 THEN ram.pos[k] - 1 - cursor = 0
             ELSE (ram.pos[k] - 1) - (cursor + 1) + 1 = ram.pos[k] - 1 - cursor
      BY <1>1, <1>5, <2>2
    <3>2. /\ IsFiniteSet(T)
          /\ Cardinality(T) = IF cursor + 1 > ram.pos[k] - 1 THEN 0
                              ELSE (ram.pos[k] - 1) - (cursor + 1) + 1
      BY <3>1, FS_Interval
    <3>. QED BY <3>1, <3>2
  <2>7. p \in Injection(G, T)
    <3>1. p \in [G -> T]
      BY <2>3
    <3>2. ASSUME NEW f \in G, NEW g \in G, p[f] = p[g] PROVE f = g
      <4>1. f \in IndexEntry /\ g \in IndexEntry /\ ram.pos[f.key] = ram.pos[g.key]
        BY <1>1, <3>2 DEF Disk
      <4>2. ram.pos[f.key] # 0
        BY <1>1, <1>5, <2>3
      <4>3. f.key = g.key
        BY <1>1, <4>1, <4>2 DEF ListOK, IndexEntry
      <4>. QED BY <1>1, <4>1, <4>3 DEF Consistent, IndexMatches, IndexEntry
    <3> HIDE DEF G, T, p
    <3>. QED BY <3>1, <3>2 DEF Injection, IsInjective
  <2>8. Cardinality(G) <= ram.pos[k] - 1 - cursor /\ Cardinality(G) \in Nat
    BY <2>6, <2>7, FS_Injection, FS_CardinalityType
  <2>9. Cardinality(G) + 1 < m
    <3> HIDE DEF G
    <3>. QED BY <1>1, <1>5, <2>8
  <2>10. /\ disk'.idKey[k] = disk.idKey[k] /\ disk'.data[k] = disk.data[k]
         /\ disk'.timestamp[k] = disk.timestamp[k]
         /\ disk'.headersKey[k] = disk.headersKey[k]
         /\ disk'.index \subseteq disk.index \cup {[id |-> disk.idCounter, key |-> i]}
    BY <1>1, <1>2, <1>3, <1>7, <2>5, <2>9, SavedKeepsNewest DEF m
  <2>11. Look(disk', k) = ram.entry[k]
    BY <2>3, <2>10 DEF Look, OnDisk, ValueOnDisk
  <2>12. ASSUME NEW f \in disk'.index, f.id > disk'.idKey[k]
         PROVE  ram.pos[f.key] \in cursor .. (ram.pos[k] - 1)
    <3>1. CASE f \in disk.index
      BY <1>1, <1>5, <2>3, <2>10, <2>12, <3>1
    <3>2. CASE f = [id |-> disk.idCounter, key |-> i]
      BY <1>1, <1>2, <1>5, <2>2, <3>2
    <3>. QED BY <2>10, <3>1, <3>2
  <2>. QED BY <2>11, <2>12
<1>. QED BY <1>6, <1>7

LEMMA SavedSoFarInvariant ==
  ASSUME NoFailures
  PROVE  Spec => [](EInv /\ SavedSoFar)
<1>1. Init => SavedSoFar
  BY DEF Init, SavedSoFar
<1>2. EInv /\ SavedSoFar /\ [Next]_vars => SavedSoFar'
  <2>. SUFFICES ASSUME EInv, SavedSoFar, [Next]_vars PROVE SavedSoFar'
    OBVIOUS
  <2>1. ASSUME NEW k \in Keys,
               (\E v \in Values : Save(k, v)) \/ Delete(k) \/ Read(k) \/ GetLastModified(k)
        PROVE  status' # "closing"
    BY <2>1 DEF Save, Delete, Read, ReadRam, ReadDisk, ReadFails, GetLastModified, Ready, Free
  <2>2. ASSUME NEW k \in Keys, Hang(k) \/ CloseFails(k) PROVE status' # "closing"
    BY <2>2 DEF Hang, CloseFails
  <2>3. CloseHangs \/ CloseEnds \/ (\E limit \in Limits : Restart(limit)) => status' # "closing"
    BY DEF CloseHangs, CloseEnds, Restart
  <2>4. ASSUME NEW k \in Keys, CloseSaves(k) PROVE SavedSoFar'
    BY <2>4, CloseSavesInOrder
  <2>5. CASE Close
    <3> DEFINE P == {0} \cup {ram.pos[k] : k \in Keys}
    <3>1. P \subseteq Nat /\ P # {} /\ MaxRam + 1 \in Nat /\ \A n \in P : n < MaxRam + 1
      BY CacheAssumption DEF EInv, IInv, ListOK, Ram
    <3>2. \A n \in P : n <= Max(P)
      <4> HIDE DEF P
      <4>. QED BY <3>1, MaxOfBounded
    <3>3. Max(P) \in P
      <4> HIDE DEF P
      <4>. QED BY <3>1, MaxOfBounded
    <3>4. cursor' = Max(P) /\ ram' = ram
      BY <2>5 DEF Close
    <3>5. \A k \in Keys : ram'.pos[k] <= cursor' /\ ram'.pos[k] \in Nat /\ cursor' \in Nat
      BY <3>1, <3>2, <3>3, <3>4
    <3>6. \A k \in Keys : ~(ram'.pos[k] \in (cursor' + 1) .. (cursor' + disk'.maxEntries))
      BY <3>5
    <3>. QED BY <3>6 DEF SavedSoFar
  <2>6. CASE UNCHANGED vars
    BY <2>6 DEF vars, SavedSoFar, Look, OnDisk, ValueOnDisk
  <2>. QED BY <2>1, <2>2, <2>3, <2>4, <2>5, <2>6 DEF Next, SavedSoFar
<1>. QED BY <1>1, <1>2, ApartInvariant, PTL DEF Spec

\* When nothing fails, Close brings the most recently used resources to disk, as
\* many as fit, whatever was there before.
THEOREM ClosePersistsRecent ==
  ASSUME WriteFaults = FALSE
  PROVE  Spec => ClosePersists
<1>1. ASSUME EInv, SavedSoFar, [Next]_vars, status = "closing", status' = "closed",
             NEW k \in Keys, ram.pos[k] \in 1 .. disk.maxEntries
      PROVE  OnDisk(disk, k) /\ ValueOnDisk(disk, k) = ram.entry[k]
  <2>1. cursor = 0
    <3>1. ASSUME NEW i \in Keys,
                 (\E v \in Values : Save(i, v)) \/ Delete(i) \/ Read(i) \/ GetLastModified(i)
          PROVE  status # "closing"
      BY <3>1 DEF Save, Delete, Read, ReadRam, ReadDisk, ReadFails, GetLastModified, Ready, Free
    <3>2. ASSUME NEW i \in Keys, Hang(i) \/ CloseFails(i) \/ CloseSaves(i)
          PROVE  status' # "closed" \/ status' = status
      BY <3>2 DEF Hang, CloseFails, CloseSaves
    <3>3. Close \/ CloseHangs \/ (\E limit \in Limits : Restart(limit)) \/ UNCHANGED vars
            => status' # "closed" \/ status' = status
      BY DEF Close, CloseHangs, Restart, vars
    <3>4. CloseEnds => cursor = 0
      BY DEF CloseEnds
    <3>. QED BY <1>1, <3>1, <3>2, <3>3, <3>4 DEF Next
  <2>2. Look(disk, k) = ram.entry[k]
    <3>1. disk.maxEntries \in Nat
      BY <1>1 DEF EInv, IInv, Consistent, Disk
    <3>. QED BY <1>1, <2>1, <3>1 DEF SavedSoFar
  <2>3. ram.entry[k] # None
    BY <1>1 DEF EInv, IInv, ListOK
  <2>. QED BY <2>2, <2>3 DEF Look
<1>2. EInv /\ SavedSoFar /\ [Next]_vars =>
        [ status = "closing" /\ status' = "closed"
            => \A k \in Keys : ram.pos[k] \in 1 .. disk.maxEntries
                 => OnDisk(disk, k) /\ ValueOnDisk(disk, k) = ram.entry[k] ]_vars
  BY <1>1
<1>. QED BY <1>2, SavedSoFarInvariant, PTL DEF Spec, ClosePersists, NoFailures

-----------------------------------------------------------------------------
(* The cache with the operations on single headers.                        *)

\* The values whose content and modification time come from the same save.
Paired ==
  {v \in Values : \E r \in Resources \cup {Blank} :
                     r.content = v.content /\ r.modified = v.modified}

\* What the database and the list hold is paired.
Whole(d) == Consistent(d) /\ \A j \in Keys : Look(d, j) \in Paired \cup {None}
Held(r) == ListOK(r) /\ \A j \in Keys : r.entry[j] \in Paired \cup {None}

\* The invariant of the cache with headers.  The two levels may differ in the
\* headers, so it says of each level what IInv says of both together.
HInv == TypeOK /\ Whole(disk) /\ Held(ram)

LEMMA PairedValues ==
  /\ Paired \subseteq Values /\ None \notin Paired
  /\ HeadersAssumption => Resources \subseteq Paired
BY StoreAssumption DEF Paired, HeadersAssumption

\* Changing a header leaves the pair alone, and a new entry is blank.
LEMMA WithHeaderPaired ==
  ASSUME HeadersAssumption, NEW v \in Paired \cup {Blank},
         NEW name \in HeaderNames, NEW value \in HeaderValues
  PROVE  WithHeader(v, name, value) \in Paired
<1> DEFINE w == WithHeader(v, name, value)
           h == [n \in DOMAIN v.headers \cup {name} |->
                   IF n = name THEN value ELSE v.headers[n]]
<1>1. Blank \in Values
  BY StoreAssumption DEF HeadersAssumption, Blank
<1>2. v \in Values /\ v \in [content : Contents, modified : Times, headers : Headers]
  BY <1>1, StoreAssumption DEF Paired
<1>3. PICK N \in SUBSET HeaderNames : v.headers \in [N -> HeaderValues]
  BY <1>2 DEF HeadersAssumption
<1>4. h \in [N \cup {name} -> HeaderValues]
  BY <1>3
<1>5. h \in Headers
  BY <1>4 DEF HeadersAssumption
<1> HIDE DEF h
<1>6. w = [v EXCEPT !.headers = h]
  BY DEF WithHeader, h
<1>7. w \in Values /\ w.content = v.content /\ w.modified = v.modified
  BY <1>2, <1>5, <1>6 DEF HeadersAssumption
<1> HIDE DEF w
<1>. QED BY <1>7 DEF Paired, w

LEMMA SpilledWhole ==
  ASSUME NEW d, Whole(d), NEW S \in SUBSET Keys, \A j \in S : ram.entry[j] \in Paired,
         NEW x \in Spilled(d, S)
  PROVE  Whole(x)
<1>1. CASE x = d
  BY <1>1
<1>2. CASE x # d
  <2>1. PICK j \in S : x \in Saved(d, j, ram.entry[j]) \cup SaveFailed(d, j, ram.entry[j])
    BY <1>2 DEF Spilled
  <2>2. /\ j \in Keys /\ ram.entry[j] \in Paired /\ ram.entry[j] \in Values
        /\ Consistent(d) /\ d \in Disk
    BY <2>1, PairedValues DEF Whole, Consistent
  <2>3. Consistent(x)
    BY <2>1, <2>2, SavedConsistent, SaveFailedConsistent
  <2>4. CASE x \in Saved(d, j, ram.entry[j])
    <3>1. /\ Look(x, j) = ram.entry[j]
          /\ \A i \in Keys \ {j} : Look(x, i) \in {Look(d, i), None}
      BY <2>2, <2>4, SavedLook
    <3>. QED BY <2>2, <2>3, <3>1 DEF Whole
  <2>5. CASE x \in SaveFailed(d, j, ram.entry[j])
    <3>1. \A i \in Keys : Look(x, i) = Look(d, i)
      BY <2>2, <2>5, FailedLook DEF SaveFailed
    <3>. QED BY <2>3, <3>1 DEF Whole
  <2>. QED BY <2>1, <2>4, <2>5
<1>. QED BY <1>1, <1>2

LEMMA RemovedWhole ==
  ASSUME NEW d, Whole(d), NEW k \in Keys,
         NEW x \in Removed(d, k) \cup NotRemoved(d, k) \cup {DeleteEntry(d, k)}
  PROVE  Whole(x)
<1>1. Consistent(d) /\ d \in Disk
  BY DEF Whole, Consistent
<1>2. CASE x = d
  BY <1>2
<1>3. CASE x = DeleteEntry(d, k)
  BY <1>1, <1>3, DeleteEntryConsistent, DeleteEntryLook DEF Whole, Within
<1>4. CASE x \in RemoveFailed(d, k)
  <2>1. Consistent(x) /\ \A j \in Keys : Look(x, j) = Look(d, j)
    BY <1>1, <1>4, RemoveFailedConsistent, FailedLook DEF RemoveFailed
  <2>. QED BY <2>1 DEF Whole
<1>. QED BY <1>2, <1>3, <1>4 DEF Removed, NotRemoved

LEMMA LetGoWhole ==
  ASSUME HInv, NEW k \in Keys, NEW d \in LetGo(k)
  PROVE  Whole(d)
<1> DEFINE S == IF InRam(ram, k) THEN {k} ELSE {}
<1>1. S \in SUBSET Keys /\ d \in Spilled(disk, S) /\ Whole(disk)
  BY DEF LetGo, HInv
<1>2. ASSUME NEW j \in S PROVE ram.entry[j] \in Paired
  BY DEF HInv, Held, ListOK, InRam
<1> HIDE DEF S
<1>. QED BY <1>1, <1>2, SpilledWhole

\* A paired value enters a list r that has lost an entry at most.
LEMMA EntersHeld ==
  ASSUME HInv, NEW r, Held(r), NEW k \in Keys, ~InRam(r, k), NEW v \in Paired,
         \A j \in Keys \ {k} : r.entry[j] = ram.entry[j],
         NEW d, Whole(d), NEW x \in Spilled(d, Pushed(r))
  PROVE  Held(RamAdd(r, k, v)) /\ Whole(x)
<1>1. ListOK(r) /\ v \in Values
  BY PairedValues DEF Held
<1>2. Held(RamAdd(r, k, v))
  BY <1>1, RamAddOK DEF Held
<1>3. Pushed(r) \in SUBSET Keys
  BY DEF Pushed
<1>4. ASSUME NEW j \in Pushed(r) PROVE ram.entry[j] \in Paired
  <2>1. j \in Keys \ {k} /\ r.pos[j] # 0
    BY CacheAssumption DEF Pushed, InRam
  <2>. QED BY <1>1, <2>1 DEF Held, ListOK
<1>. QED BY <1>2, <1>3, <1>4, SpilledWhole

LEMMA HeldStays ==
  ASSUME HInv, NEW k \in Keys
  PROVE  /\ Held(RamRemove(ram, k)) /\ ~InRam(RamRemove(ram, k), k)
         /\ \A j \in Keys \ {k} : RamRemove(ram, k).entry[j] = ram.entry[j]
         /\ InRam(ram, k) => Held(Touch(ram, k)) /\ Touch(ram, k).entry = ram.entry
<1>1. ListOK(ram) /\ \A j \in Keys : ram.entry[j] \in Paired \cup {None}
  BY DEF HInv, Held
<1>2. /\ ListOK(RamRemove(ram, k)) /\ RamRemove(ram, k).pos[k] = 0
      /\ \A j \in Keys \ {k} : RamRemove(ram, k).entry[j] = ram.entry[j]
  BY <1>1, RamRemoveOK
<1>3. RamRemove(ram, k).entry[k] = None
  BY <1>2 DEF ListOK
<1>4. InRam(ram, k) => ListOK(Touch(ram, k)) /\ Touch(ram, k).entry = ram.entry
  BY <1>1, TouchOK
<1>. QED BY <1>1, <1>2, <1>3, <1>4 DEF Held, InRam

\* What an action has to show.
LEMMA HeadersCombine ==
  ASSUME HInv, Whole(disk'), Held(ram'), reply' \in Replies,
         status' \in {"open", "closing", "closed", "hung"}, cursor' \in 0 .. MaxRam
  PROVE  HInv'
BY DEF HInv, TypeOK, Whole, Consistent, Held, ListOK

LEMMA SaveKeepsHInv ==
  ASSUME HeadersAssumption, HInv, NEW k \in Keys, NEW v \in Resources, Save(k, v)
  PROVE  HInv'
<1> DEFINE r == RamRemove(ram, k)
<1>1. Held(r) /\ ~InRam(r, k) /\ \A j \in Keys \ {k} : r.entry[j] = ram.entry[j]
  BY HeldStays
<1>2. v \in Paired /\ v \in Values
  BY PairedValues
<1> HIDE DEF r
<1>3. PICK d1 \in LetGo(k) :
        \/ /\ \E d2 \in Removed(d1, k) : disk' \in Spilled(d2, Pushed(r))
           /\ ram' = RamAdd(r, k, v) /\ reply' = <<"saved", k, v>>
        \/ disk' \in NotRemoved(d1, k) /\ ram' = r /\ reply' = None
  BY DEF Save, r
<1>4. status' \in {"open", "closing", "closed", "hung"} /\ cursor' \in 0 .. MaxRam
  BY DEF Save, HInv, TypeOK
<1>5. Whole(d1) /\ reply' \in Replies
  BY <1>2, <1>3, LetGoWhole, RepliesOK
<1>6. Whole(disk') /\ Held(ram')
  BY <1>1, <1>2, <1>3, <1>5, RemovedWhole, EntersHeld
<1>. QED BY <1>4, <1>5, <1>6, HeadersCombine

LEMMA DeleteKeepsHInv ==
  ASSUME HInv, NEW k \in Keys, Delete(k)
  PROVE  HInv'
<1>1. PICK d1 \in LetGo(k) : disk' \in Removed(d1, k) \cup NotRemoved(d1, k)
  BY DEF Delete
<1>2. Whole(disk') /\ Held(ram')
  BY <1>1, LetGoWhole, RemovedWhole, HeldStays DEF Delete
<1>3. reply' \in Replies
  BY RepliesOK DEF Delete
<1>4. status' \in {"open", "closing", "closed", "hung"} /\ cursor' \in 0 .. MaxRam
  BY DEF Delete, HInv, TypeOK
<1>. QED BY <1>2, <1>3, <1>4, HeadersCombine

LEMMA ReadKeepsHInv ==
  ASSUME HInv, NEW k \in Keys, Read(k)
  PROVE  HInv'
<1>1. /\ Whole(disk) /\ Held(ram) /\ ListOK(ram) /\ Consistent(disk)
      /\ status \in {"open", "closing", "closed", "hung"} /\ cursor \in 0 .. MaxRam
  BY DEF HInv, TypeOK, Whole, Held
<1>2. CASE ReadRam(k)
  <2>1. Held(ram') /\ disk' = disk /\ UNCHANGED <<status, cursor>>
    BY <1>2, HeldStays DEF ReadRam
  <2>2. reply' \in Replies
    <3>1. ram.entry[k] \in Values
      BY <1>1, <1>2, PairedValues DEF ReadRam, Held, ListOK, InRam
    <3>. QED BY <1>2, <3>1, RepliesOK DEF ReadRam
  <2>. QED BY <1>1, <2>1, <2>2, HeadersCombine
<1>3. CASE ReadDisk(k)
  <2> DEFINE v == ValueOnDisk(disk, k)
  <2>1. v \in Paired /\ v \in Values
    <3>1. Look(disk, k) = v /\ Look(disk, k) # None
      BY <1>1, <1>3, LookType DEF ReadDisk, Look
    <3>. QED BY <1>1, <3>1, PairedValues DEF Whole
  <2> HIDE DEF v
  <2>2. PICK d \in Removed(disk, k) : disk' \in Spilled(d, Pushed(ram))
    BY <1>3 DEF ReadDisk
  <2>3. Whole(d) /\ ram' = RamAdd(ram, k, v) /\ ~InRam(ram, k)
    BY <1>1, <1>3, <2>2, RemovedWhole DEF ReadDisk, v
  <2>4. Whole(disk') /\ Held(ram')
    BY <1>1, <2>1, <2>2, <2>3, EntersHeld
  <2>5. reply' \in Replies /\ UNCHANGED <<status, cursor>>
    BY <1>3, <2>1, RepliesOK DEF ReadDisk, v
  <2>. QED BY <1>1, <2>4, <2>5, HeadersCombine
<1>4. CASE ReadFails(k)
  <2>1. disk' \in NotRemoved(disk, k) \cup {disk} /\ UNCHANGED <<ram, status, cursor>>
    BY <1>4 DEF ReadFails
  <2>2. Whole(disk') /\ reply' \in Replies
    BY <1>1, <1>4, <2>1, RemovedWhole, RepliesOK DEF ReadFails
  <2>. QED BY <1>1, <2>1, <2>2, HeadersCombine
<1>. QED BY <1>2, <1>3, <1>4 DEF Read

LEMMA OthersKeepHInv ==
  ASSUME HInv, NEW k \in Keys,
         GetLastModified(k) \/ Hang(k) \/ CloseSaves(k) \/ CloseFails(k)
  PROVE  HInv'
<1>1. /\ Whole(disk) /\ Held(ram) /\ ListOK(ram) /\ Consistent(disk) /\ disk \in Disk
      /\ status \in {"open", "closing", "closed", "hung"} /\ cursor \in 0 .. MaxRam
  BY DEF HInv, TypeOK, Whole, Held
<1>2. CASE GetLastModified(k)
  <2>1. ram.entry[k] # None => ram.entry[k].modified \in Times
    <3>1. ram.entry[k] \in Values \cup {None}
      BY <1>1, PairedValues DEF Held
    <3>. QED BY <3>1, StoreAssumption
  <2>2. disk.timestamp[k] # None => disk.timestamp[k] \in Times
    BY <1>1 DEF Disk
  <2>3. reply' \in Replies
    BY <1>1, <1>2, <2>1, <2>2, RepliesOK DEF GetLastModified, ListOK, InRam
  <2>. QED BY <1>1, <1>2, <2>3, HeadersCombine DEF GetLastModified
<1>3. CASE Hang(k)
  <2>1. disk' \in {disk, DeleteEntry(disk, k)} /\ status' = "hung" /\ reply' = None
          /\ UNCHANGED <<ram, cursor>>
    BY <1>3 DEF Hang
  <2>. QED BY <1>1, <2>1, RemovedWhole, RepliesOK, HeadersCombine
<1>4. CASE CloseSaves(k) \/ CloseFails(k)
  <2>1. /\ disk' \in Saved(disk, k, ram.entry[k]) \cup SaveFailed(disk, k, ram.entry[k])
        /\ status = "closing" /\ ram.pos[k] # 0 /\ LoopEnds(disk)
        /\ ram' = ram /\ reply' = None
        /\ status' \in {"open", "closing"} /\ cursor' \in {0, cursor - 1} /\ cursor # 0
    BY <1>4 DEF CloseSaves, CloseFails
  <2>2. {k} \in SUBSET Keys /\ \A j \in {k} : ram.entry[j] \in Paired
    BY <1>1, <2>1 DEF Held, ListOK
  <2>3. disk' \in Spilled(disk, {k})
    BY <2>1 DEF Spilled
  <2>4. Whole(disk') /\ cursor' \in 0 .. MaxRam
    BY <1>1, <2>1, <2>2, <2>3, SpilledWhole, CacheAssumption
  <2>. QED BY <1>1, <2>1, <2>4, RepliesOK, HeadersCombine
<1>. QED BY <1>2, <1>3, <1>4

LEMMA HeadersKeepHInv ==
  ASSUME HeadersAssumption, HInv, NEW k \in Keys,
         \/ \E name \in HeaderNames, value \in HeaderValues : CacheHeader(k, name, value)
         \/ CacheHeaderHangs(k)
         \/ GetHeaders(k)
  PROVE  HInv'
<1>1. /\ Whole(disk) /\ Held(ram) /\ ListOK(ram)
      /\ status \in {"open", "closing", "closed", "hung"} /\ cursor \in 0 .. MaxRam
  BY DEF HInv, TypeOK, Held
<1>2. ASSUME NEW name \in HeaderNames, NEW value \in HeaderValues,
             CacheHeaderInRam(k, name, value)
      PROVE  HInv'
  <2> DEFINE r == Touch(ram, k)
             w == WithHeader(ram.entry[k], name, value)
  <2>1. InRam(ram, k) /\ Held(r) /\ ListOK(r) /\ r.entry = ram.entry /\ r \in Ram
    BY <1>2, HeldStays DEF CacheHeaderInRam, Held, ListOK
  <2>2. ram.entry[k] \in Paired
    BY <1>1, <2>1 DEF Held, ListOK, InRam
  <2>3. w \in Paired /\ w \in Values /\ w # None
    BY <2>2, WithHeaderPaired, PairedValues
  <2>4. r.entry[k] # None
    BY <2>1, <2>2, PairedValues
  <2>5. ram' = [r EXCEPT !.entry[k] = w]
    BY <1>2 DEF CacheHeaderInRam
  <2> HIDE DEF r, w
  <2>6. ram' \in Ram /\ ram'.pos = r.pos /\ ram'.entry = [r.entry EXCEPT ![k] = w]
    BY <2>1, <2>3, <2>5 DEF Ram
  <2>7. \A j \in Keys : ram'.entry[j] = IF j = k THEN w ELSE r.entry[j]
    BY <2>1, <2>6 DEF Ram
  <2>8. ListOK(ram')
    BY <2>1, <2>3, <2>4, <2>6, <2>7 DEF ListOK
  <2>9. Held(ram')
    BY <2>1, <2>3, <2>7, <2>8 DEF Held
  <2>. QED BY <1>1, <1>2, <2>9, RepliesOK, HeadersCombine DEF CacheHeaderInRam
<1>3. ASSUME NEW name \in HeaderNames, NEW value \in HeaderValues,
             CacheHeaderNew(k, name, value)
      PROVE  HInv'
  <2> DEFINE w == WithHeader(Blank, name, value)
  <2>1. w \in Paired
    BY WithHeaderPaired
  <2>2. ~InRam(ram, k) /\ disk' \in Spilled(disk, Pushed(ram)) /\ ram' = RamAdd(ram, k, w)
    BY <1>3 DEF CacheHeaderNew
  <2> HIDE DEF w
  <2>3. Whole(disk') /\ Held(ram')
    BY <1>1, <2>1, <2>2, EntersHeld
  <2>. QED BY <1>1, <1>3, <2>3, RepliesOK, HeadersCombine DEF CacheHeaderNew
<1>4. CASE CacheHeaderHangs(k)
  BY <1>1, <1>4, RepliesOK, HeadersCombine DEF CacheHeaderHangs
<1>5. CASE GetHeaders(k)
  BY <1>1, <1>5, HeldStays, RepliesOK, HeadersCombine DEF GetHeaders
<1>. QED BY <1>2, <1>3, <1>4, <1>5 DEF CacheHeader

LEMMA RestartKeepsHInv ==
  ASSUME HInv, NEW limit \in Limits, Restart(limit)
  PROVE  HInv'
<1>1. PICK d \in {disk} \cup UNION {MidCall(k) : k \in Keys} : disk' = Reopened(d, limit)
  BY DEF Restart
<1>2. Whole(d)
  <2>1. ASSUME NEW k \in Keys, d \in MidCall(k) PROVE Whole(d)
    BY <2>1, LetGoWhole, RemovedWhole DEF MidCall
  <2>. QED BY <1>1, <2>1 DEF HInv
<1>3. Whole(disk')
  <2>1. limit \in Nat /\ Consistent(d) /\ d \in Disk
    BY <1>2, CacheAssumption DEF Whole, Consistent
  <2>. QED BY <1>1, <1>2, <2>1, ReopenedConsistent, ReopenedLook DEF Whole
<1>4. Held(ram') /\ reply' \in Replies /\ status' = "open" /\ cursor' = 0
  BY CacheAssumption, RepliesOK DEF Restart, Held, ListOK, Ram, EmptyRam
<1>. QED BY <1>3, <1>4, CacheAssumption, HeadersCombine

LEMMA HeadersInvariant == SpecWithHeaders => []HInv
<1>1. Init => HInv
  <2>. SUFFICES ASSUME Init PROVE HInv
    OBVIOUS
  <2>1. PICK limit \in Limits : disk = EmptyDisk(limit)
    BY DEF Init
  <2>2. IInv /\ Consistent(disk)
    BY InitOK DEF IInv
  <2>3. \A k \in Keys : Look(disk, k) = None
    BY <2>1 DEF EmptyDisk, Look, OnDisk
  <2>. QED BY <2>2, <2>3 DEF HInv, IInv, Whole, Held, Init, EmptyRam
<1>2. HInv /\ [NextWithHeaders]_vars => HInv'
  <2>. SUFFICES ASSUME HInv, [NextWithHeaders]_vars PROVE HInv'
    OBVIOUS
  <2>1. ASSUME NEW k \in Keys, NEW v \in Resources, Save(k, v) PROVE HInv'
    BY <2>1, SaveKeepsHInv, HeadersAssumption
  <2>2. ASSUME NEW k \in Keys, Delete(k) \/ Read(k) PROVE HInv'
    BY <2>2, DeleteKeepsHInv, ReadKeepsHInv
  <2>3. ASSUME NEW k \in Keys,
               GetLastModified(k) \/ Hang(k) \/ CloseSaves(k) \/ CloseFails(k)
        PROVE  HInv'
    BY <2>3, OthersKeepHInv
  <2>4. ASSUME NEW k \in Keys,
               \/ \E name \in HeaderNames, value \in HeaderValues : CacheHeader(k, name, value)
               \/ CacheHeaderHangs(k)
               \/ GetHeaders(k)
        PROVE  HInv'
    BY <2>4, HeadersKeepHInv, HeadersAssumption
  <2>5. ASSUME NEW limit \in Limits, Restart(limit) PROVE HInv'
    BY <2>5, RestartKeepsHInv
  <2>6. CASE Close
    <3> DEFINE P == {0} \cup {ram.pos[k] : k \in Keys}
    <3>1. P \subseteq 0 .. MaxRam /\ P # {}
      BY CacheAssumption DEF HInv, TypeOK, Ram
    <3>2. P \subseteq Nat /\ MaxRam + 1 \in Nat /\ \A n \in P : n < MaxRam + 1
      BY <3>1, CacheAssumption
    <3> HIDE DEF P
    <3>3. Max(P) \in P
      BY <3>1, <3>2, MaxOfBounded
    <3>4. cursor' = Max(P)
      BY <2>6 DEF Close, P
    <3>5. cursor' \in 0 .. MaxRam
      BY <3>1, <3>3, <3>4
    <3>. QED BY <2>6, <3>5, RepliesOK, HeadersCombine DEF Close, HInv
  <2>7. CASE CloseHangs \/ CloseEnds
    BY <2>7, RepliesOK, HeadersCombine DEF CloseHangs, CloseEnds, HInv, TypeOK
  <2>8. CASE UNCHANGED vars
    BY <2>8, HeadersCombine DEF vars, HInv, TypeOK
  <2>. QED BY <2>1, <2>2, <2>3, <2>4, <2>5, <2>6, <2>7, <2>8 DEF NextWithHeaders
<1>. QED BY <1>1, <1>2, PTL DEF SpecWithHeaders

\* The state of the cache with headers has its type.
THEOREM HeadersTypeCorrect == SpecWithHeaders => []TypeOK
BY HeadersInvariant, PTL DEF HInv

\* The operations on headers, which make entries without content, leave the
\* database consistent.
THEOREM HeadersKeepDiskConsistent == SpecWithHeaders => []DiskConsistent
<1>1. HInv => DiskConsistent
  BY DEF HInv, Whole, Consistent, DiskConsistent
<1>. QED BY <1>1, HeadersInvariant, PTL

\* A content is never served with the modification time of another save, nor kept
\* on disk with it: evictions, promotions, changes of headers in place, failed
\* transactions, Close and crashes move the two together.
THEOREM PartsStayTogether == SpecWithHeaders => []PartsTogether
<1>1. HInv => PartsTogether
  <2>. SUFFICES ASSUME HInv PROVE PartsTogether
    OBVIOUS
  <2>1. ASSUME NEW k \in Keys, OnDisk(disk, k) PROVE ValueOnDisk(disk, k) \in Paired
    <3>1. Look(disk, k) = ValueOnDisk(disk, k) /\ Look(disk, k) # None
      BY <2>1, LookType DEF HInv, Whole, Look
    <3>. QED BY <3>1 DEF HInv, Whole
  <2>2. ASSUME NEW k \in Keys PROVE Visible[k] \in Paired \cup {None}
    BY <2>1 DEF Visible, HInv, Held
  <2>. QED BY <2>1, <2>2 DEF PartsTogether, Paired
<1>. QED BY <1>1, HeadersInvariant, PTL
=============================================================================
