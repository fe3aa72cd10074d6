--------------------------- MODULE DiskStoreProofs ---------------------------
(***************************************************************************)
(* What the operations of DiskStore preserve, proved for every value of    *)
(* the constants.                                                          *)
(***************************************************************************)
EXTENDS DiskStore, FiniteSetTheorems, WellFoundedInduction, TLAPS

Consistent(d) == d \in Disk /\ IndexMatches(d) /\ EntriesWhole(d)

-----------------------------------------------------------------------------
(* Extrema.                                                                *)

\* A non-empty set of naturals has a least element (by the well-foundedness of
\* < , since induction theorems cannot be instantiated).
LEMMA LeastNatural ==
  ASSUME NEW S, S \subseteq Nat, S # {}
  PROVE  \E x \in S : \A y \in S : x <= y
<1> DEFINE R == {p \in Nat \X Nat : p[1] < p[2]}
<1>1. IsWellFoundedOn(R, Nat)
  <2>1. OpToRel(<, Nat) = R
    BY DEF OpToRel
  <2>. QED BY <2>1, NatLessThanWellFounded
<1>2. \A x \in Nat, y \in Nat : <<y, x>> \in R <=> y < x
  OBVIOUS
<1> HIDE DEF R
<1>3. PICK x \in S : \A y \in S : <<y, x>> \notin R
  BY <1>1, WFMin
<1>4. ASSUME NEW y \in S PROVE x <= y
  <2>1. x \in Nat /\ y \in Nat
    OBVIOUS
  <2>2. ~(y < x)
    BY <1>2, <1>3, <2>1
  <2>. QED BY <2>1, <2>2
<1>. QED BY <1>4

\* A bounded non-empty set of naturals has a maximum.
LEMMA MaxOfBounded ==
  ASSUME NEW S, S \subseteq Nat, S # {}, NEW b \in Nat, \A s \in S : s < b
  PROVE  Max(S) \in S /\ \A s \in S : s <= Max(S)
<1> DEFINE T == {n \in Nat : \E s \in S : n + s = b}
<1>1. T \subseteq Nat /\ T # {}
  <2>1. PICK s \in S : TRUE
    OBVIOUS
  <2>2. b - s \in Nat /\ (b - s) + s = b
    OBVIOUS
  <2>. QED BY <2>2
<1>2. PICK n \in T : \A y \in T : n <= y
  BY <1>1, LeastNatural
<1>3. PICK m \in S : n + m = b
  BY <1>2
<1>4. ASSUME NEW s \in S PROVE m >= s
  <2>1. b - s \in T
    OBVIOUS
  <2>2. n <= b - s
    BY <1>2, <2>1
  <2>3. n \in Nat /\ m \in Nat /\ s \in Nat
    OBVIOUS
  <2>. QED BY <1>3, <2>2, <2>3
<1>5. /\ Max(S) \in S
      /\ \A y \in S : Max(S) >= y
  BY <1>4 DEF Max
<1>. QED BY <1>5

-----------------------------------------------------------------------------
(* Deleting.                                                               *)

LEMMA DeleteEntriesType ==
  ASSUME NEW d \in Disk, NEW S \in SUBSET Keys, IsFiniteSet(S)
  PROVE  /\ DeleteEntries(d, S) \in Disk
         /\ DeleteEntries(d, S).idCounter = d.idCounter
         /\ DeleteEntries(d, S).maxEntries = d.maxEntries
         /\ DeleteEntries(d, S).headersKey = d.headersKey
<1> DEFINE gone == {k \in S : d.idKey[k] # None}
           n == Cardinality(gone)
           I == {e \in d.index : \A k \in gone : e.id # d.idKey[k]}
<1>1. n \in Nat
  BY FS_Subset, FS_CardinalityType
<1>2. I \in SUBSET IndexEntry /\ IsFiniteSet(I)
  <2>1. IsFiniteSet(d.index) /\ d.index \subseteq IndexEntry
    BY DEF Disk
  <2>. QED BY <2>1, FS_Subset
<1>3. (IF n <= d.entryCount THEN d.entryCount - n ELSE 0) \in Nat
  BY <1>1 DEF Disk
<1> HIDE DEF I, n
<1>. QED BY <1>2, <1>3 DEF Disk, DeleteEntries, I, n

LEMMA DeleteEntriesKeys ==
  ASSUME NEW d \in Disk, NEW S \in SUBSET Keys, NEW k \in Keys
  PROVE  LET x == DeleteEntries(d, S)
         IN  /\ k \in S => x.idKey[k] = None
             /\ k \notin S \/ d.idKey[k] = None
                  => /\ x.idKey[k] = d.idKey[k]
                     /\ x.data[k] = d.data[k]
                     /\ x.timestamp[k] = d.timestamp[k]
             /\ k \in S /\ d.idKey[k] # None
                  => x.data[k] = None /\ x.timestamp[k] = None
             /\ x.index = {e \in d.index :
                             \A j \in S : d.idKey[j] # None => e.id # d.idKey[j]}
             /\ x.headersKey = d.headersKey
             /\ x.idCounter = d.idCounter
BY DEF Disk, DeleteEntries

LEMMA DeleteEntriesConsistent ==
  ASSUME NEW d, Consistent(d), NEW S \in SUBSET Keys, IsFiniteSet(S)
  PROVE  Consistent(DeleteEntries(d, S))
<1> DEFINE x == DeleteEntries(d, S)
<1>1. d \in Disk /\ x \in Disk
  BY DeleteEntriesType DEF Consistent
<1>2. IndexMatches(x)
  <2>0. /\ x.index = {e \in d.index : \A j \in S : d.idKey[j] # None => e.id # d.idKey[j]}
        /\ x.idCounter = d.idCounter
    BY <1>1 DEF DeleteEntries, Disk
  <2>1. ASSUME NEW k \in Keys, x.idKey[k] # None
        PROVE  [id |-> x.idKey[k], key |-> k] \in x.index
    <3>1. k \notin S /\ x.idKey[k] = d.idKey[k]
      BY <1>1, <2>1, DeleteEntriesKeys
    <3>2. [id |-> d.idKey[k], key |-> k] \in d.index
      BY <2>1, <3>1 DEF Consistent, IndexMatches
    <3>3. ASSUME NEW j \in S, d.idKey[j] # None PROVE d.idKey[k] # d.idKey[j]
      <4>1. [id |-> d.idKey[j], key |-> j] \in d.index
        BY <3>3 DEF Consistent, IndexMatches
      <4>2. [id |-> d.idKey[j], key |-> j] # [id |-> d.idKey[k], key |-> k]
        BY <3>1
      <4>. QED BY <3>2, <4>1, <4>2 DEF Consistent, IndexMatches
    <3>. QED BY <1>1, <3>1, <3>2, <3>3, DeleteEntriesKeys
  <2>2. ASSUME NEW e \in x.index
        PROVE  x.idKey[e.key] = e.id /\ e.id < x.idCounter
    <3>1. /\ e \in d.index
          /\ \A j \in S : d.idKey[j] # None => e.id # d.idKey[j]
      BY <2>0
    <3>2. e \in IndexEntry /\ d.idKey[e.key] = e.id /\ e.id < d.idCounter
      BY <1>1, <3>1 DEF Disk, Consistent, IndexMatches
    <3>3. e.id \in Nat /\ e.key \in Keys
      BY <3>2 DEF IndexEntry
    <3>. QED BY <1>1, <2>0, <3>1, <3>2, <3>3, DeleteEntriesKeys
  <2>3. \A e, f \in x.index : e.id = f.id => e = f
    BY <2>0 DEF Consistent, IndexMatches
  <2>. QED BY <2>1, <2>2, <2>3 DEF IndexMatches
<1>3. EntriesWhole(x)
  <2>. SUFFICES ASSUME NEW k \in Keys
       PROVE IF x.idKey[k] = None THEN x.data[k] = None /\ x.timestamp[k] = None
             ELSE ValueOnDisk(x, k) \in Values
    BY DEF EntriesWhole
  <2>. QED BY <1>1, DeleteEntriesKeys DEF Consistent, EntriesWhole, ValueOnDisk
<1>. QED BY <1>1, <1>2, <1>3 DEF Consistent

LEMMA DeleteEntryConsistent ==
  ASSUME NEW d, Consistent(d), NEW k \in Keys
  PROVE  /\ Consistent(DeleteEntry(d, k))
         /\ DeleteEntry(d, k).idKey[k] = None
         /\ DeleteEntry(d, k).idCounter = d.idCounter
         /\ DeleteEntry(d, k).maxEntries = d.maxEntries
<1>1. {k} \in SUBSET Keys /\ IsFiniteSet({k}) /\ d \in Disk
  BY FS_Singleton DEF Consistent
<1>. QED
  BY <1>1, DeleteEntriesConsistent, DeleteEntriesType, DeleteEntriesKeys DEF DeleteEntry

\* The keys of a set of index entries.
LEMMA KeysOfEntries ==
  ASSUME NEW d \in Disk, NEW E \in SUBSET d.index
  PROVE  /\ {e.key : e \in E} \in SUBSET Keys
         /\ IsFiniteSet({e.key : e \in E})
<1> DEFINE T == {e.key : e \in E}
<1>1. IsFiniteSet(E) /\ E \subseteq IndexEntry
  BY FS_Subset DEF Disk
<1>2. [e \in E |-> e.key] \in Surjection(E, T)
  BY DEF Surjection
<1>. QED BY <1>1, <1>2, FS_Surjection DEF IndexEntry

LEMMA EvictedConsistent ==
  ASSUME NEW d, Consistent(d), NEW n \in Nat, NEW x \in Evicted(d, n)
  PROVE  Consistent(x) /\ x.idCounter = d.idCounter /\ x.maxEntries = d.maxEntries
<1>1. PICK E \in SUBSET d.index : x = DeleteEntries(d, {e.key : e \in E})
  BY DEF Evicted, Oldest, kSubset
<1>2. d \in Disk
  BY DEF Consistent
<1>. QED BY <1>1, <1>2, KeysOfEntries, DeleteEntriesConsistent, DeleteEntriesType

-----------------------------------------------------------------------------
(* Saving.                                                                 *)

LEMMA SaveEntryConsistent ==
  ASSUME NEW d, Consistent(d), NEW k \in Keys, d.idKey[k] = None, NEW v \in Values
  PROVE  LET x == SaveEntry(d, k, v)
         IN  /\ Consistent(x)
             /\ x.idCounter = d.idCounter + 1 /\ x.maxEntries = d.maxEntries
             /\ x.index = d.index \cup {[id |-> d.idCounter, key |-> k]}
             /\ \A e \in d.index : e.id # d.idCounter
<1> DEFINE x == SaveEntry(d, k, v)
           new == [id |-> d.idCounter, key |-> k]
<1>1. d \in Disk /\ v \in [content : Contents, modified : Times, headers : Headers]
  BY StoreAssumption DEF Consistent
<1>2. \A e \in d.index : e \in IndexEntry /\ e.id < d.idCounter /\ d.idKey[e.key] = e.id
  BY <1>1 DEF Consistent, IndexMatches, Disk
<1>3. \A e \in d.index : e.id # d.idCounter /\ e.key # k
  <2>. TAKE e \in d.index
  <2>1. e.id \in Nat /\ d.idCounter \in Nat /\ None \notin Nat
    BY <1>1, <1>2, StoreAssumption DEF IndexEntry, Disk
  <2>. QED BY <1>2, <2>1
<1>4. x.index = d.index \cup {new}
  BY <1>1, <1>3 DEF SaveEntry, Disk
<1>5. x.index \in SUBSET IndexEntry /\ IsFiniteSet(x.index)
  <2>1. d.index \in SUBSET IndexEntry /\ IsFiniteSet(d.index) /\ d.idCounter \in Nat
    BY <1>1 DEF Disk
  <2>2. new \in IndexEntry
    BY <2>1 DEF IndexEntry
  <2> HIDE DEF x, new
  <2>. QED BY <1>4, <2>1, <2>2, FS_AddElement
<1>6. x \in Disk
  <2>1. /\ x.idKey \in [Keys -> Nat \cup {None}]
        /\ x.data \in [Keys -> Contents \cup {None}]
        /\ x.timestamp \in [Keys -> Times \cup {None}]
        /\ x.headersKey \in [Keys -> Headers \cup {None}]
        /\ x.idCounter \in Nat /\ x.entryCount \in Nat /\ x.maxEntries \in Nat
    BY <1>1 DEF SaveEntry, Disk
  <2>2. x = [ d EXCEPT !.idKey = x.idKey, !.data = x.data, !.timestamp = x.timestamp,
                       !.headersKey = x.headersKey, !.index = x.index,
                       !.entryCount = x.entryCount, !.idCounter = x.idCounter ]
    BY <1>1 DEF SaveEntry, Disk
  <2> HIDE DEF x
  <2>. QED BY <1>1, <1>5, <2>1, <2>2 DEF Disk
<1>7. \A j \in Keys : IF j = k THEN x.idKey[j] = d.idCounter
                               ELSE x.idKey[j] = d.idKey[j]
  BY <1>1 DEF SaveEntry, Disk
<1>8. IndexMatches(x)
  <2>1. ASSUME NEW j \in Keys, x.idKey[j] # None
        PROVE  [id |-> x.idKey[j], key |-> j] \in x.index
    BY <1>4, <1>7, <2>1 DEF Consistent, IndexMatches
  <2>2. ASSUME NEW e \in x.index PROVE x.idKey[e.key] = e.id /\ e.id < x.idCounter
    <3>1. x.idCounter = d.idCounter + 1 /\ d.idCounter \in Nat
      BY <1>1 DEF SaveEntry, Disk
    <3>2. CASE e = new
      BY <1>7, <3>1, <3>2
    <3>3. CASE e \in d.index
      <4>1. e.key \in Keys /\ e.id \in Nat
        BY <1>2, <3>3 DEF IndexEntry
      <4>. QED BY <1>2, <1>3, <1>7, <3>1, <3>3, <4>1
    <3>. QED BY <1>4, <3>2, <3>3
  <2>3. \A e, f \in x.index : e.id = f.id => e = f
    BY <1>3, <1>4 DEF Consistent, IndexMatches
  <2>. QED BY <2>1, <2>2, <2>3 DEF IndexMatches
<1>9. EntriesWhole(x)
  <2>. SUFFICES ASSUME NEW j \in Keys
       PROVE IF x.idKey[j] = None THEN x.data[j] = None /\ x.timestamp[j] = None
             ELSE ValueOnDisk(x, j) \in Values
    BY DEF EntriesWhole
  <2>1. CASE j = k
    <3>1. /\ x.data[k] = v.content /\ x.timestamp[k] = v.modified
          /\ x.headersKey[k] = v.headers
      BY <1>1 DEF SaveEntry, Disk
    <3>2. v.headers # None
      BY <1>1, StoreAssumption
    <3>3. ValueOnDisk(x, k) = v
      BY <1>1, <3>1, <3>2 DEF ValueOnDisk
    <3>4. x.idKey[k] # None
      BY <1>1, <1>7, StoreAssumption DEF Disk
    <3>. QED BY <2>1, <3>3, <3>4
  <2>2. CASE j # k
    <3>1. /\ x.data[j] = d.data[j] /\ x.timestamp[j] = d.timestamp[j]
          /\ x.headersKey[j] = d.headersKey[j] /\ x.idKey[j] = d.idKey[j]
      BY <1>1, <2>2 DEF SaveEntry, Disk
    <3>. QED BY <3>1 DEF Consistent, EntriesWhole, ValueOnDisk
  <2>. QED BY <2>1, <2>2
<1>10. x.idCounter = d.idCounter + 1 /\ x.maxEntries = d.maxEntries
  BY <1>1 DEF SaveEntry, Disk
<1>. QED BY <1>3, <1>4, <1>6, <1>8, <1>9, <1>10 DEF Consistent

LEMMA SurplusType ==
  ASSUME NEW d \in Disk
  PROVE  Surplus(d) \in Nat
BY DEF Surplus, Disk

LEMMA MadeRoomConsistent ==
  ASSUME NEW d, Consistent(d), NEW k \in Keys, NEW x \in MadeRoom(d, k)
  PROVE  /\ Consistent(x) /\ x.idKey[k] = None
         /\ x.idCounter = d.idCounter /\ x.maxEntries = d.maxEntries
<1>1. PICK y \in Evicted(d, Surplus(d)) : x = DeleteEntry(y, k)
  BY DEF MadeRoom
<1>2. Surplus(d) \in Nat
  BY SurplusType DEF Consistent
<1>. QED BY <1>1, <1>2, EvictedConsistent, DeleteEntryConsistent

LEMMA SavedConsistent ==
  ASSUME NEW d, Consistent(d), NEW k \in Keys, NEW v \in Values, NEW x \in Saved(d, k, v)
  PROVE  Consistent(x) /\ x.idCounter = d.idCounter + 1 /\ x.maxEntries = d.maxEntries
<1>1. PICK y \in MadeRoom(d, k) : x = SaveEntry(y, k, v)
  BY DEF Saved
<1>. QED BY <1>1, MadeRoomConsistent, SaveEntryConsistent

-----------------------------------------------------------------------------
(* Failed transactions and restarts.                                       *)

LEMMA RollBackConsistent ==
  ASSUME NEW d, Consistent(d), NEW x \in Disk, x.idCounter >= d.idCounter
  PROVE  Consistent(RollBack(d, x))
<1> DEFINE r == RollBack(d, x)
<1>1. d \in Disk /\ r \in Disk
  BY DEF Consistent, RollBack, Disk
<1>2. /\ r.idKey = d.idKey /\ r.data = d.data /\ r.timestamp = d.timestamp
      /\ r.headersKey = d.headersKey /\ r.index = d.index /\ r.idCounter = x.idCounter
  BY <1>1 DEF RollBack, Disk
<1>3. IndexMatches(r)
  <2>1. \A e \in d.index : e.id < x.idCounter
    <3>. TAKE e \in d.index
    <3>1. e.id \in Nat /\ d.idCounter \in Nat /\ x.idCounter \in Nat
      BY <1>1 DEF Disk, IndexEntry
    <3>2. e.id < d.idCounter
      BY DEF Consistent, IndexMatches
    <3>. QED BY <3>1, <3>2
  <2>. QED BY <1>2, <2>1 DEF Consistent, IndexMatches
<1>4. EntriesWhole(r)
  BY <1>2 DEF Consistent, EntriesWhole, ValueOnDisk
<1>. QED BY <1>1, <1>3, <1>4 DEF Consistent

LEMMA FailedConsistent ==
  ASSUME NEW d, Consistent(d), NEW R,
         \A y \in R : y \in Disk /\ y.idCounter >= d.idCounter,
         NEW x \in Failed(d, R)
  PROVE  Consistent(x)
<1>1. PICK y \in {d} \cup R : x = RollBack(d, y)
  BY DEF Failed
<1>2. y \in Disk /\ y.idCounter >= d.idCounter
  BY DEF Consistent, Disk
<1>. QED BY <1>1, <1>2, RollBackConsistent

LEMMA SaveFailedConsistent ==
  ASSUME NEW d, Consistent(d), NEW k \in Keys, NEW v \in Values,
         NEW x \in SaveFailed(d, k, v)
  PROVE  Consistent(x)
<1> DEFINE R == (UNION {Evicted(d, n) : n \in 0 .. Surplus(d)})
                  \cup MadeRoom(d, k) \cup Saved(d, k, v)
<1>1. d.idCounter \in Nat /\ Surplus(d) \in Nat
  BY SurplusType DEF Consistent, Disk
<1>2. ASSUME NEW y \in R PROVE y \in Disk /\ y.idCounter >= d.idCounter
  <2>1. CASE y \in UNION {Evicted(d, n) : n \in 0 .. Surplus(d)}
    <3>1. PICK n \in 0 .. Surplus(d) : y \in Evicted(d, n)
      BY <2>1
    <3>2. n \in Nat
      BY <1>1
    <3>. QED BY <1>1, <3>1, <3>2, EvictedConsistent DEF Consistent
  <2>2. CASE y \in MadeRoom(d, k)
    BY <1>1, <2>2, MadeRoomConsistent DEF Consistent
  <2>3. CASE y \in Saved(d, k, v)
    BY <1>1, <2>3, SavedConsistent DEF Consistent
  <2>4. \/ y \in UNION {Evicted(d, n) : n \in 0 .. Surplus(d)}
        \/ y \in MadeRoom(d, k) \/ y \in Saved(d, k, v)
    OBVIOUS
  <2> HIDE DEF R
  <2>. QED BY <2>1, <2>2, <2>3, <2>4
<1>3. x \in Failed(d, R)
  BY DEF SaveFailed
<1> HIDE DEF R
<1>. QED BY <1>2, <1>3, FailedConsistent

LEMMA RemoveFailedConsistent ==
  ASSUME NEW d, Consistent(d), NEW k \in Keys, NEW x \in RemoveFailed(d, k)
  PROVE  Consistent(x)
<1>1. d.idCounter \in Nat
  BY DEF Consistent, Disk
<1>2. \A y \in {DeleteEntry(d, k)} : y \in Disk /\ y.idCounter >= d.idCounter
  BY <1>1, DeleteEntryConsistent DEF Consistent
<1>. QED BY <1>2, FailedConsistent DEF RemoveFailed

LEMMA ReopenedConsistent ==
  ASSUME NEW d, Consistent(d), NEW limit \in Nat
  PROVE  Consistent(Reopened(d, limit)) /\ CountMatches(Reopened(d, limit))
<1> DEFINE r == Reopened(d, limit)
           ids == {e.id : e \in d.index}
<1>1. d \in Disk /\ IsFiniteSet(d.index) /\ d.index \subseteq IndexEntry
  BY DEF Consistent, Disk
<1>2. Cardinality(d.index) \in Nat
  BY <1>1, FS_CardinalityType
<1>3. ASSUME d.index # {}
      PROVE  Max(ids) \in Nat /\ \A e \in d.index : e.id <= Max(ids)
  <2>1. ids \subseteq Nat /\ ids # {} /\ d.idCounter \in Nat
    BY <1>1, <1>3 DEF IndexEntry, Disk
  <2>2. \A i \in ids : i < d.idCounter
    BY DEF Consistent, IndexMatches
  <2>3. Max(ids) \in ids /\ \A i \in ids : i <= Max(ids)
    BY <2>1, <2>2, MaxOfBounded
  <2>. QED BY <2>1, <2>3
<1>4. /\ r.idKey = d.idKey /\ r.data = d.data /\ r.timestamp = d.timestamp
      /\ r.headersKey = d.headersKey /\ r.index = d.index
      /\ r.idCounter = IF d.index = {} THEN 0 ELSE Max(ids) + 1
      /\ r.entryCount = Cardinality(d.index)
  BY <1>1 DEF Reopened, Disk
<1>5. r.idCounter \in Nat /\ \A e \in d.index : e.id < r.idCounter
  <2>1. \A e \in d.index : e.id \in Nat
    BY <1>1 DEF IndexEntry
  <2> HIDE DEF r, ids
  <2>. QED BY <1>3, <1>4, <2>1
<1>6. r \in Disk
  <2>1. r = [d EXCEPT !.idCounter = r.idCounter, !.entryCount = Cardinality(d.index),
                      !.maxEntries = limit]
    BY <1>1 DEF Reopened, Disk
  <2> HIDE DEF r
  <2>. QED BY <1>1, <1>2, <1>5, <2>1 DEF Disk
<1> HIDE DEF r
<1>7. IndexMatches(r)
  BY <1>4, <1>5 DEF Consistent, IndexMatches
<1>8. EntriesWhole(r)
  BY <1>4 DEF Consistent, EntriesWhole, ValueOnDisk
<1>. QED BY <1>4, <1>6, <1>7, <1>8 DEF Consistent, CountMatches, r

-----------------------------------------------------------------------------
(* Counting, when no transaction fails.                                    *)

LEMMA DeleteEntriesCount ==
  ASSUME NEW d, Consistent(d), CountMatches(d), NEW E \in SUBSET d.index
  PROVE  LET x == DeleteEntries(d, {e.key : e \in E})
         IN  /\ x.index = d.index \ E
             /\ CountMatches(x)
             /\ Cardinality(x.index) = Cardinality(d.index) - Cardinality(E)
<1> DEFINE S == {e.key : e \in E}
           x == DeleteEntries(d, S)
           f == [e \in E |-> e.key]
<1>1. d \in Disk /\ IsFiniteSet(d.index) /\ IsFiniteSet(E) /\ d.index \subseteq IndexEntry
  BY FS_Subset DEF Consistent, Disk
<1>2. \A e \in d.index : /\ e.id \in Nat /\ e.key \in Keys
                         /\ d.idKey[e.key] = e.id /\ d.idKey[e.key] # None
  BY <1>1, StoreAssumption DEF Consistent, IndexMatches, IndexEntry
<1>3. S \in SUBSET Keys /\ IsFiniteSet(S)
  BY <1>1, KeysOfEntries
<1>4. Cardinality(S) = Cardinality(E)
  <2>1. f \in Surjection(E, S)
    BY DEF Surjection
  <2>2. \A e, g \in E : e.key = g.key => e = g
    BY <1>2 DEF Consistent, IndexMatches
  <2>3. f \in Injection(E, S)
    BY <2>2 DEF Injection, IsInjective
  <2>. QED BY <1>1, <2>1, <2>3, FS_Surjection
<1>5. {k \in S : d.idKey[k] # None} = S
  BY <1>2
<1>6. x.index = d.index \ E
  <2>1. x.index = {e \in d.index : \A k \in S : e.id # d.idKey[k]}
    BY <1>1, <1>5 DEF DeleteEntries, Disk
  <2>2. ASSUME NEW e \in d.index PROVE e \in E <=> \E k \in S : e.id = d.idKey[k]
    <3>1. CASE e \in E
      BY <1>2, <3>1
    <3>2. ASSUME NEW k \in S, e.id = d.idKey[k] PROVE e \in E
      <4>1. PICK g \in E : k = g.key
        OBVIOUS
      <4>2. g.id = e.id
        BY <1>2, <3>2, <4>1
      <4>. QED BY <4>2 DEF Consistent, IndexMatches
    <3>. QED BY <3>1, <3>2
  <2> HIDE DEF x, S
  <2>. QED BY <2>1, <2>2
<1>7. Cardinality(x.index) = Cardinality(d.index) - Cardinality(E)
  <2>1. d.index \cap E = E
    OBVIOUS
  <2>. QED BY <1>1, <1>6, <2>1, FS_Difference
<1>8. /\ Cardinality(E) \in Nat /\ Cardinality(d.index) \in Nat
      /\ Cardinality(E) <= Cardinality(d.index)
  BY <1>1, FS_CardinalityType, FS_Subset
<1>9. x.entryCount = Cardinality(d.index) - Cardinality(E)
  <2>1. d.entryCount = Cardinality(d.index)
    BY DEF CountMatches
  <2>2. x.entryCount = IF Cardinality(S) <= d.entryCount
                       THEN d.entryCount - Cardinality(S) ELSE 0
    BY <1>1, <1>5 DEF DeleteEntries, Disk
  <2>. QED BY <1>4, <1>8, <2>1, <2>2
<1>. QED BY <1>6, <1>7, <1>9 DEF CountMatches

LEMMA DeleteEntryCount ==
  ASSUME NEW d, Consistent(d), CountMatches(d), NEW k \in Keys
  PROVE  /\ CountMatches(DeleteEntry(d, k))
         /\ DeleteEntry(d, k).index \subseteq d.index
         /\ Cardinality(DeleteEntry(d, k).index) <= Cardinality(d.index)
<1> DEFINE x == DeleteEntry(d, k)
<1>1. d \in Disk /\ IsFiniteSet(d.index) /\ Cardinality(d.index) \in Nat
  BY FS_CardinalityType DEF Consistent, Disk
<1>2. CASE d.idKey[k] = None
  <2>1. {j \in {k} : d.idKey[j] # None} = {} /\ Cardinality({}) = 0
    BY <1>2, FS_EmptySet
  <2>2. x.index = d.index
    <3>1. x.index = {e \in d.index : \A j \in {k} : d.idKey[j] # None => e.id # d.idKey[j]}
      BY <1>1, DeleteEntriesKeys DEF DeleteEntry
    <3> HIDE DEF x
    <3>. QED BY <1>2, <3>1
  <2>3. LET n == Cardinality({j \in {k} : d.idKey[j] # None})
        IN  x.entryCount = IF n <= d.entryCount THEN d.entryCount - n ELSE 0
    BY <1>1 DEF DeleteEntry, DeleteEntries, Disk
  <2>4. x.entryCount = d.entryCount
    BY <1>1, <2>1, <2>3 DEF CountMatches
  <2>. QED BY <1>1, <2>2, <2>4 DEF CountMatches
<1>3. CASE d.idKey[k] # None
  <2> DEFINE e == [id |-> d.idKey[k], key |-> k]
  <2>1. {e} \in SUBSET d.index
    BY <1>3 DEF Consistent, IndexMatches
  <2>2. {g.key : g \in {e}} = {k}
    OBVIOUS
  <2>3. Cardinality({e}) = 1
    BY FS_Singleton
  <2>4. /\ x.index = d.index \ {e} /\ CountMatches(x)
        /\ Cardinality(x.index) = Cardinality(d.index) - Cardinality({e})
    BY <2>1, <2>2, DeleteEntriesCount DEF DeleteEntry
  <2>. QED BY <1>1, <2>3, <2>4
<1>. QED BY <1>2, <1>3

LEMMA EvictedCount ==
  ASSUME NEW d, Consistent(d), CountMatches(d), NEW n \in Nat, NEW x \in Evicted(d, n)
  PROVE  /\ CountMatches(x)
         /\ Cardinality(x.index) = Cardinality(d.index) - n
<1>1. PICK E \in SUBSET d.index : /\ Cardinality(E) = n
                                  /\ x = DeleteEntries(d, {e.key : e \in E})
  BY DEF Evicted, Oldest, kSubset
<1>. QED BY <1>1, DeleteEntriesCount

LEMMA SavedCount ==
  ASSUME NEW d, Consistent(d), CountMatches(d), NEW k \in Keys, NEW v \in Values,
         NEW x \in Saved(d, k, v)
  PROVE  /\ CountMatches(x)
         /\ d.maxEntries # 0 => Cardinality(x.index) <= d.maxEntries
<1>1. PICK y \in Evicted(d, Surplus(d)) : x = SaveEntry(DeleteEntry(y, k), k, v)
  BY DEF Saved, MadeRoom
<1> DEFINE z == DeleteEntry(y, k)
<1>2. Surplus(d) \in Nat
  BY SurplusType DEF Consistent
<1>3. /\ Consistent(y) /\ CountMatches(y)
      /\ Cardinality(y.index) = Cardinality(d.index) - Surplus(d)
  BY <1>1, <1>2, EvictedConsistent, EvictedCount
<1>4. /\ Consistent(z) /\ CountMatches(z) /\ z.idKey[k] = None
      /\ Cardinality(z.index) <= Cardinality(y.index)
  BY <1>3, DeleteEntryCount, DeleteEntryConsistent
<1> DEFINE new == [id |-> z.idCounter, key |-> k]
<1>5. x.index = z.index \cup {new} /\ new \notin z.index
  <2> HIDE DEF z
  <2>. QED BY <1>1, <1>4, SaveEntryConsistent DEF z
<1>6. /\ IsFiniteSet(z.index) /\ Cardinality(z.index) \in Nat
      /\ z.entryCount = Cardinality(z.index) /\ z \in Disk
  BY <1>4, FS_CardinalityType DEF Consistent, CountMatches, Disk
<1>7. Cardinality(x.index) = Cardinality(z.index) + 1
  BY <1>5, <1>6, FS_AddElement
<1>8. x.entryCount = z.entryCount + 1
  BY <1>1, <1>6 DEF SaveEntry, Disk
<1>9. ASSUME d.maxEntries # 0 PROVE Cardinality(x.index) <= d.maxEntries
  <2>1. /\ Cardinality(d.index) \in Nat /\ d.maxEntries \in Nat
        /\ d.entryCount = Cardinality(d.index)
    BY FS_CardinalityType DEF Consistent, CountMatches, Disk
  <2>2. Cardinality(d.index) - Surplus(d) <= d.maxEntries - 1
    BY <1>9, <2>1 DEF Surplus
  <2>3. Cardinality(y.index) <= d.maxEntries - 1
    BY <1>3, <2>2
  <2>4. Cardinality(y.index) \in Nat
    BY <1>3, FS_CardinalityType DEF Consistent, Disk
  <2> HIDE DEF z
  <2>. QED BY <1>4, <1>6, <1>7, <2>1, <2>3, <2>4
<1>. QED BY <1>6, <1>7, <1>8, <1>9 DEF CountMatches

\* Deleting an entry that is there makes room for one.
LEMMA DeleteEntryMakesRoom ==
  ASSUME NEW d, Consistent(d), CountMatches(d), NEW k \in Keys, d.idKey[k] # None
  PROVE  Cardinality(DeleteEntry(d, k).index) = Cardinality(d.index) - 1
<1> DEFINE e == [id |-> d.idKey[k], key |-> k]
<1>1. {e} \in SUBSET d.index
  BY DEF Consistent, IndexMatches
<1>2. {g.key : g \in {e}} = {k} /\ Cardinality({e}) = 1
  BY FS_Singleton
<1>. QED BY <1>1, <1>2, DeleteEntriesCount DEF DeleteEntry

\* With room for one entry, a save evicts nothing.
LEMMA NoEviction ==
  ASSUME NEW d, d \in Disk, CountMatches(d), Cardinality(d.index) < d.maxEntries,
         NEW x \in Evicted(d, Surplus(d))
  PROVE  x = DeleteEntries(d, {})
<1>1. Surplus(d) = 0
  BY DEF Surplus, CountMatches, Disk
<1>2. PICK E \in SUBSET d.index : /\ Cardinality(E) = 0
                                  /\ x = DeleteEntries(d, {e.key : e \in E})
  BY <1>1 DEF Evicted, Oldest, kSubset
<1>3. E = {}
  BY <1>2, FS_Subset, FS_EmptySet DEF Disk
<1>. QED BY <1>2, <1>3

\* A save keeps the resource that is followed by few others: with m entries at
\* most, the m - 2 newest ones and the next one survive the evictions.
LEMMA SavedKeepsNewest ==
  ASSUME NEW d, Consistent(d), CountMatches(d), NEW i \in Keys, NEW v \in Values,
         NEW x \in Saved(d, i, v),
         NEW k \in Keys \ {i}, d.idKey[k] # None,
         Cardinality({f \in d.index : f.id > d.idKey[k]}) + 1 < d.maxEntries
  PROVE  /\ x.idKey[k] = d.idKey[k] /\ x.data[k] = d.data[k]
         /\ x.timestamp[k] = d.timestamp[k] /\ x.headersKey[k] = d.headersKey[k]
         /\ x.index \subseteq d.index \cup {[id |-> d.idCounter, key |-> i]}
<1> DEFINE n == Surplus(d)
           e == [id |-> d.idKey[k], key |-> k]
           G == {f \in d.index : f.id > d.idKey[k]}
<1>1. /\ d \in Disk /\ IsFiniteSet(d.index) /\ Cardinality(d.index) \in Nat
      /\ d.maxEntries \in Nat /\ d.entryCount = Cardinality(d.index) /\ n \in Nat
  BY SurplusType, FS_CardinalityType DEF Consistent, CountMatches, Disk
<1>2. e \in d.index
  BY DEF Consistent, IndexMatches
<1>3. IsFiniteSet(G) /\ Cardinality(G) \in Nat
  BY <1>1, FS_Subset, FS_CardinalityType
<1>4. PICK y \in Evicted(d, n) : x = SaveEntry(DeleteEntry(y, i), i, v)
  BY DEF Saved, MadeRoom
<1>5. PICK E \in Oldest(d, n) : y = DeleteEntries(d, {g.key : g \in E})
  BY <1>4 DEF Evicted
<1>6. /\ E \in SUBSET d.index /\ IsFiniteSet(E) /\ Cardinality(E) = n
      /\ \A g \in E, f \in d.index \ E : g.id < f.id
  BY <1>1, <1>5, FS_Subset DEF Oldest, kSubset
<1>7. e \notin E
  <2>. SUFFICES ASSUME e \in E PROVE FALSE
    OBVIOUS
  <2>1. d.index \ E \subseteq G
    <3>. SUFFICES ASSUME NEW f \in d.index \ E PROVE f \in G
      OBVIOUS
    <3>1. e.id < f.id /\ e.id \in Nat /\ f.id \in Nat
      BY <1>1, <1>2, <1>6 DEF Disk, IndexEntry
    <3>. QED BY <3>1
  <2>2. Cardinality(d.index \ E) = Cardinality(d.index) - n
    <3>1. d.index \cap E = E
      BY <1>6
    <3>2. Cardinality(d.index \ E) = Cardinality(d.index) - Cardinality(d.index \cap E)
      BY <1>1, FS_Difference
    <3>. QED BY <1>6, <3>1, <3>2
  <2>3. Cardinality(d.index \ E) <= Cardinality(G)
    BY <1>3, <2>1, FS_Subset
  <2>4. n # 0
    BY <1>6, FS_EmptySet
  <2>5. Cardinality(d.index) - n = d.maxEntries - 1
    BY <1>1, <2>4 DEF Surplus
  <2> HIDE DEF G, n
  <2>. QED BY <1>1, <1>3, <2>2, <2>3, <2>5 DEF G
<1>8. k \notin {g.key : g \in E}
  <2>. SUFFICES ASSUME NEW g \in E, g.key = k PROVE FALSE
    OBVIOUS
  <2>1. g \in IndexEntry /\ d.idKey[g.key] = g.id
    BY <1>1, <1>6 DEF Consistent, IndexMatches, Disk
  <2>. QED BY <1>7, <2>1 DEF IndexEntry
<1>9. /\ {g.key : g \in E} \in SUBSET Keys /\ IsFiniteSet({g.key : g \in E})
      /\ y \in Disk /\ Consistent(y)
  BY <1>1, <1>4, <1>6, KeysOfEntries, EvictedConsistent DEF Consistent
<1>10. /\ y.idKey[k] = d.idKey[k] /\ y.data[k] = d.data[k] /\ y.timestamp[k] = d.timestamp[k]
       /\ y.headersKey = d.headersKey /\ y.idCounter = d.idCounter /\ y.index \subseteq d.index
  <2>1. y.index = d.index \ E
    BY <1>5, <1>6, DeleteEntriesCount
  <2>2. y.headersKey = d.headersKey /\ y.idCounter = d.idCounter
    BY <1>1, <1>5, <1>9, DeleteEntriesType
  <2>. QED BY <1>1, <1>5, <1>8, <1>9, <2>1, <2>2, DeleteEntriesKeys
<1> DEFINE z == DeleteEntry(y, i)
<1>11. /\ z \in Disk /\ Consistent(z) /\ z.idKey[i] = None
       /\ z.idKey[k] = y.idKey[k] /\ z.data[k] = y.data[k] /\ z.timestamp[k] = y.timestamp[k]
       /\ z.headersKey = y.headersKey /\ z.idCounter = y.idCounter
  <2>1. {i} \in SUBSET Keys /\ IsFiniteSet({i}) /\ k \notin {i}
    BY FS_Singleton
  <2>. QED BY <1>9, <2>1, DeleteEntriesKeys, DeleteEntriesType, DeleteEntryConsistent
           DEF DeleteEntry
<1>12. z.index \subseteq y.index
  BY <1>9 DEF DeleteEntry, DeleteEntries, Disk
<1> HIDE DEF z
<1>13. x.index = z.index \cup {[id |-> z.idCounter, key |-> i]}
  BY <1>4, <1>11, SaveEntryConsistent DEF z
<1>14. /\ x.idKey[k] = z.idKey[k] /\ x.data[k] = z.data[k]
       /\ x.timestamp[k] = z.timestamp[k] /\ x.headersKey[k] = z.headersKey[k]
  BY <1>4, <1>11 DEF SaveEntry, Disk, z
<1>. QED BY <1>10, <1>11, <1>12, <1>13, <1>14

\* With an exact count and room for one entry, the eviction loop ends.
LEMMA LoopEndsWhenExact ==
  ASSUME NEW d, Consistent(d), CountMatches(d), d.maxEntries # 0
  PROVE  LoopEnds(d)
<1>1. /\ Cardinality(d.index) \in Nat /\ d.maxEntries \in Nat
      /\ d.entryCount = Cardinality(d.index)
  BY FS_CardinalityType DEF Consistent, CountMatches, Disk
<1>. QED BY <1>1 DEF LoopEnds, Surplus

LEMMA EmptyConsistent ==
  ASSUME NEW limit \in Nat
  PROVE  Consistent(EmptyDisk(limit)) /\ CountMatches(EmptyDisk(limit))
BY FS_EmptySet
   DEF Consistent, EmptyDisk, Disk, IndexMatches, EntriesWhole, CountMatches

\* What is read from a consistent database has the right type.
LEMMA ReplyType ==
  ASSUME NEW d, Consistent(d), NEW k \in Keys
  PROVE  /\ OnDisk(d, k) => ValueOnDisk(d, k) \in Values
         /\ d.timestamp[k] \in Times \cup {None}
BY DEF Consistent, EntriesWhole, OnDisk, Disk
=============================================================================
