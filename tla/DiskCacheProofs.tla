--------------------------- MODULE DiskCacheProofs ---------------------------
(***************************************************************************)
(* Theorems about the DiskCache, for every set of resources and limits.    *)
(***************************************************************************)
EXTENDS DiskCache, DiskStoreProofs, SequenceTheorems

\* The inductive invariant that holds whatever fails.
IInv == TypeOK /\ Consistent(disk)

LEMMA InitIInv == Init => IInv
<1>. SUFFICES ASSUME Init PROVE IInv
  OBVIOUS
<1>1. PICK limit \in Limits : disk = EmptyDisk(limit)
  BY DEF Init
<1>2. limit \in Nat
  BY DiskCacheAssumption
<1>. QED BY <1>1, <1>2, EmptyConsistent DEF Init, IInv, TypeOK, Consistent

LEMMA NextIInv == IInv /\ [Next]_vars => IInv'
<1>. SUFFICES ASSUME IInv, [Next]_vars PROVE IInv'
  OBVIOUS
<1>1. Consistent(disk) /\ hung \in BOOLEAN /\ reply \in Values \cup Times \cup {None}
  BY DEF IInv, TypeOK
<1>2. ASSUME NEW k \in Keys, NEW v \in Values, SaveResource(k, v) PROVE IInv'
  <2>1. Consistent(disk')
    BY <1>1, <1>2, SavedConsistent, SaveFailedConsistent DEF SaveResource
  <2>. QED BY <1>1, <1>2, <2>1 DEF SaveResource, IInv, TypeOK, Consistent
<1>3. CASE SaveResourceHangs
  BY <1>1, <1>3 DEF SaveResourceHangs, IInv, TypeOK, Consistent
<1>4. ASSUME NEW k \in Keys, Remove(k) PROVE IInv'
  <2>1. Consistent(disk')
    BY <1>1, <1>4, DeleteEntryConsistent, RemoveFailedConsistent DEF Remove
  <2>. QED BY <1>1, <1>4, <2>1 DEF Remove, IInv, TypeOK, Consistent
<1>5. ASSUME NEW k \in Keys, RemoveAndGet(k) PROVE IInv'
  <2>1. Consistent(disk')
    BY <1>1, <1>5, DeleteEntryConsistent, RemoveFailedConsistent DEF RemoveAndGet
  <2>2. reply' \in Values \cup {None}
    BY <1>1, <1>5, ReplyType DEF RemoveAndGet
  <2>. QED BY <1>1, <1>5, <2>1, <2>2 DEF RemoveAndGet, IInv, TypeOK, Consistent
<1>6. ASSUME NEW k \in Keys, RemoveAndGetMiss(k) PROVE IInv'
  BY <1>1, <1>6 DEF RemoveAndGetMiss, IInv, TypeOK, Consistent
<1>7. ASSUME NEW k \in Keys, GetLastModified(k) PROVE IInv'
  BY <1>1, <1>7, ReplyType DEF GetLastModified, IInv, TypeOK, Consistent
<1>8. ASSUME NEW limit \in Limits, Restart(limit) PROVE IInv'
  <2>1. limit \in Nat
    BY DiskCacheAssumption
  <2>2. Consistent(disk')
    BY <1>1, <1>8, <2>1, ReopenedConsistent DEF Restart
  <2>. QED BY <1>1, <1>8, <2>2 DEF Restart, IInv, TypeOK, Consistent
<1>9. CASE UNCHANGED vars
  BY <1>1, <1>9 DEF vars, IInv, TypeOK, Consistent, Disk, IndexMatches, EntriesWhole,
                    ValueOnDisk
<1>. QED BY <1>2, <1>3, <1>4, <1>5, <1>6, <1>7, <1>8, <1>9 DEF Next

\* The variables always have their types.
THEOREM TypeCorrect == Spec => []TypeOK
<1>1. IInv => TypeOK
  BY DEF IInv
<1>. QED BY <1>1, InitIInv, NextIInv, PTL DEF Spec

\* The id keys and the id index always describe the same entries, whatever
\* transactions fail and however often the process restarts.
THEOREM AlwaysBijective == Spec => []IndexBijective
<1>1. IInv => IndexBijective
  BY DEF IInv, Consistent, IndexBijective
<1>. QED BY <1>1, InitIInv, NextIInv, PTL DEF Spec

\* What is on disk was always saved as one resource.
THEOREM AlwaysReadBack == Spec => []ReadBack
<1>1. IInv => ReadBack
  BY DEF IInv, Consistent, ReadBack
<1>. QED BY <1>1, InitIInv, NextIInv, PTL DEF Spec

-----------------------------------------------------------------------------
(* When no transaction fails.                                              *)

\* The entry counter is exact, and the limit is a configured one.
CInv == /\ IInv
        /\ CountMatches(disk)
        /\ disk.maxEntries \in Limits

LEMMA InitCInv == Init => CInv
<1>. SUFFICES ASSUME Init PROVE CInv
  OBVIOUS
<1>1. PICK limit \in Limits : disk = EmptyDisk(limit)
  BY DEF Init
<1>2. limit \in Nat
  BY DiskCacheAssumption
<1>3. disk.maxEntries = limit
  BY <1>1 DEF EmptyDisk
<1>. QED BY <1>1, <1>2, <1>3, InitIInv, EmptyConsistent DEF CInv

LEMMA NextCInv ==
  ASSUME WriteFaults = FALSE
  PROVE  CInv /\ [Next]_vars => CInv'
<1>. SUFFICES ASSUME CInv, [Next]_vars PROVE CInv'
  OBVIOUS
<1>1. IInv' /\ Consistent(disk) /\ CountMatches(disk) /\ disk.maxEntries \in Limits
  BY NextIInv DEF CInv, IInv
<1>2. \A d, R : Failed(d, R) = {}
  BY DEF Failed
<1>3. ASSUME NEW k \in Keys, NEW v \in Values, SaveResource(k, v) PROVE CInv'
  <2>1. disk' \in Saved(disk, k, v)
    BY <1>2, <1>3 DEF SaveResource, SaveFailed
  <2>. QED BY <1>1, <2>1, SavedCount, SavedConsistent DEF CInv
<1>4. ASSUME NEW k \in Keys, disk' \in {DeleteEntry(disk, k)} \cup RemoveFailed(disk, k)
      PROVE CInv'
  <2>1. disk' = DeleteEntry(disk, k)
    BY <1>2, <1>4 DEF RemoveFailed
  <2>. QED BY <1>1, <2>1, DeleteEntryCount, DeleteEntryConsistent DEF CInv
<1>5. ASSUME NEW k \in Keys, RemoveAndGet(k) PROVE CInv'
  BY <1>4, <1>5 DEF RemoveAndGet
<1>6. ASSUME NEW limit \in Limits, Restart(limit) PROVE CInv'
  <2>1. limit \in Nat /\ disk \in Disk
    BY <1>1, DiskCacheAssumption DEF Consistent
  <2>2. disk' = Reopened(disk, limit) /\ disk'.maxEntries = limit
    BY <1>6, <2>1 DEF Restart, Reopened, Disk
  <2>. QED BY <1>1, <2>1, <2>2, ReopenedConsistent DEF CInv
<1>7. CASE disk' = disk
  BY <1>1, <1>7 DEF CInv, CountMatches
<1>. QED
  BY <1>3, <1>4, <1>5, <1>6, <1>7
     DEF Next, vars, SaveResourceHangs, Remove, RemoveAndGetMiss, GetLastModified

\* Without failures the counter kept in memory is the number of entries on disk.
THEOREM CountIsExact ==
  ASSUME WriteFaults = FALSE
  PROVE  Spec => []CountExact
<1>1. CInv => CountExact
  BY DEF CInv, CountExact
<1>. QED BY <1>1, InitCInv, NextCInv, PTL DEF Spec

\* Without failures, and with a positive limit, the eviction loop of
\* SaveResource always ends.
THEOREM NeverHangs ==
  ASSUME WriteFaults = FALSE, 0 \notin Limits
  PROVE  Spec => []NeverHung
<1>1. Init => CInv /\ NeverHung
  BY InitCInv DEF Init, NeverHung
<1>2. (CInv /\ NeverHung) /\ [Next]_vars => (CInv /\ NeverHung)'
  <2>. SUFFICES ASSUME CInv, NeverHung, [Next]_vars PROVE (CInv /\ NeverHung)'
    OBVIOUS
  <2>1. LoopEnds(disk)
    BY LoopEndsWhenExact DEF CInv, IInv
  <2>2. CInv'
    BY NextCInv
  <2>3. NeverHung'
    BY <2>1 DEF NeverHung, Next, vars, SaveResource, SaveResourceHangs, Remove,
                RemoveAndGet, RemoveAndGetMiss, GetLastModified, Restart
  <2>. QED BY <2>2, <2>3
<1>. QED BY <1>1, <1>2, PTL DEF Spec

\* Without failures, and with a positive limit, a step that adds an entry leaves
\* no more entries than the limit.
THEOREM SavesStayWithinLimit ==
  ASSUME WriteFaults = FALSE, 0 \notin Limits
  PROVE  Spec => SaveWithinLimit
<1>1. CInv /\ [Next]_vars =>
        [ ~(disk'.index \subseteq disk.index)
            => Cardinality(disk'.index) <= disk.maxEntries ]_vars
  <2>. SUFFICES ASSUME CInv, [Next]_vars, ~(disk'.index \subseteq disk.index)
       PROVE Cardinality(disk'.index) <= disk.maxEntries
    OBVIOUS
  <2>1. Consistent(disk) /\ CountMatches(disk) /\ disk.maxEntries # 0
    BY DEF CInv, IInv
  <2>2. \A d, R : Failed(d, R) = {}
    BY DEF Failed
  <2>3. ASSUME NEW k \in Keys, NEW v \in Values, SaveResource(k, v)
        PROVE Cardinality(disk'.index) <= disk.maxEntries
    <3>1. disk' \in Saved(disk, k, v)
      BY <2>2, <2>3 DEF SaveResource, SaveFailed
    <3>. QED BY <2>1, <3>1, SavedCount
  <2>4. ASSUME NEW k \in Keys, disk' \in {DeleteEntry(disk, k)} \cup RemoveFailed(disk, k)
        PROVE FALSE
    <3>1. disk' = DeleteEntry(disk, k)
      BY <2>2, <2>4 DEF RemoveFailed
    <3>. QED BY <2>1, <3>1, DeleteEntryCount
  <2>5. ASSUME NEW limit \in Limits, Restart(limit) PROVE FALSE
    <3>1. disk'.index = disk.index
      BY <2>1, <2>5 DEF Restart, Reopened, Consistent, Disk
    <3>. QED BY <3>1
  <2>. QED
    BY <2>3, <2>4, <2>5
       DEF Next, vars, SaveResourceHangs, Remove, RemoveAndGet, RemoveAndGetMiss,
           GetLastModified
<1>. QED BY <1>1, InitCInv, NextCInv, PTL DEF Spec, SaveWithinLimit

-----------------------------------------------------------------------------
(* The order of the entries by their ids.                                  *)

\* s lists the entries of I by their ids.
Lists(s, m, I) ==
  /\ m \in Nat /\ s \in [1 .. m -> I]
  /\ \A i, j \in 1 .. m : i < j => s[i].id < s[j].id
  /\ \A e \in I : \E i \in 1 .. m : s[i] = e

Lower(I, e) == {f \in I : f.id <= e.id}

\* The number of entries up to e tells where e is in the order.
LEMMA RankIsPosition ==
  ASSUME NEW I, IsFiniteSet(I), \A e \in I : e.id \in Nat,
         \A e, f \in I : e.id = f.id => e = f
  PROVE  /\ \A e \in I : Cardinality(Lower(I, e)) \in 1 .. Cardinality(I)
         /\ \A e, f \in I : e.id < f.id => Cardinality(Lower(I, e)) < Cardinality(Lower(I, f))
         /\ \A i \in 1 .. Cardinality(I) : \E e \in I : Cardinality(Lower(I, e)) = i
<1> DEFINE n == Cardinality(I)
           rank == [e \in I |-> Cardinality(Lower(I, e))]
<1>1. n \in Nat
  BY FS_CardinalityType
<1>2. \A e \in I : /\ Lower(I, e) \in SUBSET I /\ e \in Lower(I, e)
                   /\ IsFiniteSet(Lower(I, e)) /\ Cardinality(Lower(I, e)) \in Nat
  <2>. TAKE e \in I
  <2>1. Lower(I, e) \in SUBSET I /\ e \in Lower(I, e)
    BY DEF Lower
  <2>. QED BY <2>1, FS_Subset, FS_CardinalityType
<1>3. ASSUME NEW e \in I PROVE Cardinality(Lower(I, e)) \in 1 .. n
  <2>1. Cardinality(Lower(I, e)) # 0
    BY <1>2, FS_EmptySet
  <2>2. Cardinality(Lower(I, e)) <= n
    BY <1>2, FS_Subset
  <2>. QED BY <1>1, <1>2, <2>1, <2>2
<1>4. ASSUME NEW e \in I, NEW f \in I, e.id < f.id
      PROVE  Cardinality(Lower(I, e)) < Cardinality(Lower(I, f))
  <2>1. Lower(I, e) \in SUBSET Lower(I, f)
    BY <1>4 DEF Lower
  <2>2. f \in Lower(I, f) /\ f \notin Lower(I, e)
    BY <1>4 DEF Lower
  <2>3. /\ Cardinality(Lower(I, e)) <= Cardinality(Lower(I, f))
        /\ Cardinality(Lower(I, e)) # Cardinality(Lower(I, f))
    BY <1>2, <2>1, <2>2, FS_Subset
  <2>. QED BY <1>2, <2>3
<1>5. rank \in Injection(I, 1 .. n)
  <2>1. rank \in [I -> 1 .. n]
    BY <1>3
  <2>2. ASSUME NEW e \in I, NEW f \in I, rank[e] = rank[f] PROVE e = f
    <3>1. ~(e.id < f.id) /\ ~(f.id < e.id)
      BY <1>2, <1>4, <2>2
    <3>. QED BY <3>1
  <2> HIDE DEF rank
  <2>. QED BY <2>1, <2>2 DEF Injection, IsInjective
<1>6. rank \in Surjection(I, 1 .. n)
  <2>1. IsFiniteSet(1 .. n) /\ Cardinality(1 .. n) = n
    BY <1>1, FS_Interval
  <2> HIDE DEF rank
  <2>. QED BY <1>5, <2>1, FS_Injection
<1>7. \A i \in 1 .. n : \E e \in I : rank[e] = i
  <2> HIDE DEF rank
  <2>. QED BY <1>6 DEF Surjection
<1>. QED BY <1>3, <1>4, <1>7

\* ByAge lists the entries, and nothing else does.
LEMMA ByAgeLists ==
  ASSUME NEW I, IsFiniteSet(I), \A e \in I : e.id \in Nat,
         \A e, f \in I : e.id = f.id => e = f
  PROVE  Lists(ByAge(I), Cardinality(I), I)
<1> DEFINE n == Cardinality(I)
           s == ByAge(I)
<1>1. n \in Nat
  BY FS_CardinalityType
<1>2. s = [i \in 1 .. n |-> CHOOSE e \in I : Cardinality(Lower(I, e)) = i]
  BY DEF ByAge, Lower
<1>3. \A i \in 1 .. n : s[i] \in I /\ Cardinality(Lower(I, s[i])) = i
  <2>. TAKE i \in 1 .. n
  <2>1. \E e \in I : Cardinality(Lower(I, e)) = i
    BY RankIsPosition
  <2>2. s[i] = CHOOSE e \in I : Cardinality(Lower(I, e)) = i
    BY <1>2
  <2>. QED BY <2>1, <2>2
<1> HIDE DEF s, n
<1>4. s \in [1 .. n -> I]
  BY <1>2, <1>3
<1>5. ASSUME NEW i \in 1 .. n, NEW j \in 1 .. n, i < j PROVE s[i].id < s[j].id
  <2>1. s[i].id \in Nat /\ s[j].id \in Nat /\ s[i] \in I /\ s[j] \in I
    BY <1>3
  <2>2. s[j] # s[i]
    BY <1>3, <1>5
  <2>3. s[j].id # s[i].id
    BY <2>1, <2>2
  <2>4. ~(s[j].id < s[i].id)
    <3>. SUFFICES ASSUME s[j].id < s[i].id PROVE FALSE
      OBVIOUS
    <3>1. Cardinality(Lower(I, s[j])) < Cardinality(Lower(I, s[i]))
      BY <2>1, RankIsPosition
    <3>2. j < i
      BY <1>3, <3>1
    <3>. QED BY <1>1, <1>5, <3>2
  <2>. QED BY <2>1, <2>3, <2>4
<1>6. ASSUME NEW e \in I PROVE \E i \in 1 .. n : s[i] = e
  <2> DEFINE i == Cardinality(Lower(I, e))
  <2>1. i \in 1 .. n
    BY RankIsPosition DEF n
  <2>2. s[i] \in I /\ Cardinality(Lower(I, s[i])) = Cardinality(Lower(I, e))
    BY <1>3, <2>1
  <2> HIDE DEF i
  <2>3. ~(s[i].id < e.id) /\ ~(e.id < s[i].id)
    <3>1. /\ Cardinality(Lower(I, e)) \in 1 .. n
      BY RankIsPosition DEF n
    <3>2. s[i].id < e.id => Cardinality(Lower(I, s[i])) < Cardinality(Lower(I, e))
      BY <2>2, RankIsPosition
    <3>3. e.id < s[i].id => Cardinality(Lower(I, e)) < Cardinality(Lower(I, s[i]))
      BY <2>2, RankIsPosition
    <3>. QED BY <1>1, <2>2, <3>1, <3>2, <3>3
  <2>. QED BY <2>1, <2>2, <2>3
<1>. QED BY <1>1, <1>4, <1>5, <1>6 DEF Lists, s, n

LEMMA OnlyByAgeLists ==
  ASSUME NEW I, \A e \in I : e.id \in Nat, NEW s, NEW m, Lists(s, m, I)
  PROVE  m = Cardinality(I) /\ s = ByAge(I)
<1>1. /\ m \in Nat /\ s \in [1 .. m -> I]
      /\ \A i, j \in 1 .. m : i < j => s[i].id < s[j].id
      /\ \A e \in I : \E i \in 1 .. m : s[i] = e
  BY DEF Lists
<1>2. \A i \in 1 .. m : s[i] \in I /\ s[i].id \in Nat
  BY <1>1
<1>3. \A i, j \in 1 .. m : s[i].id <= s[j].id => i <= j
  <2>. TAKE i \in 1 .. m, j \in 1 .. m
  <2>. HAVE s[i].id <= s[j].id
  <2>1. ~(j < i)
    BY <1>1, <1>2
  <2>. QED BY <1>1, <2>1
<1>4. \A i, j \in 1 .. m : i <= j => s[i].id <= s[j].id
  <2>. TAKE i \in 1 .. m, j \in 1 .. m
  <2>. HAVE i <= j
  <2>. QED BY <1>1, <1>2
<1>5. Cardinality(I) = m
  <2>1. s \in Bijection(1 .. m, I)
    <3>1. \A i, j \in 1 .. m : s[i] = s[j] => i = j
      BY <1>1, <1>2, <1>3
    <3>. QED BY <1>1, <3>1 DEF Bijection, Injection, IsInjective, Surjection
  <2>2. IsFiniteSet(1 .. m) /\ Cardinality(1 .. m) = m
    BY <1>1, FS_Interval
  <2>. QED BY <2>1, <2>2, FS_Bijection DEF ExistsBijection
<1>6. \A i \in 1 .. m : Cardinality(Lower(I, s[i])) = i
  <2>. TAKE i \in 1 .. m
  <2> DEFINE g == [j \in 1 .. i |-> s[j]]
  <2>1. \A j \in 1 .. i : j \in 1 .. m
    BY <1>1
  <2>2. g \in [1 .. i -> Lower(I, s[i])]
    BY <1>2, <1>4, <2>1 DEF Lower
  <2>3. \A j, k \in 1 .. i : g[j] = g[k] => j = k
    BY <1>1, <1>2, <1>3, <2>1
  <2>4. ASSUME NEW e \in Lower(I, s[i]) PROVE \E j \in 1 .. i : g[j] = e
    <3>1. PICK j \in 1 .. m : s[j] = e
      BY <1>1 DEF Lower
    <3>2. s[j].id <= s[i].id
      BY <3>1 DEF Lower
    <3>3. j \in 1 .. i
      BY <1>1, <1>3, <3>2
    <3>. QED BY <3>1, <3>3
  <2>5. g \in Bijection(1 .. i, Lower(I, s[i]))
    <3> HIDE DEF g
    <3>. QED BY <2>2, <2>3, <2>4 DEF Bijection, Injection, IsInjective, Surjection
  <2>6. IsFiniteSet(1 .. i) /\ Cardinality(1 .. i) = i
    BY <1>1, FS_Interval
  <2> HIDE DEF g
  <2>. QED BY <2>5, <2>6, FS_Bijection DEF ExistsBijection
<1>7. \A i \in 1 .. m : s[i] = CHOOSE e \in I : Cardinality(Lower(I, e)) = i
  <2>. TAKE i \in 1 .. m
  <2>1. ASSUME NEW e \in I, Cardinality(Lower(I, e)) = i PROVE e = s[i]
    <3>1. PICK j \in 1 .. m : s[j] = e
      BY <1>1
    <3>. QED BY <1>6, <2>1, <3>1
  <2>. QED BY <1>2, <1>6, <2>1
<1>8. s = [i \in 1 .. m |-> CHOOSE e \in I : Cardinality(Lower(I, e)) = i]
  BY <1>1, <1>7
<1>. QED BY <1>5, <1>8 DEF ByAge, Lower

-----------------------------------------------------------------------------
(* The queue of a consistent database, and what the operations make of it. *)

Item(d, e) == [key |-> e.key, value |-> ValueOnDisk(d, e.key)]
Items == [key : Keys, value : Values]

LEMMA IndexFacts ==
  ASSUME NEW d, Consistent(d)
  PROVE  /\ IsFiniteSet(d.index) /\ d.index \subseteq IndexEntry
         /\ \A e \in d.index : e.id \in Nat /\ e.key \in Keys /\ ValueOnDisk(d, e.key) \in Values
                               /\ d.idKey[e.key] = e.id /\ d.idKey[e.key] # None
         /\ \A e, f \in d.index : e.id = f.id \/ e.key = f.key => e = f
<1>1. IsFiniteSet(d.index) /\ d.index \subseteq IndexEntry
  BY DEF Consistent, Disk
<1>2. ASSUME NEW e \in d.index
      PROVE  /\ e.id \in Nat /\ e.key \in Keys
             /\ d.idKey[e.key] = e.id /\ d.idKey[e.key] # None
  BY <1>1, StoreAssumption DEF Consistent, IndexMatches, IndexEntry
<1>3. \A e \in d.index : ValueOnDisk(d, e.key) \in Values
  BY <1>2 DEF Consistent, EntriesWhole
<1>4. \A e, f \in d.index : e.id = f.id => e = f
  BY DEF Consistent, IndexMatches
<1>5. \A e, f \in d.index : e.key = f.key => e = f
  BY <1>2, <1>4
<1>. QED BY <1>1, <1>2, <1>3, <1>4, <1>5

\* Any list of the entries by their ids gives the queue.
LEMMA QueueIsListed ==
  ASSUME NEW d, Consistent(d), NEW s, NEW m, Lists(s, m, d.index)
  PROVE  /\ m \in Nat /\ m = Cardinality(d.index)
         /\ QueueOf(d) = [n \in 1 .. m |-> Item(d, s[n])]
         /\ QueueOf(d) \in Seq(Items) /\ Len(QueueOf(d)) = m
<1>1. m = Cardinality(d.index) /\ s = ByAge(d.index)
  BY IndexFacts, OnlyByAgeLists
<1>2. m \in Nat /\ s \in [1 .. m -> d.index]
  BY DEF Lists
<1>3. QueueOf(d) = [n \in 1 .. m |-> Item(d, s[n])]
  BY <1>1 DEF QueueOf, Item
<1>4. \A n \in 1 .. m : Item(d, s[n]) \in Items
  BY <1>2, IndexFacts DEF Item, Items
<1>5. QueueOf(d) \in [1 .. m -> Items]
  BY <1>3, <1>4
<1>6. QueueOf(d) \in Seq(Items)
  BY <1>2, <1>5, SeqDef
<1>7. Len(QueueOf(d)) = m
  BY <1>2, <1>5, <1>6, LenProperties
<1>. QED BY <1>1, <1>2, <1>3, <1>6, <1>7

LEMMA QueueFacts ==
  ASSUME NEW d, Consistent(d)
  PROVE  LET s == ByAge(d.index)
             m == Cardinality(d.index)
         IN  /\ m \in Nat /\ Lists(s, m, d.index)
             /\ QueueOf(d) = [n \in 1 .. m |-> Item(d, s[n])]
             /\ QueueOf(d) \in Seq(Items) /\ Len(QueueOf(d)) = m
<1> DEFINE s == ByAge(d.index)
           m == Cardinality(d.index)
<1>1. Lists(s, m, d.index)
  BY IndexFacts, ByAgeLists
<1> HIDE DEF s, m
<1>2. /\ m \in Nat /\ m = Cardinality(d.index)
      /\ QueueOf(d) = [n \in 1 .. m |-> Item(d, s[n])]
      /\ QueueOf(d) \in Seq(Items) /\ Len(QueueOf(d)) = m
  BY <1>1, QueueIsListed, Zenon
<1>. QED BY <1>1, <1>2 DEF s, m

\* Two queues are the same when they list the same items.
LEMMA SameQueue ==
  ASSUME NEW d, Consistent(d), NEW s, NEW m, Lists(s, m, d.index),
         NEW q \in Seq(Items), Len(q) = m, \A n \in 1 .. m : q[n] = Item(d, s[n])
  PROVE  QueueOf(d) = q
<1>1. QueueOf(d) \in Seq(Items) /\ Len(QueueOf(d)) = m
  BY QueueIsListed
<1>2. \A n \in 1 .. m : QueueOf(d)[n] = Item(d, s[n])
  BY QueueIsListed
<1>. QED BY <1>1, <1>2, SeqEqual

\* What is deleted does not change the rest.
LEMMA OthersStay ==
  ASSUME NEW d \in Disk, NEW S \in SUBSET Keys, NEW k \in Keys,
         k \notin S \/ d.idKey[k] = None
  PROVE  ValueOnDisk(DeleteEntries(d, S), k) = ValueOnDisk(d, k)
<1>1. LET x == DeleteEntries(d, S)
      IN  x.data[k] = d.data[k] /\ x.timestamp[k] = d.timestamp[k] /\ x.headersKey = d.headersKey
  BY DeleteEntriesKeys
<1>. QED BY <1>1 DEF ValueOnDisk

\* The entries that an eviction takes are the first ones of the queue.
LEMMA OldestAreFirst ==
  ASSUME NEW d, Consistent(d), NEW n \in Nat, NEW E \in Oldest(d, n),
         NEW s, NEW m, Lists(s, m, d.index)
  PROVE  n <= m /\ \A i \in 1 .. m : s[i] \in E <=> i <= n
<1>1. /\ E \in SUBSET d.index /\ Cardinality(E) = n
      /\ \A e \in E, f \in d.index \ E : e.id < f.id
  BY DEF Oldest, kSubset
<1>2. /\ m \in Nat /\ s \in [1 .. m -> d.index]
      /\ \A i, j \in 1 .. m : i < j => s[i].id < s[j].id
      /\ \A e \in d.index : \E i \in 1 .. m : s[i] = e
  BY DEF Lists
<1>3. m = Cardinality(d.index) /\ IsFiniteSet(d.index) /\ IsFiniteSet(E)
  BY <1>1, IndexFacts, QueueIsListed, FS_Subset
<1>4. n <= m
  BY <1>1, <1>3, FS_Subset
<1>5. \A i, j \in 1 .. m : i < j /\ s[j] \in E => s[i] \in E
  <2>. TAKE i \in 1 .. m, j \in 1 .. m
  <2>. SUFFICES ASSUME i < j, s[j] \in E, s[i] \notin E PROVE FALSE
    OBVIOUS
  <2>1. s[j].id < s[i].id /\ s[i].id < s[j].id
    BY <1>1, <1>2
  <2>2. s[i].id \in Nat /\ s[j].id \in Nat
    BY <1>2, IndexFacts
  <2>. QED BY <2>1, <2>2
<1> DEFINE P == {i \in 1 .. m : s[i] \in E}
           g == [i \in P |-> s[i]]
<1>6. Cardinality(P) = n /\ IsFiniteSet(P)
  <2>1. IsFiniteSet(P)
    <3>1. P \in SUBSET (1 .. m) /\ IsFiniteSet(1 .. m)
      BY <1>2, FS_Interval
    <3>. QED BY <3>1, FS_Subset
  <2>2. \A i, j \in P : s[i] = s[j] => i = j
    <3>. TAKE i \in P, j \in P
    <3>. HAVE s[i] = s[j]
    <3>1. s[i].id \in Nat /\ s[j].id \in Nat
      BY <1>2, IndexFacts
    <3>2. ~(i < j) /\ ~(j < i)
      BY <1>2, <3>1
    <3>. QED BY <1>2, <3>2
  <2>3. \A e \in E : \E i \in P : s[i] = e
    BY <1>1, <1>2
  <2>4. g \in Bijection(P, E)
    BY <2>2, <2>3 DEF Bijection, Injection, IsInjective, Surjection
  <2> HIDE DEF P, g
  <2>. QED BY <1>1, <2>1, <2>4, FS_Bijection DEF ExistsBijection
<1>7. \A i \in 1 .. m : s[i] \in E => i <= n
  <2>. TAKE i \in 1 .. m
  <2>. HAVE s[i] \in E
  <2>1. 1 .. i \in SUBSET P
    <3>. SUFFICES ASSUME NEW j \in 1 .. i PROVE j \in P
      OBVIOUS
    <3>1. j \in 1 .. m /\ (j < i \/ j = i)
      BY <1>2
    <3>. QED BY <1>5, <3>1
  <2>2. Cardinality(1 .. i) = i
    BY <1>2, FS_Interval
  <2> HIDE DEF P
  <2>. QED BY <1>6, <2>1, <2>2, FS_Subset
<1>8. \A i \in 1 .. m : i <= n => s[i] \in E
  <2>. TAKE i \in 1 .. m
  <2>. HAVE i <= n
  <2>. SUFFICES ASSUME s[i] \notin E PROVE FALSE
    OBVIOUS
  <2>1. P \in SUBSET (1 .. i - 1)
    <3>. SUFFICES ASSUME NEW j \in P PROVE j \in 1 .. i - 1
      OBVIOUS
    <3>1. j \in 1 .. m /\ s[j] \in E /\ ~(i < j) /\ i # j
      BY <1>5
    <3>. QED BY <1>2, <3>1
  <2>2. IsFiniteSet(1 .. i - 1) /\ Cardinality(1 .. i - 1) = i - 1
    <3>1. i - 1 \in Int /\ i - 1 >= 0 /\ i \in Int
      BY <1>2
    <3>2. i - 1 \in Int /\ (1 > i - 1 <=> i - 1 = 0)
      BY <3>1
    <3>. QED BY <3>1, <3>2, FS_Interval
  <2>3. Cardinality(P) <= i - 1
    <3> HIDE DEF P
    <3>1. Cardinality(P) <= Cardinality(1 .. i - 1)
      BY <2>1, <2>2, FS_Subset
    <3>. QED BY <2>2, <3>1
  <2> HIDE DEF P
  <2>. QED BY <1>2, <1>6, <2>3
<1>. QED BY <1>4, <1>7, <1>8

LEMMA EvictedIsNewest ==
  ASSUME NEW d, Consistent(d), CountMatches(d), NEW n \in Nat, NEW x \in Evicted(d, n)
  PROVE  LET q == QueueOf(d)
         IN  n <= Len(q) /\ QueueOf(x) = SubSeq(q, n + 1, Len(q))
<1> DEFINE q == QueueOf(d)
           s == ByAge(d.index)
           m == Cardinality(d.index)
           t == [i \in 1 .. m - n |-> s[i + n]]
<1>1. PICK E \in Oldest(d, n) : x = DeleteEntries(d, {e.key : e \in E})
  BY DEF Evicted
<1>2. /\ m \in Nat /\ Lists(s, m, d.index)
      /\ q = [i \in 1 .. m |-> Item(d, s[i])] /\ q \in Seq(Items) /\ Len(q) = m
  BY QueueFacts
<1>3. /\ s \in [1 .. m -> d.index]
      /\ \A i, j \in 1 .. m : i < j => s[i].id < s[j].id
      /\ \A e \in d.index : \E i \in 1 .. m : s[i] = e
  BY <1>2 DEF Lists
<1> HIDE DEF q, s, m
<1>4. n <= m /\ \A i \in 1 .. m : s[i] \in E <=> i <= n
  BY <1>1, <1>2, OldestAreFirst
<1>5. E \in SUBSET d.index
  BY DEF Oldest, kSubset
<1>6. Consistent(x) /\ x.index = d.index \ E
  BY <1>1, <1>5, EvictedConsistent, DeleteEntriesCount
<1>7. \A i \in 1 .. m - n : /\ i + n \in 1 .. m /\ i + n > n
                            /\ t[i] = s[i + n] /\ s[i + n] \in d.index \ E
  BY <1>2, <1>3, <1>4
<1>8. Lists(t, m - n, x.index)
  <2>1. m - n \in Nat
    BY <1>2, <1>4
  <2>2. t \in [1 .. m - n -> x.index]
    BY <1>6, <1>7
  <2>3. ASSUME NEW i \in 1 .. m - n, NEW j \in 1 .. m - n, i < j PROVE t[i].id < t[j].id
    <3>1. i + n < j + n
      BY <2>1, <2>3
    <3>. QED BY <1>3, <1>7, <3>1
  <2>4. ASSUME NEW e \in x.index PROVE \E i \in 1 .. m - n : t[i] = e
    <3>1. PICK j \in 1 .. m : s[j] = e
      BY <1>3, <1>6
    <3>2. n < j
      BY <1>2, <1>4, <1>6, <3>1
    <3>3. j - n \in 1 .. m - n /\ (j - n) + n = j
      BY <1>2, <3>2
    <3>. QED BY <1>7, <3>1, <3>3
  <2> HIDE DEF t
  <2>. QED BY <2>1, <2>2, <2>3, <2>4 DEF Lists
<1>9. \A e \in x.index : Item(x, e) = Item(d, e)
  <2>. TAKE e \in x.index
  <2>1. e.key \in Keys /\ e.key \notin {f.key : f \in E}
    BY <1>5, <1>6, IndexFacts
  <2>2. {f.key : f \in E} \in SUBSET Keys /\ d \in Disk
    BY <1>5, KeysOfEntries DEF Consistent
  <2>. QED BY <1>1, <2>1, <2>2, OthersStay DEF Item
<1> DEFINE r == SubSeq(q, n + 1, m)
<1>10. /\ r \in Seq(Items) /\ Len(r) = m - n
       /\ \A i \in 1 .. m - n : r[i] = Item(x, t[i])
  <2>1. \A i \in n + 1 .. m : q[i] \in Items
    <3>1. \A i \in 1 .. m : q[i] \in Items
      BY <1>2, ElementOfSeq
    <3>. QED BY <1>2, <3>1
  <2>2. n + 1 \in Int /\ m \in Int /\ m - (n + 1) + 1 = m - n
    BY <1>2
  <2>3. /\ r \in Seq(Items)
        /\ Len(r) = IF n + 1 <= m THEN m - (n + 1) + 1 ELSE 0
        /\ \A i \in 1 .. m - (n + 1) + 1 : r[i] = q[(n + 1) + i - 1]
    BY <2>1, <2>2, SubSeqProperties
  <2>4. Len(r) = m - n
    BY <1>2, <1>4, <2>3
  <2>5. \A i \in 1 .. m - n : r[i] = q[i + n]
    <3>. TAKE i \in 1 .. m - n
    <3>1. i \in Int /\ (n + 1) + i - 1 = i + n
      BY <1>2
    <3>. QED BY <2>2, <2>3, <3>1
  <2>6. \A i \in 1 .. m - n : q[i + n] = Item(d, s[i + n]) /\ t[i] \in x.index
    BY <1>2, <1>6, <1>7
  <2> HIDE DEF r, t
  <2>. QED BY <1>7, <1>9, <2>3, <2>4, <2>5, <2>6
<1> HIDE DEF r, t
<1>11. QueueOf(x) = r
  BY <1>6, <1>8, <1>10, SameQueue
<1>. QED BY <1>2, <1>4, <1>11 DEF q, r

LEMMA RemovedAt ==
  ASSUME NEW S, NEW q \in Seq(S), NEW p \in 1 .. Len(q)
  PROVE  LET r == Fifo!RemoveAt(q, p)
         IN  /\ r \in Seq(S) /\ Len(r) = Len(q) - 1
             /\ \A i \in 1 .. Len(q) - 1 : r[i] = IF i < p THEN q[i] ELSE q[i + 1]
<1> DEFINE a == SubSeq(q, 1, p - 1)
           b == SubSeq(q, p + 1, Len(q))
           n == Len(q)
<1>1. n \in Nat /\ p \in Int /\ 1 <= p /\ p <= n
  BY LenProperties
<1>2. \A i \in 1 .. n : q[i] \in S
  BY ElementOfSeq
<1>3. /\ a \in Seq(S) /\ Len(a) = p - 1
      /\ \A i \in 1 .. p - 1 : a[i] = q[i]
  <2>1. \A i \in 1 .. p - 1 : q[i] \in S
    BY <1>1, <1>2
  <2>2. /\ a \in Seq(S)
        /\ Len(a) = IF 1 <= p - 1 THEN (p - 1) - 1 + 1 ELSE 0
        /\ \A i \in 1 .. (p - 1) - 1 + 1 : a[i] = q[1 + i - 1]
    BY <1>1, <2>1, SubSeqProperties
  <2> HIDE DEF a
  <2>3. (p - 1) - 1 + 1 = p - 1 /\ \A i \in Int : 1 + i - 1 = i
    BY <1>1
  <2>. QED BY <1>1, <2>2, <2>3
<1>4. /\ b \in Seq(S) /\ Len(b) = n - p
      /\ \A i \in 1 .. n - p : b[i] = q[p + i]
  <2>1. \A i \in p + 1 .. n : q[i] \in S
    BY <1>1, <1>2
  <2>2. /\ b \in Seq(S)
        /\ Len(b) = IF p + 1 <= n THEN n - (p + 1) + 1 ELSE 0
        /\ \A i \in 1 .. n - (p + 1) + 1 : b[i] = q[(p + 1) + i - 1]
    BY <1>1, <2>1, SubSeqProperties
  <2> HIDE DEF b
  <2> HIDE DEF n
  <2>3. n - (p + 1) + 1 = n - p
    BY <1>1
  <2>4. Len(b) = n - p
    BY <1>1, <2>2, <2>3
  <2>5. \A i \in 1 .. n - p : b[i] = q[p + i]
    <3>. TAKE i \in 1 .. n - p
    <3>1. b[i] = q[(p + 1) + i - 1] /\ (p + 1) + i - 1 = p + i
      BY <1>1, <2>2, <2>3
    <3>. QED BY <3>1
  <2>. QED BY <2>2, <2>4, <2>5
<1> DEFINE r == a \o b
<1>5. Fifo!RemoveAt(q, p) = r
  BY DEF Fifo!RemoveAt
<1> HIDE DEF a, b, n
<1>6. /\ r \in Seq(S) /\ Len(r) = (p - 1) + (n - p)
      /\ \A i \in 1 .. (p - 1) + (n - p) : r[i] = IF i <= p - 1 THEN a[i] ELSE b[i - (p - 1)]
  <2>1. /\ r \in Seq(S) /\ Len(r) = Len(a) + Len(b)
        /\ \A i \in 1 .. Len(a) + Len(b) : r[i] = IF i <= Len(a) THEN a[i] ELSE b[i - Len(a)]
    BY <1>3, <1>4, ConcatProperties
  <2> HIDE DEF r
  <2>. QED BY <1>3, <1>4, <2>1
<1> HIDE DEF r
<1>7. \A i \in 1 .. n - 1 : r[i] = IF i < p THEN q[i] ELSE q[i + 1]
  <2>. TAKE i \in 1 .. n - 1
  <2>1. r[i] = IF i <= p - 1 THEN a[i] ELSE b[i - (p - 1)]
    BY <1>1, <1>6
  <2>2. CASE i < p
    BY <1>1, <1>3, <2>1, <2>2
  <2>3. CASE ~(i < p)
    <3>1. i - (p - 1) \in 1 .. n - p /\ p + (i - (p - 1)) = i + 1 /\ ~(i <= p - 1)
      BY <1>1, <2>3
    <3>. QED BY <1>4, <2>1, <2>3, <3>1
  <2>. QED BY <2>2, <2>3
<1>. QED BY <1>1, <1>5, <1>6, <1>7 DEF n

\* Deleting an entry takes its resource out of the queue, wherever it is.
LEMMA DeletedIsWithout ==
  ASSUME NEW d, Consistent(d), CountMatches(d), NEW k \in Keys
  PROVE  QueueOf(DeleteEntry(d, k)) = Fifo!Without(QueueOf(d), k)
<1> DEFINE q == QueueOf(d)
           s == ByAge(d.index)
           m == Cardinality(d.index)
           x == DeleteEntry(d, k)
<1>1. /\ m \in Nat /\ Lists(s, m, d.index)
      /\ q = [i \in 1 .. m |-> Item(d, s[i])] /\ q \in Seq(Items) /\ Len(q) = m
  BY QueueFacts
<1>2. /\ s \in [1 .. m -> d.index]
      /\ \A i, j \in 1 .. m : i < j => s[i].id < s[j].id
      /\ \A e \in d.index : \E i \in 1 .. m : s[i] = e
  BY <1>1 DEF Lists
<1>3. Consistent(x) /\ d \in Disk
  BY DeleteEntryConsistent DEF Consistent
<1>4. \A e \in d.index : e.key # k \/ d.idKey[k] = None => Item(x, e) = Item(d, e)
  <2>. TAKE e \in d.index
  <2>. HAVE e.key # k \/ d.idKey[k] = None
  <2>1. e.key \in Keys /\ {k} \in SUBSET Keys /\ (e.key \notin {k} \/ d.idKey[e.key] = None)
    BY IndexFacts
  <2>2. ValueOnDisk(DeleteEntries(d, {k}), e.key) = ValueOnDisk(d, e.key)
    BY <1>3, <2>1, OthersStay
  <2>. QED BY <2>2 DEF Item, DeleteEntry
<1>5. DOMAIN q = 1 .. m /\ \A i \in 1 .. m : q[i] = Item(d, s[i]) /\ q[i].key = s[i].key
  <2>1. \A i \in 1 .. m : q[i] = Item(d, s[i])
    BY <1>1
  <2>. QED BY <1>1, <2>1 DEF Item
<1> HIDE DEF q, s, m
<1>6. CASE d.idKey[k] = None
  <2>1. \A i \in DOMAIN q : q[i].key # k
    BY <1>2, <1>5, <1>6, IndexFacts
  <2>2. Fifo!Without(q, k) = q
    BY <2>1 DEF Fifo!Without
  <2>3. x.index = d.index
    <3>1. x.index = {e \in d.index : \A j \in {k} : d.idKey[j] # None => e.id # d.idKey[j]}
      BY <1>3, DeleteEntriesKeys DEF DeleteEntry
    <3> HIDE DEF x
    <3>. QED BY <1>6, <3>1
  <2>4. \A i \in 1 .. m : q[i] = Item(x, s[i])
    BY <1>2, <1>4, <1>5, <1>6
  <2> HIDE DEF x
  <2>5. QueueOf(x) = q
    BY <1>1, <1>3, <2>3, <2>4, SameQueue
  <2>. QED BY <2>2, <2>5 DEF q, x
<1>7. CASE d.idKey[k] # None
  <2> DEFINE e == [id |-> d.idKey[k], key |-> k]
  <2>1. e \in d.index
    BY <1>7 DEF Consistent, IndexMatches
  <2>2. PICK p \in 1 .. m : s[p] = e
    BY <1>2, <2>1
  <2>3. \A i \in 1 .. m : s[i].key = k => i = p
    <3>. TAKE i \in 1 .. m
    <3>. HAVE s[i].key = k
    <3>1. s[i] = s[p] /\ s[i].id \in Nat
      BY <1>2, <2>1, <2>2, IndexFacts
    <3>2. ~(i < p) /\ ~(p < i)
      BY <1>2, <3>1
    <3>. QED BY <1>1, <3>2
  <2>4. x.index = d.index \ {e}
    <3>1. {e} \in SUBSET d.index /\ {g.key : g \in {e}} = {k}
      BY <2>1
    <3>2. DeleteEntries(d, {g.key : g \in {e}}).index = d.index \ {e}
      BY <3>1, DeleteEntriesCount
    <3>. QED BY <3>1, <3>2 DEF DeleteEntry
  <2>5. p \in DOMAIN q /\ q[p].key = k /\ \A i \in DOMAIN q : q[i].key = k => i = p
    BY <1>5, <2>2, <2>3
  <2> DEFINE r == Fifo!RemoveAt(q, p)
             t == [i \in 1 .. m - 1 |-> IF i < p THEN s[i] ELSE s[i + 1]]
  <2>6. Fifo!Without(q, k) = r
    <3>1. (CHOOSE i \in DOMAIN q : q[i].key = k) = p
      BY <2>5
    <3>. QED BY <2>5, <3>1 DEF Fifo!Without
  <2>7. /\ r \in Seq(Items) /\ Len(r) = m - 1
        /\ \A i \in 1 .. m - 1 : r[i] = IF i < p THEN q[i] ELSE q[i + 1]
    <3>1. p \in 1 .. Len(q) /\ q \in Seq(Items)
      BY <1>1, <2>2
    <3>2. /\ r \in Seq(Items) /\ Len(r) = Len(q) - 1
          /\ \A i \in 1 .. Len(q) - 1 : r[i] = IF i < p THEN q[i] ELSE q[i + 1]
      BY <3>1, RemovedAt
    <3>. QED BY <1>1, <3>2
  <2> HIDE DEF x, e, r
  <2>8. \A i \in 1 .. m - 1 : \E j \in 1 .. m \ {p} :
          j = (IF i < p THEN i ELSE i + 1) /\ t[i] = s[j] /\ r[i] = q[j]
    <3>. TAKE i \in 1 .. m - 1
    <3>1. CASE i < p
      <4>1. i \in 1 .. m \ {p}
        BY <1>1, <3>1
      <4>. QED BY <2>7, <3>1, <4>1
    <3>2. CASE ~(i < p)
      <4>1. i + 1 \in 1 .. m \ {p}
        BY <1>1, <3>2
      <4>. QED BY <2>7, <3>2, <4>1
    <3>. QED BY <3>1, <3>2
  <2>9. \A j \in 1 .. m \ {p} : s[j] \in x.index /\ q[j] = Item(x, s[j])
    <3>. TAKE j \in 1 .. m \ {p}
    <3>1. s[j] \in d.index /\ s[j].key # k
      BY <1>2, <2>3
    <3>2. s[j] # e
      BY <2>2, <2>3, <3>1 DEF e
    <3>. QED BY <1>4, <1>5, <2>4, <3>1, <3>2
  <2>10. Lists(t, m - 1, x.index)
    <3>1. m - 1 \in Nat
      BY <1>1, <2>2
    <3>2. t \in [1 .. m - 1 -> x.index]
      BY <2>8, <2>9
    <3>3. ASSUME NEW i \in 1 .. m - 1, NEW j \in 1 .. m - 1, i < j PROVE t[i].id < t[j].id
      <4>1. PICK a \in 1 .. m \ {p} : a = (IF i < p THEN i ELSE i + 1) /\ t[i] = s[a]
        BY <2>8
      <4>2. PICK b \in 1 .. m \ {p} : b = (IF j < p THEN j ELSE j + 1) /\ t[j] = s[b]
        BY <2>8
      <4> HIDE DEF t
      <4>3. a < b
        BY <3>1, <3>3, <4>1, <4>2
      <4>. QED BY <1>2, <4>1, <4>2, <4>3
    <3>4. ASSUME NEW f \in x.index PROVE \E i \in 1 .. m - 1 : t[i] = f
      <4>1. PICK j \in 1 .. m : s[j] = f
        BY <1>2, <2>4
      <4>2. j # p
        BY <2>2, <2>4, <4>1
      <4>3. CASE j < p
        <5>1. j \in 1 .. m - 1
          BY <1>1, <4>3
        <5>. QED BY <4>1, <4>3, <5>1
      <4>4. CASE p < j
        <5>1. j - 1 \in 1 .. m - 1 /\ ~(j - 1 < p) /\ (j - 1) + 1 = j
          BY <1>1, <4>4
        <5>2. t[j - 1] = s[(j - 1) + 1]
          BY <5>1
        <5> HIDE DEF t
        <5>3. t[j - 1] = f
          BY <4>1, <5>1, <5>2
        <5>. QED BY <5>1, <5>3
      <4>5. j < p \/ p < j
        BY <1>1, <4>2
      <4> HIDE DEF t
      <4>. QED BY <4>3, <4>4, <4>5
    <3> HIDE DEF t
    <3>. QED BY <3>1, <3>2, <3>3, <3>4 DEF Lists
  <2>11. \A i \in 1 .. m - 1 : r[i] = Item(x, t[i])
    <3> HIDE DEF t
    <3>. QED BY <2>8, <2>9
  <2> HIDE DEF t
  <2>12. QueueOf(x) = r
    BY <1>3, <2>7, <2>10, <2>11, SameQueue
  <2>. QED BY <2>6, <2>12 DEF x, q
<1>. QED BY <1>6, <1>7

\* A save appends the resource.
LEMMA SavedIsAppended ==
  ASSUME NEW d, Consistent(d), NEW k \in Keys, d.idKey[k] = None, NEW v \in Values
  PROVE  QueueOf(SaveEntry(d, k, v)) = Append(QueueOf(d), [key |-> k, value |-> v])
<1> DEFINE q == QueueOf(d)
           s == ByAge(d.index)
           m == Cardinality(d.index)
           x == SaveEntry(d, k, v)
           new == [id |-> d.idCounter, key |-> k]
           item == [key |-> k, value |-> v]
           t == [i \in 1 .. m + 1 |-> IF i <= m THEN s[i] ELSE new]
           r == Append(q, item)
<1>1. /\ m \in Nat /\ Lists(s, m, d.index)
      /\ q = [i \in 1 .. m |-> Item(d, s[i])] /\ q \in Seq(Items) /\ Len(q) = m
  BY QueueFacts
<1>2. /\ s \in [1 .. m -> d.index]
      /\ \A i, j \in 1 .. m : i < j => s[i].id < s[j].id
      /\ \A e \in d.index : \E i \in 1 .. m : s[i] = e
  BY <1>1 DEF Lists
<1>3. Consistent(x) /\ x.index = d.index \cup {new}
  BY SaveEntryConsistent
<1>4. Item(x, new) = item
  <2>1. d \in Disk /\ v \in [content : Contents, modified : Times, headers : Headers]
    BY StoreAssumption DEF Consistent
  <2>2. x.data[k] = v.content /\ x.timestamp[k] = v.modified /\ x.headersKey[k] = v.headers
    BY <2>1 DEF SaveEntry, Disk
  <2>3. v.headers # None
    BY <2>1, StoreAssumption
  <2>4. ValueOnDisk(x, k) = v
    BY <2>1, <2>2, <2>3 DEF ValueOnDisk
  <2>. QED BY <2>4 DEF Item
<1>5. \A e \in d.index : Item(x, e) = Item(d, e)
  <2>. TAKE e \in d.index
  <2>1. e.key \in Keys /\ e.key # k /\ d \in Disk
    BY IndexFacts DEF Consistent
  <2>2. /\ x.data[e.key] = d.data[e.key] /\ x.timestamp[e.key] = d.timestamp[e.key]
        /\ x.headersKey[e.key] = d.headersKey[e.key]
    BY <2>1 DEF SaveEntry, Disk
  <2>. QED BY <2>2 DEF Item, ValueOnDisk
<1>6. \A e \in d.index : e.id < new.id
  BY DEF Consistent, IndexMatches
<1>7. \A i \in 1 .. m : q[i] = Item(d, s[i])
  BY <1>1
<1>8. item \in Items
  BY DEF Items
<1> HIDE DEF q, s, m, x, new, item
<1>9. Lists(t, m + 1, x.index)
  <2>1. m + 1 \in Nat
    BY <1>1
  <2>2. \A i \in 1 .. m + 1 : t[i] = IF i <= m THEN s[i] ELSE new
    OBVIOUS
  <2>3. \A i \in 1 .. m + 1 : i \in 1 .. m \/ ~(i <= m)
    BY <1>1
  <2>4. t \in [1 .. m + 1 -> x.index]
    BY <1>2, <1>3, <2>3
  <2> HIDE DEF t
  <2>5. ASSUME NEW i \in 1 .. m + 1, NEW j \in 1 .. m + 1, i < j PROVE t[i].id < t[j].id
    <3>1. i \in 1 .. m /\ t[i] = s[i]
      BY <1>1, <2>2, <2>5
    <3>2. CASE j \in 1 .. m
      <4>1. t[j] = s[j]
        BY <1>1, <2>2, <3>2
      <4>. QED BY <1>2, <2>5, <3>1, <3>2, <4>1
    <3>3. CASE ~(j <= m)
      <4>1. t[j] = new /\ s[i] \in d.index
        BY <1>2, <2>2, <3>1, <3>3
      <4>. QED BY <1>6, <3>1, <4>1
    <3>. QED BY <2>3, <3>2, <3>3
  <2>6. ASSUME NEW e \in x.index PROVE \E i \in 1 .. m + 1 : t[i] = e
    <3>1. CASE e = new
      <4>1. m + 1 \in 1 .. m + 1 /\ ~(m + 1 <= m)
        BY <1>1
      <4>. QED BY <2>2, <3>1, <4>1
    <3>2. CASE e \in d.index
      <4>1. PICK i \in 1 .. m : s[i] = e
        BY <1>2, <3>2
      <4>2. i \in 1 .. m + 1 /\ i <= m
        BY <1>1
      <4>. QED BY <2>2, <4>1, <4>2
    <3>. QED BY <1>3, <3>1, <3>2
  <2>. QED BY <2>1, <2>4, <2>5, <2>6 DEF Lists
<1>10. r \in Seq(Items) /\ Len(r) = m + 1
  BY <1>1, <1>8, AppendProperties
<1>11. ASSUME NEW i \in 1 .. m + 1 PROVE r[i] = Item(x, t[i])
  <2>1. CASE i <= m
    <3>1. i \in 1 .. m /\ s[i] \in d.index
      BY <1>1, <1>2, <2>1
    <3>2. r[i] = q[i]
      BY <1>1, <1>8, <3>1, AppendProperties
    <3>. QED BY <1>5, <1>7, <2>1, <3>1, <3>2
  <2>2. CASE ~(i <= m)
    <3>1. i = m + 1
      BY <1>1, <2>2
    <3>2. r[m + 1] = item
      BY <1>1, <1>8, AppendProperties
    <3>. QED BY <1>4, <2>2, <3>1, <3>2
  <2>. QED BY <2>1, <2>2
<1> HIDE DEF r, t
<1>12. QueueOf(x) = r
  BY <1>3, <1>9, <1>10, <1>11, SameQueue
<1>. QED BY <1>12 DEF r, q, x, item

\* What a save makes of the queue: room, no older version, and the resource at the end.
LEMMA SavedIsSave ==
  ASSUME NEW d, Consistent(d), CountMatches(d), d.maxEntries # 0,
         NEW k \in Keys, NEW v \in Values, NEW x \in Saved(d, k, v)
  PROVE  QueueOf(x) = Append(Fifo!Without(Fifo!Newest(QueueOf(d), d.maxEntries - 1), k),
                             [key |-> k, value |-> v])
<1>1. PICK y \in Evicted(d, Surplus(d)) : x = SaveEntry(DeleteEntry(y, k), k, v)
  BY DEF Saved, MadeRoom
<1> DEFINE q == QueueOf(d)
           n == Surplus(d)
           z == DeleteEntry(y, k)
           m == Len(q)
<1>2. /\ m \in Nat /\ m = Cardinality(d.index) /\ m = d.entryCount
      /\ d.maxEntries \in Nat /\ n \in Nat
  BY QueueFacts, SurplusType DEF CountMatches, Consistent, Disk
<1>3. Consistent(y) /\ CountMatches(y)
  BY <1>2, EvictedConsistent, EvictedCount
<1>4. Consistent(z) /\ z.idKey[k] = None
  BY <1>3, DeleteEntryConsistent
<1>5. QueueOf(y) = SubSeq(q, n + 1, m)
  BY <1>2, EvictedIsNewest
<1>6. QueueOf(z) = Fifo!Without(QueueOf(y), k)
  BY <1>3, DeletedIsWithout
<1>7. n + 1 = Fifo!Max({1, m - (d.maxEntries - 1) + 1})
  <2> DEFINE a == m - (d.maxEntries - 1) + 1
  <2>1. a \in Int /\ n + 1 = IF a >= 1 THEN a ELSE 1
    BY <1>2 DEF Surplus
  <2> HIDE DEF a, n
  <2>2. Fifo!Max({1, a}) = IF a >= 1 THEN a ELSE 1
    BY <2>1 DEF Fifo!Max
  <2>. QED BY <2>1, <2>2 DEF a
<1>8. SubSeq(q, n + 1, m) = Fifo!Newest(q, d.maxEntries - 1)
  BY <1>7 DEF Fifo!Newest
<1> HIDE DEF z, q, n
<1>9. QueueOf(x) = Append(QueueOf(z), [key |-> k, value |-> v])
  BY <1>1, <1>4, SavedIsAppended DEF z
<1>. QED BY <1>5, <1>6, <1>8, <1>9 DEF q

-----------------------------------------------------------------------------
(* The refinement of DiskFifo.                                             *)

LEMMA QueueHoldsWhatIsThere ==
  ASSUME NEW d, Consistent(d), NEW k \in Keys
  PROVE  /\ {r \in Fifo!Range(QueueOf(d)) : r.key = k} =
              IF d.idKey[k] = None THEN {} ELSE {[key |-> k, value |-> ValueOnDisk(d, k)]}
         /\ d.idKey[k] = None => Fifo!Without(QueueOf(d), k) = QueueOf(d)
<1> DEFINE q == QueueOf(d)
           s == ByAge(d.index)
           m == Cardinality(d.index)
<1>1. Lists(s, m, d.index) /\ q = [i \in 1 .. m |-> Item(d, s[i])]
  BY QueueFacts
<1>2. /\ s \in [1 .. m -> d.index]
      /\ \A e \in d.index : \E i \in 1 .. m : s[i] = e
  BY <1>1 DEF Lists
<1>3. DOMAIN q = 1 .. m /\ \A i \in 1 .. m : q[i] = Item(d, s[i]) /\ q[i].key = s[i].key
  <2>1. \A i \in 1 .. m : q[i] = Item(d, s[i])
    BY <1>1
  <2>. QED BY <1>1, <2>1 DEF Item
<1> HIDE DEF q, s, m
<1>4. Fifo!Range(q) = {q[i] : i \in 1 .. m}
  BY <1>3 DEF Fifo!Range
<1>5. CASE d.idKey[k] = None
  <2>1. \A i \in 1 .. m : q[i].key # k
    BY <1>2, <1>3, <1>5, IndexFacts
  <2>2. {r \in Fifo!Range(q) : r.key = k} = {}
    BY <1>4, <2>1
  <2>3. Fifo!Without(q, k) = q
    BY <1>3, <2>1 DEF Fifo!Without
  <2>. QED BY <1>5, <2>2, <2>3 DEF q
<1>6. CASE d.idKey[k] # None
  <2> DEFINE e == [id |-> d.idKey[k], key |-> k]
             item == [key |-> k, value |-> ValueOnDisk(d, k)]
  <2>1. e \in d.index
    BY <1>6 DEF Consistent, IndexMatches
  <2>2. \E i \in 1 .. m : q[i] = item /\ q[i].key = k
    <3>1. PICK i \in 1 .. m : s[i] = e
      BY <1>2, <2>1
    <3>. QED BY <1>3, <3>1 DEF Item
  <2>3. \A i \in 1 .. m : q[i].key = k => q[i] = item
    BY <1>3 DEF Item
  <2> HIDE DEF item
  <2>4. {r \in Fifo!Range(q) : r.key = k} = {item}
    BY <1>4, <2>2, <2>3
  <2>. QED BY <1>6, <2>4 DEF q, item
<1>. QED BY <1>5, <1>6

\* A resource is found when it has an id.
LEMMA FoundByItsId ==
  ASSUME NEW d, Consistent(d), NEW k \in Keys
  PROVE  OnDisk(d, k) <=> d.idKey[k] # None
<1>1. d.idKey[k] # None => d.data[k] # None /\ d.timestamp[k] # None
  <2>. HAVE d.idKey[k] # None
  <2>1. ValueOnDisk(d, k) \in [content : Contents, modified : Times, headers : Headers]
    BY StoreAssumption DEF Consistent, EntriesWhole
  <2>2. d.data[k] \in Contents /\ d.timestamp[k] \in Times
    BY <2>1 DEF ValueOnDisk
  <2>. QED BY <2>2, StoreAssumption
<1>. QED BY <1>1 DEF OnDisk, Consistent, EntriesWhole

LEMMA InitFifo == Init => Fifo!Init
<1>. SUFFICES ASSUME Init PROVE Fifo!Init
  OBVIOUS
<1>1. PICK limit \in Limits : disk = EmptyDisk(limit)
  BY DEF Init
<1>2. limit \in Nat /\ disk.index = {} /\ disk.maxEntries = limit
  BY <1>1, DiskCacheAssumption DEF EmptyDisk
<1>3. Consistent(disk)
  BY <1>1, <1>2, EmptyConsistent
<1>4. Cardinality(disk.index) = 0
  BY <1>2, FS_EmptySet
<1>5. QueueOf(disk) \in Seq(Items) /\ Len(QueueOf(disk)) = 0
  BY <1>3, <1>4, QueueFacts
<1>6. QueueOf(disk) = <<>>
  BY <1>5, EmptySeq
<1>. QED BY <1>2, <1>6 DEF Init, Fifo!Init

LEMMA NextFifo ==
  ASSUME WriteFaults = FALSE
  PROVE  CInv /\ [Next]_vars => [Fifo!Next]_Fifo!vars
<1>. SUFFICES ASSUME CInv, [Next]_vars PROVE [Fifo!Next]_Fifo!vars
  OBVIOUS
<1>1. Consistent(disk) /\ CountMatches(disk) /\ disk.maxEntries \in Limits /\ disk \in Disk
  BY DEF CInv, IInv, Consistent
<1>2. \A d, R : Failed(d, R) = {}
  BY DEF Failed
<1>3. ASSUME NEW k \in Keys, NEW v \in Values, SaveResource(k, v) PROVE Fifo!Next
  <2>1. disk' \in Saved(disk, k, v) /\ disk.maxEntries # 0 /\ reply' = None
    BY <1>1, <1>2, <1>3 DEF SaveResource, SaveFailed, LoopEnds, Disk
  <2>2. disk'.maxEntries = disk.maxEntries
    BY <1>1, <2>1, SavedConsistent
  <2>3. QueueOf(disk') = Append(Fifo!Without(Fifo!Newest(QueueOf(disk), disk.maxEntries - 1), k),
                                [key |-> k, value |-> v])
    BY <1>1, <2>1, SavedIsSave
  <2>4. Fifo!Save(k, v)
    BY <2>1, <2>2, <2>3 DEF Fifo!Save
  <2>. QED BY <2>4 DEF Fifo!Next
<1>4. CASE SaveResourceHangs
  <2>1. Fifo!Reconfigure
    BY <1>1, <1>4 DEF SaveResourceHangs, Fifo!Reconfigure
  <2>. QED BY <2>1 DEF Fifo!Next
<1>5. ASSUME NEW k \in Keys, disk' = DeleteEntry(disk, k)
      PROVE  /\ QueueOf(disk') = Fifo!Without(QueueOf(disk), k)
             /\ disk'.maxEntries = disk.maxEntries
  BY <1>1, <1>5, DeletedIsWithout, DeleteEntryConsistent
<1>6. ASSUME NEW k \in Keys, Remove(k) PROVE Fifo!Next
  <2>1. disk' = DeleteEntry(disk, k) /\ reply' = None
    BY <1>2, <1>6 DEF Remove, RemoveFailed
  <2>2. Fifo!Discard(k)
    BY <1>5, <2>1 DEF Fifo!Discard
  <2>. QED BY <2>2 DEF Fifo!Next
<1>7. ASSUME NEW k \in Keys, RemoveAndGet(k) PROVE Fifo!Next
  <2>1. disk' = DeleteEntry(disk, k) /\ reply' = ValueOnDisk(disk, k) /\ OnDisk(disk, k)
    BY <1>2, <1>7 DEF RemoveAndGet, RemoveFailed
  <2>2. Fifo!Stored(k) = {[key |-> k, value |-> ValueOnDisk(disk, k)]}
    BY <1>1, <2>1, FoundByItsId, QueueHoldsWhatIsThere DEF Fifo!Stored
  <2>3. \E r \in Fifo!Stored(k) : reply' = r.value
    BY <2>1, <2>2
  <2>4. Fifo!Take(k)
    BY <1>5, <2>1, <2>3 DEF Fifo!Take
  <2>. QED BY <2>4 DEF Fifo!Next
<1>8. ASSUME NEW k \in Keys, RemoveAndGetMiss(k) PROVE Fifo!Next
  <2>1. disk' = disk /\ reply' = None /\ disk.idKey[k] = None
    BY <1>1, <1>8, FoundByItsId DEF RemoveAndGetMiss
  <2>2. Fifo!Stored(k) = {} /\ Fifo!Without(QueueOf(disk), k) = QueueOf(disk)
    BY <1>1, <2>1, QueueHoldsWhatIsThere DEF Fifo!Stored
  <2>3. Fifo!Take(k)
    BY <2>1, <2>2 DEF Fifo!Take
  <2>. QED BY <2>3 DEF Fifo!Next
<1>9. ASSUME NEW k \in Keys, GetLastModified(k) PROVE Fifo!Next
  <2>1. disk' = disk /\ reply' = disk.timestamp[k]
    BY <1>9 DEF GetLastModified
  <2>2. CASE disk.idKey[k] = None
    <3>1. Fifo!Stored(k) = {}
      BY <1>1, <2>2, QueueHoldsWhatIsThere DEF Fifo!Stored
    <3>2. reply' = None
      BY <1>1, <2>1, <2>2 DEF Consistent, EntriesWhole
    <3>3. Fifo!Peek(k)
      BY <2>1, <3>1, <3>2 DEF Fifo!Peek
    <3>. QED BY <3>3 DEF Fifo!Next
  <2>3. CASE disk.idKey[k] # None
    <3>1. Fifo!Stored(k) = {[key |-> k, value |-> ValueOnDisk(disk, k)]}
      BY <1>1, <2>3, QueueHoldsWhatIsThere DEF Fifo!Stored
    <3>2. reply' = ValueOnDisk(disk, k).modified
      BY <2>1 DEF ValueOnDisk
    <3>3. Fifo!Peek(k)
      BY <2>1, <3>1, <3>2 DEF Fifo!Peek
    <3>. QED BY <3>3 DEF Fifo!Next
  <2>. QED BY <2>2, <2>3
<1>10. ASSUME NEW limit \in Limits, Restart(limit) PROVE Fifo!Next
  <2>1. disk' = Reopened(disk, limit) /\ reply' = None
    BY <1>10 DEF Restart
  <2>2. /\ disk'.index = disk.index /\ disk'.data = disk.data
        /\ disk'.timestamp = disk.timestamp /\ disk'.headersKey = disk.headersKey
        /\ disk'.maxEntries = limit
    BY <1>1, <2>1 DEF Reopened, Disk
  <2>3. QueueOf(disk') = QueueOf(disk)
    BY <2>2 DEF QueueOf, ValueOnDisk
  <2>4. Fifo!Reconfigure
    BY <2>1, <2>2, <2>3 DEF Fifo!Reconfigure
  <2>. QED BY <2>4 DEF Fifo!Next
<1>11. CASE UNCHANGED vars
  BY <1>11 DEF vars, Fifo!vars
<1>. QED BY <1>3, <1>4, <1>6, <1>7, <1>8, <1>9, <1>10, <1>11 DEF Next

\* Without failures the disk cache is a bounded queue in the order of saves: what a
\* save evicts is the oldest, an operation on one resource leaves the others and their
\* order alone, what is read is what was saved, and a restart loses nothing.
THEOREM ImplementsFifo ==
  ASSUME WriteFaults = FALSE
  PROVE  Spec => FifoRefinement
<1>1. Init => Fifo!Init
  BY InitFifo
<1>2. CInv /\ [Next]_vars => [Fifo!Next]_Fifo!vars
  BY NextFifo
<1>. QED BY <1>1, <1>2, InitCInv, NextCInv, PTL DEF Spec, FifoRefinement, Fifo!Spec
=============================================================================
