------------------------------ MODULE DiskStore ------------------------------
(***************************************************************************)
(* The badger database behind the server's disk cache                      *)
(* (src/server/pkg/cache/disk_cache.go) and the operations of DiskCache as *)
(* operators on it.  One cached resource is spread over five database      *)
(* keys: its id, its data, its timestamp, its headers and an entry of the  *)
(* id index, which orders the resources by the time they were saved.       *)
(*                                                                         *)
(* Every operation is one badger transaction, hence one operator.  The     *)
(* idCounter and entryCount fields of DiskCache live in memory only, and   *)
(* are changed inside the closure of the transaction: when the transaction *)
(* fails, badger restores the keys but nothing restores the two counters.  *)
(* WriteFaults says whether db.Update may fail (badger is external code:   *)
(* it may report a transaction that is too big, a full disk, ...).         *)
(***************************************************************************)
EXTENDS Integers, FiniteSets, FiniteSetsExt

CONSTANTS
  Keys,         \* (website address, resource name) pairs
  Contents,     \* file contents
  Times,        \* modification times
  Headers,      \* maps of HTTP headers
  NoHeaders,    \* the empty map of headers
  Values,       \* the cached resources: content, time and headers
  None,         \* the absence of a database key
  WriteFaults   \* TRUE: a read-write transaction may fail

ASSUME StoreAssumption ==
  /\ Values \subseteq [content : Contents, modified : Times, headers : Headers]
  /\ NoHeaders \in Headers
  /\ None \notin Contents \cup Times \cup Headers \cup Values \cup Nat
  /\ WriteFaults \in BOOLEAN

IndexEntry == [id : Nat, key : Keys]

Disk ==
  [ idKey      : [Keys -> Nat \cup {None}],
    data       : [Keys -> Contents \cup {None}],
    timestamp  : [Keys -> Times \cup {None}],
    headersKey : [Keys -> Headers \cup {None}],
    index      : {I \in SUBSET IndexEntry : IsFiniteSet(I)},
    idCounter  : Nat,
    entryCount : Nat,
    maxEntries : Nat ]

EmptyDisk(limit) ==
  [ idKey      |-> [k \in Keys |-> None],
    data       |-> [k \in Keys |-> None],
    timestamp  |-> [k \in Keys |-> None],
    headersKey |-> [k \in Keys |-> None],
    index      |-> {},
    idCounter  |-> 0,
    entryCount |-> 0,
    maxEntries |-> limit ]

-----------------------------------------------------------------------------
(* Reading.                                                                *)

\* Mutant: the presence of the headers is taken for that of the resource.
OnDiskByHeaders(d, k) == d.headersKey[k] # None

\* RemoveAndGet finds the resource.
OnDisk(d, k) == d.data[k] # None /\ d.timestamp[k] # None

\* What RemoveAndGet returns: the three parts, each read from its own key.
ValueOnDisk(d, k) ==
  [ content  |-> d.data[k],
    modified |-> d.timestamp[k],
    headers  |-> IF d.headersKey[k] = None THEN NoHeaders ELSE d.headersKey[k] ]

-----------------------------------------------------------------------------
(* The closures of the transactions, when nothing fails.                   *)

\* Mutant: entries go, but the counter stays.
DeleteEntriesUncounted(d, S) ==
  LET gone   == {k \in S : d.idKey[k] # None}
      Drop(f) == [k \in Keys |-> IF k \in gone THEN None ELSE f[k]]
  IN  [ d EXCEPT !.idKey     = Drop(d.idKey),
                 !.data      = Drop(d.data),
                 !.timestamp = Drop(d.timestamp),
                 !.index     = {e \in d.index : \A k \in gone : e.id # d.idKey[k]} ]

\* deleteEntry for each key of S.  A key without id is left alone, and the
\* headers are never deleted.
DeleteEntries(d, S) ==
  LET gone   == {k \in S : d.idKey[k] # None}
      n      == Cardinality(gone)
      Drop(f) == [k \in Keys |-> IF k \in gone THEN None ELSE f[k]]
  IN  [ d EXCEPT !.idKey      = Drop(d.idKey),
                 !.data       = Drop(d.data),
                 !.timestamp  = Drop(d.timestamp),
                 !.index      = {e \in d.index : \A k \in gone : e.id # d.idKey[k]},
                 !.entryCount = IF n <= d.entryCount THEN d.entryCount - n ELSE 0 ]

DeleteEntry(d, k) == DeleteEntries(d, {k})

\* Mutant: the id counter is not advanced.
SaveEntryReusesId(d, k, v) ==
  [ d EXCEPT !.idKey[k]      = d.idCounter,
             !.data[k]       = v.content,
             !.timestamp[k]  = v.modified,
             !.headersKey[k] = v.headers,
             !.index         = {e \in d.index : e.id # d.idCounter}
                                 \cup {[id |-> d.idCounter, key |-> k]},
             !.entryCount    = d.entryCount + 1 ]

\* Mutant: empty headers are not written, and those of an earlier save stay.
SaveEntrySkipsNoHeaders(d, k, v) ==
  [ d EXCEPT !.idKey[k]      = d.idCounter,
             !.data[k]       = v.content,
             !.timestamp[k]  = v.modified,
             !.headersKey[k] = IF v.headers = NoHeaders THEN @ ELSE v.headers,
             !.index         = d.index \cup {[id |-> d.idCounter, key |-> k]},
             !.entryCount    = d.entryCount + 1,
             !.idCounter     = d.idCounter + 1 ]

SaveEntry(d, k, v) ==
  [ d EXCEPT !.idKey[k]      = d.idCounter,
             !.data[k]       = v.content,
             !.timestamp[k]  = v.modified,
             !.headersKey[k] = v.headers,
             !.index         = {e \in d.index : e.id # d.idCounter}
                                 \cup {[id |-> d.idCounter, key |-> k]},
             !.entryCount    = d.entryCount + 1,
             !.idCounter     = d.idCounter + 1 ]

\* Mutant: the loop runs only while the cache is above its limit.
SurplusAbove(d) ==
  IF d.entryCount > d.maxEntries THEN d.entryCount - d.maxEntries ELSE 0

\* The number of turns of the loop `for d.entryCount >= d.maxEntries`.
Surplus(d) ==
  IF d.entryCount >= d.maxEntries THEN d.entryCount - d.maxEntries + 1 ELSE 0

\* An eviction with no index entry left changes nothing, so the loop ends only
\* if the entries run out after the counter is low enough.
LoopEnds(d) == d.maxEntries > 0 /\ Surplus(d) <= Cardinality(d.index)

\* Mutant: the index is walked backwards.
Newest(d, n) ==
  {E \in kSubset(n, d.index) : \A e \in E, f \in d.index \ E : e.id > f.id}

\* n turns of evictOldestEntry take the n lowest ids (at most one such set).
Oldest(d, n) ==
  {E \in kSubset(n, d.index) : \A e \in E, f \in d.index \ E : e.id < f.id}

Evicted(d, n) == {DeleteEntries(d, {e.key : e \in E}) : E \in Oldest(d, n)}

\* The closure of SaveResource: make room, delete the old entry, save.
MadeRoom(d, k) == {DeleteEntry(x, k) : x \in Evicted(d, Surplus(d))}
Saved(d, k, v) == {SaveEntry(x, k, v) : x \in MadeRoom(d, k)}

-----------------------------------------------------------------------------
(* The transactions.  A failed one keeps the database and the counters the *)
(* closure had reached.                                                    *)

RollBack(d, x) ==
  [d EXCEPT !.idCounter = x.idCounter, !.entryCount = x.entryCount]

Failed(d, reached) ==
  IF WriteFaults THEN {RollBack(d, x) : x \in {d} \cup reached} ELSE {}

SaveFailed(d, k, v) ==
  Failed(d, (UNION {Evicted(d, n) : n \in 0 .. Surplus(d)})
              \cup MadeRoom(d, k) \cup Saved(d, k, v))

\* Remove, and the end of RemoveAndGet.
RemoveFailed(d, k) == Failed(d, {DeleteEntry(d, k)})

\* NewDiskCache: the counters are recomputed from the id index.
Reopened(d, limit) ==
  [ d EXCEPT !.idCounter  = IF d.index = {} THEN 0
                            ELSE Max({e.id : e \in d.index}) + 1,
             !.entryCount = Cardinality(d.index),
             !.maxEntries = limit ]

-----------------------------------------------------------------------------
(* Consistency of a database.                                              *)

\* The id keys and the id index are each other's inverse, and the next id is
\* above all the ids in use.
IndexMatches(d) ==
  /\ \A k \in Keys : d.idKey[k] # None => [id |-> d.idKey[k], key |-> k] \in d.index
  /\ \A e \in d.index : d.idKey[e.key] = e.id /\ e.id < d.idCounter
  /\ \A e, f \in d.index : e.id = f.id => e = f

\* The keys of a resource are all there and were saved together, or it has
\* neither an id, nor data, nor a timestamp.
EntriesWhole(d) ==
  \A k \in Keys :
    IF d.idKey[k] = None
    THEN d.data[k] = None /\ d.timestamp[k] = None
    ELSE ValueOnDisk(d, k) \in Values

CountMatches(d) == d.entryCount = Cardinality(d.index)
=============================================================================
