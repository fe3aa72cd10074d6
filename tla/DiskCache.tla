------------------------------ MODULE DiskCache ------------------------------
(***************************************************************************)
(* The DiskCache of the server on its own: its operations, and restarts of *)
(* the process, which may come with another configured limit.              *)
(***************************************************************************)
EXTENDS DiskStore

CONSTANTS
  Limits,   \* the values of site_disk_cache_max_items
  MaxId     \* bound: saves stop when idCounter reaches it

ASSUME DiskCacheAssumption == Limits \subseteq Nat /\ MaxId \in Nat

VARIABLES
  disk,     \* the database and the DiskCache structure
  hung,     \* the eviction loop of SaveResource never ends
  reply     \* what the last operation returned; None is an error

vars == <<disk, hung, reply>>

TypeOK ==
  /\ disk \in Disk
  /\ hung \in BOOLEAN
  /\ reply \in Values \cup Times \cup {None}

Init ==
  /\ \E limit \in Limits : disk = EmptyDisk(limit)
  /\ hung = FALSE
  /\ reply = None

-----------------------------------------------------------------------------

SaveResource(k, v) ==
  /\ ~hung /\ disk.idCounter < MaxId
  /\ LoopEnds(disk)
  /\ disk' \in Saved(disk, k, v) \cup SaveFailed(disk, k, v)
  /\ reply' = None
  /\ UNCHANGED hung

\* The loop of SaveResource evicts nothing and does not count down.
SaveResourceHangs ==
  /\ ~hung /\ disk.idCounter < MaxId
  /\ ~LoopEnds(disk)
  /\ hung' = TRUE
  /\ reply' = None
  /\ UNCHANGED disk

Remove(k) ==
  /\ ~hung
  /\ disk' \in {DeleteEntry(disk, k)} \cup RemoveFailed(disk, k)
  /\ reply' = None
  /\ UNCHANGED hung

RemoveAndGet(k) ==
  /\ ~hung /\ OnDisk(disk, k)
  /\ \/ disk' = DeleteEntry(disk, k) /\ reply' = ValueOnDisk(disk, k)
     \/ disk' \in RemoveFailed(disk, k) /\ reply' = None
  /\ UNCHANGED hung

RemoveAndGetMiss(k) ==
  /\ ~hung /\ ~OnDisk(disk, k)
  /\ reply' = None
  /\ UNCHANGED <<disk, hung>>

GetLastModified(k) ==
  /\ ~hung
  /\ reply' = disk.timestamp[k]
  /\ UNCHANGED <<disk, hung>>

\* The process stops, cleanly or not, and NewDiskCache opens the database.
Restart(limit) ==
  /\ disk' = Reopened(disk, limit)
  /\ hung' = FALSE
  /\ reply' = None

Next ==
  \/ \E k \in Keys, v \in Values : SaveResource(k, v)
  \/ SaveResourceHangs
  \/ \E k \in Keys : Remove(k)
  \/ \E k \in Keys : RemoveAndGet(k)
  \/ \E k \in Keys : RemoveAndGetMiss(k)
  \/ \E k \in Keys : GetLastModified(k)
  \/ \E limit \in Limits : Restart(limit)

Spec == Init /\ [][Next]_vars

-----------------------------------------------------------------------------
(* Properties.                                                             *)

\* The id keys and the id index of the database describe the same entries and
\* no id in use is handed out again (disk_cache.go, saveEntry and deleteEntry
\* write both, NewDiskCache recomputes the counter), whatever fails.
IndexBijective == IndexMatches(disk)

\* Data, timestamp and headers of a resource always come from one save: what
\* is read back was saved as such (RemoveAndGet reads three keys, and
\* deleteEntry leaves the headers of earlier saves behind).
ReadBack == EntriesWhole(disk)

\* The entry counter kept in memory is the number of entries in the database
\* (deleteEntry and saveEntry count inside the transaction).
CountExact == CountMatches(disk)

\* A save never leaves more entries than the configured limit, even when the
\* database was larger because the limit was lowered across a restart.
SaveWithinLimit ==
  [][ ~(disk'.index \subseteq disk.index)
        => Cardinality(disk'.index) <= disk.maxEntries ]_vars

\* SaveResource always returns.
NeverHung == ~hung

-----------------------------------------------------------------------------
(* The abstract specification.                                             *)

\* The entries of the index I in the order of their ids: before the n-th there are
\* n - 1 lower ones.
ByAge(I) ==
  [n \in 1 .. Cardinality(I) |-> CHOOSE e \in I : Cardinality({f \in I : f.id <= e.id}) = n]

\* The stored resources in the order of their ids.
QueueOf(d) ==
  [ n \in 1 .. Cardinality(d.index) |->
      LET k == ByAge(d.index)[n].key IN [key |-> k, value |-> ValueOnDisk(d, k)] ]

Fifo == INSTANCE DiskFifo WITH queue <- QueueOf(disk), limit <- disk.maxEntries

\* The disk cache is a bounded queue in the order of saves: what a save evicts
\* is the oldest, an operation on one resource leaves the others and their
\* order alone, what is read is what was saved, and a restart loses nothing.
FifoRefinement == Fifo!Spec
=============================================================================
