------------------------------- MODULE Cache -------------------------------
(***************************************************************************)
(* The server's two-level cache of website resources                       *)
(* (src/server/pkg/cache/cache.go): an LRU list in RAM above the disk      *)
(* cache of DiskStore.  A mutex makes each call one step, but a call is    *)
(* made of up to three database transactions, and the process may crash    *)
(* between two of them.  Close is a step per transaction.                  *)
(*                                                                         *)
(* The LRU list (golang-lru, external) is given by the position of each    *)
(* resource in it: 1 for the one used last, 0 for one that is not there.   *)
(* Its eviction callback runs for an entry that is pushed out by Add, and  *)
(* also for one that is taken out by Remove.                               *)
(***************************************************************************)
EXTENDS DiskStore

CONSTANTS
  Limits,   \* the values of site_disk_cache_max_items
  MaxRam,   \* site_ram_cache_max_items; lru.NewWithEvict refuses 0
  MaxId     \* bound: the operations that save to disk stop at this id

ASSUME CacheAssumption ==
  /\ Limits \subseteq Nat
  /\ MaxRam \in Nat \ {0}
  /\ MaxId \in Nat

VARIABLES
  disk,     \* diskCache
  ram,      \* ramCache: the entries and their positions
  status,   \* of the process and of the mutex
  cursor,   \* the position Close saves next
  reply     \* which call returned last, and what; None is an error

vars == <<disk, ram, status, cursor, reply>>

Ram == [entry : [Keys -> Values \cup {None}], pos : [Keys -> 0 .. MaxRam]]

EmptyRam == [entry |-> [k \in Keys |-> None], pos |-> [k \in Keys |-> 0]]

Replies ==
  {None} \cup ({"saved", "read"} \X Keys \X Values) \cup ({"deleted"} \X Keys)
    \cup ({"modified"} \X Keys \X Times)

TypeOK ==
  /\ disk \in Disk
  /\ ram \in Ram
  /\ status \in {"open", "closing", "closed", "hung"}
  /\ cursor \in 0 .. MaxRam
  /\ reply \in Replies

Init ==
  /\ \E limit \in Limits : disk = EmptyDisk(limit)
  /\ ram = EmptyRam
  /\ status = "open"
  /\ cursor = 0
  /\ reply = None

-----------------------------------------------------------------------------
(* The LRU list.                                                           *)

InRam(r, k) == r.pos[k] # 0

\* Get and Add of a resource that is in the list: it moves to the front.
Touch(r, k) ==
  [r EXCEPT !.pos = [j \in Keys |-> IF j = k THEN 1
                                    ELSE IF r.pos[j] \in 1 .. r.pos[k] - 1
                                         THEN r.pos[j] + 1 ELSE r.pos[j]]]

RamRemove(r, k) ==
  IF ~InRam(r, k) THEN r
  ELSE [ entry |-> [r.entry EXCEPT ![k] = None],
         pos   |-> [j \in Keys |-> IF j = k THEN 0
                                   ELSE IF r.pos[j] > r.pos[k]
                                        THEN r.pos[j] - 1 ELSE r.pos[j]] ]

\* What Add of a resource that is not in the list pushes out of it.
Pushed(r) == {j \in Keys : r.pos[j] = MaxRam}

\* Add of a resource that is not in the list.
RamAdd(r, k, v) ==
  [ entry |-> [j \in Keys |-> IF j = k THEN v
                              ELSE IF j \in Pushed(r) THEN None ELSE r.entry[j]],
    pos   |-> [j \in Keys |-> IF j = k THEN 1
                              ELSE IF j \in Pushed(r) \/ r.pos[j] = 0 THEN 0
                                   ELSE r.pos[j] + 1] ]

-----------------------------------------------------------------------------
(* The eviction callback and the disk operations, on an open or a closed   *)
(* database (badger answers ErrDBClosed, and the callback ignores errors). *)

\* The databases the callback may leave when the list lets go of the
\* resources of S, at most one.
Spilled(d, S) ==
  IF S = {} \/ status = "closed" THEN {d}
  ELSE IF ~LoopEnds(d) THEN {}
  ELSE UNION {Saved(d, j, ram.entry[j]) \cup SaveFailed(d, j, ram.entry[j]) : j \in S}

SpillHangs(d, S) == S # {} /\ status # "closed" /\ ~LoopEnds(d)

\* Mutant: nothing is removed from disk.
RemovedNothing(d, k) == IF status = "closed" THEN {} ELSE {d}

\* DiskCache.Remove returns no error, or one.
Removed(d, k) == IF status = "closed" THEN {} ELSE {DeleteEntry(d, k)}
NotRemoved(d, k) == IF status = "closed" THEN {d} ELSE RemoveFailed(d, k)

\* ramCache.Remove(k) of Save and Delete: the callback saves the old entry.
LetGo(k) == Spilled(disk, IF InRam(ram, k) THEN {k} ELSE {})

\* The mutex is free.
Free == status \in {"open", "closed"}

\* The same for a call that may save to disk, which MaxId bounds.
Ready == Free /\ disk.idCounter < MaxId

-----------------------------------------------------------------------------
(* The calls.                                                              *)

Save(k, v) ==
  LET r == RamRemove(ram, k)
  IN  /\ Ready
      /\ \E d1 \in LetGo(k) :
           \/ /\ \E d2 \in Removed(d1, k) : disk' \in Spilled(d2, Pushed(r))
              /\ ram' = RamAdd(r, k, v)
              /\ reply' = <<"saved", k, v>>
           \/ disk' \in NotRemoved(d1, k) /\ ram' = r /\ reply' = None
      /\ UNCHANGED <<status, cursor>>

\* Mutant: the resource is removed from disk first and from RAM afterwards.
DeleteDiskFirst(k) ==
  /\ Ready
  /\ \E d1 \in Removed(disk, k) : disk' \in Spilled(d1, IF InRam(ram, k) THEN {k} ELSE {})
  /\ ram' = RamRemove(ram, k)
  /\ reply' = <<"deleted", k>>
  /\ UNCHANGED <<status, cursor>>

Delete(k) ==
  /\ Ready
  /\ \E d1 \in LetGo(k) :
       \/ disk' \in Removed(d1, k) /\ reply' = <<"deleted", k>>
       \/ disk' \in NotRemoved(d1, k) /\ reply' = None
  /\ ram' = RamRemove(ram, k)
  /\ UNCHANGED <<status, cursor>>

ReadRam(k) ==
  /\ Free /\ InRam(ram, k)
  /\ ram' = Touch(ram, k)
  /\ reply' = <<"read", k, ram.entry[k]>>
  /\ UNCHANGED <<disk, status, cursor>>

\* Mutant: the resource goes to RAM before it leaves the disk.
ReadDiskRamFirst(k) ==
  /\ Ready /\ ~InRam(ram, k) /\ OnDisk(disk, k)
  /\ \E d \in Spilled(disk, Pushed(ram)) : disk' \in Removed(d, k)
  /\ ram' = RamAdd(ram, k, ValueOnDisk(disk, k))
  /\ reply' = <<"read", k, ValueOnDisk(disk, k)>>
  /\ UNCHANGED <<status, cursor>>

\* RemoveAndGet succeeds, and the resource moves to RAM.
ReadDisk(k) ==
  /\ Ready /\ ~InRam(ram, k) /\ OnDisk(disk, k)
  /\ \E d \in Removed(disk, k) : disk' \in Spilled(d, Pushed(ram))
  /\ ram' = RamAdd(ram, k, ValueOnDisk(disk, k))
  /\ reply' = <<"read", k, ValueOnDisk(disk, k)>>
  /\ UNCHANGED <<status, cursor>>

\* RemoveAndGet finds nothing or fails.
ReadFails(k) ==
  /\ Free /\ ~InRam(ram, k)
  /\ disk' \in IF OnDisk(disk, k) THEN NotRemoved(disk, k) ELSE {disk}
  /\ reply' = None
  /\ UNCHANGED <<ram, status, cursor>>

Read(k) == ReadRam(k) \/ ReadDisk(k) \/ ReadFails(k)

GetLastModified(k) ==
  /\ Free
  /\ reply' = IF InRam(ram, k) THEN <<"modified", k, ram.entry[k].modified>>
              ELSE IF status = "open" /\ disk.timestamp[k] # None
                   THEN <<"modified", k, disk.timestamp[k]>> ELSE None
  /\ UNCHANGED <<disk, ram, status, cursor>>

\* The callback of one of the calls on k never returns, with the mutex held.
Hang(k) ==
  /\ Ready
  /\ IF InRam(ram, k)
     THEN SpillHangs(disk, {k}) /\ UNCHANGED disk
     ELSE LET d == DeleteEntry(disk, k)
          IN  SpillHangs(d, Pushed(ram)) /\ disk' = d
  /\ status' = "hung"
  /\ reply' = None
  /\ UNCHANGED <<ram, cursor>>

-----------------------------------------------------------------------------
(* Close: one transaction per entry in RAM, the oldest first.              *)

\* Mutant: the oldest entry is skipped.
CloseSkipsOldest ==
  /\ status = "open" /\ disk.idCounter < MaxId
  /\ status' = "closing"
  /\ cursor' = Max({0} \cup {ram.pos[k] - 1 : k \in Keys})
  /\ reply' = None
  /\ UNCHANGED <<disk, ram>>

Close ==
  /\ status = "open" /\ disk.idCounter < MaxId
  /\ status' = "closing"
  /\ cursor' = Max({0} \cup {ram.pos[k] : k \in Keys})
  /\ reply' = None
  /\ UNCHANGED <<disk, ram>>

CloseSaves(k) ==
  /\ status = "closing" /\ cursor # 0 /\ ram.pos[k] = cursor
  /\ LoopEnds(disk)
  /\ disk' \in Saved(disk, k, ram.entry[k])
  /\ cursor' = cursor - 1
  /\ reply' = None
  /\ UNCHANGED <<ram, status>>

\* Close returns the error and leaves the database open.
CloseFails(k) ==
  /\ status = "closing" /\ cursor # 0 /\ ram.pos[k] = cursor
  /\ LoopEnds(disk)
  /\ disk' \in SaveFailed(disk, k, ram.entry[k])
  /\ status' = "open"
  /\ cursor' = 0
  /\ reply' = None
  /\ UNCHANGED ram

CloseHangs ==
  /\ status = "closing" /\ cursor # 0 /\ ~LoopEnds(disk)
  /\ status' = "hung"
  /\ reply' = None
  /\ UNCHANGED <<disk, ram, cursor>>

CloseEnds ==
  /\ status = "closing" /\ cursor = 0
  /\ status' = "closed"
  /\ reply' = None
  /\ UNCHANGED <<disk, ram, cursor>>

-----------------------------------------------------------------------------
(* The process stops at any time, possibly inside a call, and starts again.*)

\* The databases that exist between two transactions of a call on k.
MidCall(k) ==
  IF Ready THEN LetGo(k) \cup UNION {Removed(d, k) : d \in LetGo(k)} ELSE {}

Restart(limit) ==
  /\ \E d \in {disk} \cup UNION {MidCall(k) : k \in Keys} : disk' = Reopened(d, limit)
  /\ ram' = EmptyRam
  /\ status' = "open"
  /\ cursor' = 0
  /\ reply' = None

Next ==
  \/ \E k \in Keys : \/ \E v \in Values : Save(k, v)
                     \/ Delete(k)
                     \/ Read(k)
                     \/ GetLastModified(k)
                     \/ Hang(k)
                     \/ CloseSaves(k)
                     \/ CloseFails(k)
  \/ Close
  \/ CloseHangs
  \/ CloseEnds
  \/ \E limit \in Limits : Restart(limit)

Spec == Init /\ [][Next]_vars

-----------------------------------------------------------------------------
(* Properties.                                                             *)

\* The resource a Read would find.
Visible ==
  [k \in Keys |-> IF InRam(ram, k) THEN ram.entry[k]
                  ELSE IF OnDisk(disk, k) THEN ValueOnDisk(disk, k) ELSE None]

Map == INSTANCE CacheMap WITH map <- Visible

\* Reads return the resource as last saved or nothing, and a deleted resource
\* does not come back, across evictions, promotions, failed transactions,
\* Close and crashes between two transactions of a call.
MapRefinement == Map!Spec

\* The database is consistent between any two transactions.
DiskConsistent == IndexMatches(disk) /\ EntriesWhole(disk)

\* While the cache is open and nothing fails, a resource is in RAM or on disk,
\* never on both, and the entry counter is right.
Exclusive ==
  /\ status = "open" => \A k \in Keys : ~(InRam(ram, k) /\ OnDisk(disk, k))
  /\ CountMatches(disk)

\* A resource that is on both levels is the same on both.
LevelsAgree ==
  \A k \in Keys : InRam(ram, k) /\ OnDisk(disk, k) => ram.entry[k] = ValueOnDisk(disk, k)

\* No call blocks the mutex for ever.
NeverHung == status # "hung"

\* A read that moves a resource from disk to RAM makes the room the resource it
\* pushes out needs: no read loses anything.
ReadLosesNothing ==
  [][ \A k \in Keys : Read(k) /\ Cardinality(disk.index) <= disk.maxEntries
        => \A j \in Keys : Visible[j] # None => Visible'[j] = Visible[j] ]_vars

\* Close brings the most recently used resources to disk: as many as fit.
ClosePersists ==
  [][ status = "closing" /\ status' = "closed"
        => \A k \in Keys : ram.pos[k] \in 1 .. disk.maxEntries
             => OnDisk(disk, k) /\ ValueOnDisk(disk, k) = ram.entry[k] ]_vars
=============================================================================
