---------------------------- MODULE CacheHeaders ----------------------------
(***************************************************************************)
(* The two-level cache of Cache with the three operations on single HTTP   *)
(* headers (CacheHeader, GetHeader, GetHeadersForResource of               *)
(* src/server/pkg/cache/cache.go).  They look at RAM only: a header of a   *)
(* resource that is not in RAM gives rise to an entry without content.     *)
(* Their results are not kept in reply.                                    *)
(***************************************************************************)
EXTENDS Cache

CONSTANTS
  HeaderNames, HeaderValues,
  Resources,            \* what the server saves; Values also has the blank entries
  NoContent, NoTime     \* of a blank entry

ASSUME HeadersAssumption ==
  /\ Headers = UNION {[N -> HeaderValues] : N \in SUBSET HeaderNames}
  /\ Resources \subseteq Values
  /\ \A v \in Values, h \in Headers : [v EXCEPT !.headers = h] \in Values
  /\ \A h \in Headers : [content |-> NoContent, modified |-> NoTime, headers |-> h] \in Values

Blank == [content |-> NoContent, modified |-> NoTime, headers |-> NoHeaders]

\* headers[name] = value
WithHeader(v, name, value) ==
  [v EXCEPT !.headers =
     [n \in DOMAIN v.headers \cup {name} |-> IF n = name THEN value ELSE v.headers[n]]]

-----------------------------------------------------------------------------
CacheHeaderInRam(k, name, value) ==
  /\ Free /\ InRam(ram, k)
  /\ ram' = [Touch(ram, k) EXCEPT !.entry[k] = WithHeader(ram.entry[k], name, value)]
  /\ reply' = None
  /\ UNCHANGED <<disk, status, cursor>>

\* Mutant: the new entry takes its modification time from disk.
CacheHeaderStamped(k, name, value) ==
  /\ Ready /\ ~InRam(ram, k) /\ OnDisk(disk, k)
  /\ disk' \in Spilled(disk, Pushed(ram))
  /\ ram' = RamAdd(ram, k, WithHeader([Blank EXCEPT !.modified = disk.timestamp[k]], name, value))
  /\ reply' = None
  /\ UNCHANGED <<status, cursor>>

CacheHeaderNew(k, name, value) ==
  /\ Ready /\ ~InRam(ram, k)
  /\ disk' \in Spilled(disk, Pushed(ram))
  /\ ram' = RamAdd(ram, k, WithHeader(Blank, name, value))
  /\ reply' = None
  /\ UNCHANGED <<status, cursor>>

CacheHeader(k, name, value) ==
  CacheHeaderInRam(k, name, value) \/ CacheHeaderNew(k, name, value)

\* CacheHeader of a resource that is not in RAM never returns.
CacheHeaderHangs(k) ==
  /\ Ready /\ ~InRam(ram, k) /\ SpillHangs(disk, Pushed(ram))
  /\ status' = "hung"
  /\ reply' = None
  /\ UNCHANGED <<disk, ram, cursor>>

\* GetHeader and GetHeadersForResource: both move the entry to the front of the
\* list, also when the header is not there.
GetHeaders(k) ==
  /\ Free /\ InRam(ram, k)
  /\ ram' = Touch(ram, k)
  /\ reply' = None
  /\ UNCHANGED <<disk, status, cursor>>

NextWithHeaders ==
  \/ \E k \in Keys : \/ \E v \in Resources : Save(k, v)
                     \/ Delete(k)
                     \/ Read(k)
                     \/ GetLastModified(k)
                     \/ Hang(k)
                     \/ CloseSaves(k)
                     \/ CloseFails(k)
                     \/ \E name \in HeaderNames, value \in HeaderValues :
                          CacheHeader(k, name, value)
                     \/ CacheHeaderHangs(k)
                     \/ GetHeaders(k)
  \/ Close
  \/ CloseHangs
  \/ CloseEnds
  \/ \E limit \in Limits : Restart(limit)

SpecWithHeaders == Init /\ [][NextWithHeaders]_vars

-----------------------------------------------------------------------------
(* Properties.                                                             *)

\* The content and the modification time of a resource that can be read, or of
\* one that is hidden on disk behind a blank entry, come from the same save;
\* the disk keeps them under two keys, and CacheHeader changes entries in place.
PartsTogether ==
  \A v \in {Visible[k] : k \in Keys} \cup {ValueOnDisk(disk, k) : k \in {j \in Keys : OnDisk(disk, j)}} :
    v # None => \E r \in Resources \cup {Blank} : r.content = v.content /\ r.modified = v.modified
=============================================================================
