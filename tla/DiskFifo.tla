------------------------------ MODULE DiskFifo ------------------------------
(***************************************************************************)
(* What the disk cache promises when its transactions do not fail: a queue *)
(* of resources in the order they were saved, at most `limit` long, from   *)
(* which a save drops the oldest ones, and which survives restarts.        *)
(***************************************************************************)
EXTENDS Integers, SequencesExt

CONSTANTS Keys, Values, Limits, None

VARIABLES
  queue,    \* the stored resources, the oldest first
  limit,    \* the configured limit
  reply     \* what the last operation returned

vars == <<queue, limit, reply>>

\* A resource is stored once at most.
Without(q, k) ==
  IF \E i \in DOMAIN q : q[i].key = k
  THEN RemoveAt(q, CHOOSE i \in DOMAIN q : q[i].key = k)
  ELSE q

\* What is left of q when at most n resources may stay.
Newest(q, n) == SubSeq(q, Max({1, Len(q) - n + 1}), Len(q))

Stored(k) == {r \in Range(queue) : r.key = k}

Init == queue = <<>> /\ limit \in Limits /\ reply = None

\* Room is made before the older version of the same resource is dropped.
Save(k, v) ==
  /\ queue' = Append(Without(Newest(queue, limit - 1), k), [key |-> k, value |-> v])
  /\ reply' = None
  /\ UNCHANGED limit

Discard(k) ==
  /\ queue' = Without(queue, k)
  /\ reply' = None
  /\ UNCHANGED limit

Take(k) ==
  /\ queue' = Without(queue, k)
  /\ \/ Stored(k) = {} /\ reply' = None
     \/ \E r \in Stored(k) : reply' = r.value
  /\ UNCHANGED limit

Peek(k) ==
  /\ \/ Stored(k) = {} /\ reply' = None
     \/ \E r \in Stored(k) : reply' = r.value.modified
  /\ UNCHANGED <<queue, limit>>

Reconfigure ==
  /\ limit' \in Limits
  /\ reply' = None
  /\ UNCHANGED queue

Next ==
  \/ \E k \in Keys : \/ \E v \in Values : Save(k, v)
                     \/ Discard(k)
                     \/ Take(k)
                     \/ Peek(k)
  \/ Reconfigure

Spec == Init /\ [][Next]_vars
=============================================================================
