------------------------------ MODULE CliProofs ------------------------------
(***************************************************************************)
(* Theorems about the commands of the command line interface, for any      *)
(* directories, chunks, metadata and numbers of runs, and, at the end,     *)
(* about the website and the index on the chain they change, for any files *)
(* and accounts.                                                           *)
(*                                                                         *)
(* Base is the inductive type invariant: the operations are well formed,   *)
(* and those of a phase are of its function.  PostsInv adds that the       *)
(* batches of an upload hold what ToPost says, UndisturbedInv that the     *)
(* operations that are left make of the website what the run promises.     *)
(***************************************************************************)
EXTENDS DewebChain, Cli, DewebSiteProofs, FiniteSetTheorems, SequenceTheorems,
        WellFoundedInduction, TLAPS

-----------------------------------------------------------------------------
(* Numbers, sets and lists.                                                *)

LEMMA LeastNatural ==
  ASSUME NEW S, S \subseteq Nat, S # {}
  PROVE  \E x \in S : \A y \in S : x <= y
<1> DEFINE R == {p \in Nat \X Nat : p[1] < p[2]}
<1>1. IsWellFoundedOn(R, Nat)
  <2>1. OpToRel(<, Nat) = R
    BY DEF OpToRel
  <2>. QED BY <2>1, NatLessThanWellFounded, Zenon
<1>2. \A x \in Nat, y \in Nat : <<y, x>> \in R <=> y < x
  OBVIOUS
<1> HIDE DEF R
<1>3. PICK x \in S : \A y \in S : <<y, x>> \notin R
  BY <1>1, WFMin
<1>4. ASSUME NEW y \in S PROVE x <= y
  <2>1. x \in Nat /\ y \in Nat
    OBVIOUS
  <2>2. ~(y < x)
    BY <1>2, <1>3, <2>1
  <2>. QED BY <2>1, <2>2
<1>. QED BY <1>4

\* Induction over a set of naturals.
LEMMA NaturalsInSet ==
  ASSUME NEW S, 0 \in S, \A n \in Nat : n \in S => n + 1 \in S
  PROVE  \A n \in Nat : n \in S
<1> DEFINE T == {n \in Nat : n \notin S}
<1>1. SUFFICES ASSUME T # {} PROVE FALSE
  OBVIOUS
<1>2. PICK n \in T : \A m \in T : n <= m
  BY <1>1, LeastNatural
<1>3. n \in Nat /\ n # 0 /\ n - 1 \in Nat
  OBVIOUS
<1>4. n - 1 \notin T
  BY <1>2, <1>3
<1>. QED BY <1>3, <1>4

\* Everything of a finite set is in its list, and nothing else.
LEMMA SetToSeqType ==
  ASSUME NEW S, IsFiniteSet(S)
  PROVE  /\ SetToSeq(S) \in Seq(S) /\ ToSet(SetToSeq(S)) = S
         /\ Len(SetToSeq(S)) = Cardinality(S) /\ Cardinality(S) \in Nat
<1> DEFINE n == Cardinality(S)
           f == SetToSeq(S)
<1>1. n \in Nat /\ ExistsBijection(1 .. n, S)
  BY FS_CardinalityType
<1>2. \E g \in [1 .. n -> S] : IsInjective(g)
  BY <1>1 DEF ExistsBijection, Bijection, Injection, IsInjective
<1>3. f \in [1 .. n -> S] /\ IsInjective(f)
  BY <1>2 DEF SetToSeq
<1>4. IsFiniteSet(1 .. n) /\ Cardinality(1 .. n) = n
  BY <1>1, FS_Interval
<1>5. f \in Injection(1 .. n, S)
  BY <1>3 DEF Injection, IsInjective
<1>6. f \in Surjection(1 .. n, S)
  BY <1>4, <1>5, FS_Injection
<1>. HIDE DEF f, n
<1>7. f \in Seq(S) /\ Len(f) = n
  BY <1>1, <1>3
<1>8. ToSet(f) = S
  BY <1>1, <1>3, <1>6 DEF ToSet, Surjection
<1>. QED BY <1>1, <1>7, <1>8 DEF f, n

-----------------------------------------------------------------------------
(* The lists of filesInit.                                                 *)

LEMMA MinOfTwo ==
  ASSUME NEW a \in Int, NEW b \in Int
  PROVE  Min({a, b}) \in {a, b} /\ Min({a, b}) <= a /\ Min({a, b}) <= b
BY DEF Min

LEMMA MaxOfThree ==
  ASSUME NEW a \in Nat, NEW b \in Nat, NEW c \in Nat
  PROVE  Max({a, b, c}) \in Nat /\ a <= Max({a, b, c}) /\ b <= Max({a, b, c})
         /\ c <= Max({a, b, c})
<1>1. \E x \in {a, b, c} : \A y \in {a, b, c} : x >= y
  OBVIOUS
<1>. QED BY <1>1 DEF Max

\* The n-th element is in the k-th part, and there are as many calls.
LEMMA PartOf ==
  ASSUME NEW n \in Nat \ {0}, NEW longest \in Nat, n <= longest
  PROVE  \E k \in 1 .. (longest + BatchSize - 1) \div BatchSize :
           (k - 1) * BatchSize + 1 <= n /\ n <= k * BatchSize
<1> DEFINE B == BatchSize
           k == (n + B - 1) \div B
           number == (longest + B - 1) \div B
<1>1. B \in Nat \ {0}
  BY CliAssumption
<1>2. \A x \in Nat : /\ x \div B \in Nat
                     /\ (x \div B) * B <= x /\ x < (x \div B) * B + B
  BY <1>1
<1>3. number \in Nat /\ number * B <= longest + B - 1 /\ longest + B - 1 < number * B + B
  BY <1>1, <1>2
<1>4. k \in Nat /\ k * B <= n + B - 1 /\ n + B - 1 < k * B + B
  BY <1>1, <1>2
<1>. HIDE DEF k, number, B
<1>5. k >= 1
  BY <1>1, <1>4
<1>6. k <= number
  BY <1>1, <1>3, <1>4
<1>7. (k - 1) * B + 1 <= n /\ n <= k * B
  BY <1>1, <1>4
<1>. QED BY <1>3, <1>4, <1>5, <1>6, <1>7 DEF number, B

\* A part of a list has nothing but elements of the list.
LEMMA SliceType ==
  ASSUME NEW S, NEW list \in Seq(S), NEW k \in Nat \ {0}
  PROVE  /\ ToSet(Slice(list, k)) \subseteq ToSet(list)
         /\ \A n \in 1 .. Len(list) : (k - 1) * BatchSize + 1 <= n /\ n <= k * BatchSize
               => list[n] \in ToSet(Slice(list, k))
<1> DEFINE len == Len(list)
           first == (k - 1) * BatchSize + 1
           end == k * BatchSize
           last == Min({end, len})
<1>1. first \in Nat \ {0} /\ end \in Nat
  <2>1. BatchSize \in Nat \ {0}
    BY CliAssumption
  <2>. QED BY <2>1
<1>2. len \in Nat /\ DOMAIN list = 1 .. len /\ \A n \in 1 .. len : list[n] \in S
  OBVIOUS
<1>. HIDE DEF len, first, end
<1>3. last \in {end, len} /\ last <= end /\ last <= len
  <2>1. end \in Int /\ len \in Int
    BY <1>1, <1>2
  <2>. QED BY <2>1, MinOfTwo, Zenon
<1>. HIDE DEF last
<1>4. last \in Int /\ \A n \in first .. last : n \in 1 .. len /\ list[n] \in S
  BY <1>1, <1>2, <1>3
<1>. DEFINE slice == Slice(list, k)
<1>5. slice = SubSeq(list, first, last)
  BY DEF Slice, first, end, last, len
<1>. HIDE DEF slice
<1>6. /\ DOMAIN slice = 1 .. last - first + 1
      /\ \A n \in 1 .. last - first + 1 : slice[n] = list[first + n - 1]
  <2>1. /\ SubSeq(list, first, last) \in Seq(S)
        /\ Len(SubSeq(list, first, last)) = IF first <= last THEN last - first + 1 ELSE 0
        /\ \A n \in 1 .. last - first + 1 : SubSeq(list, first, last)[n] = list[first + n - 1]
    BY <1>1, <1>4, SubSeqProperties
  <2>2. DOMAIN slice = 1 .. Len(slice)
    BY <1>5, <2>1
  <2>3. CASE first <= last
    BY <1>5, <2>1, <2>2, <2>3
  <2>4. CASE ~(first <= last)
    <3>1. 1 .. last - first + 1 = {} /\ 1 .. 0 = {}
      BY <1>1, <1>4, <2>4
    <3>. QED BY <1>5, <2>1, <2>2, <2>4, <3>1
  <2>. QED BY <2>3, <2>4
<1>7. ASSUME NEW e \in ToSet(slice) PROVE e \in ToSet(list)
  <2>1. PICK n \in DOMAIN slice : e = slice[n]
    BY DEF ToSet
  <2>2. n \in 1 .. last - first + 1 /\ first + n - 1 \in first .. last
    BY <1>1, <1>4, <1>6
  <2>. QED BY <1>2, <1>4, <1>6, <2>1, <2>2 DEF ToSet
<1>8. ASSUME NEW n \in 1 .. len, first <= n, n <= end
      PROVE  list[n] \in ToSet(slice)
  <2>1. n \in Nat /\ n <= last
    BY <1>1, <1>2, <1>3, <1>8
  <2>. DEFINE m == n - first + 1
  <2>2. m \in 1 .. last - first + 1 /\ first + m - 1 = n /\ first <= last
    BY <1>1, <1>4, <1>8, <2>1
  <2>. HIDE DEF m
  <2>3. slice[m] = list[n] /\ m \in DOMAIN slice
    BY <1>1, <1>4, <1>6, <2>2
  <2>. QED BY <2>3 DEF ToSet
<1>. QED BY <1>7, <1>8 DEF first, end, slice, len

LEMMA SliceCovers ==
  ASSUME NEW S, NEW list \in Seq(S), NEW longest \in Nat, Len(list) <= longest,
         NEW e \in ToSet(list)
  PROVE  \E k \in 1 .. (longest + BatchSize - 1) \div BatchSize : e \in ToSet(Slice(list, k))
<1>1. PICK n \in 1 .. Len(list) : e = list[n]
  BY DEF ToSet
<1>2. n \in Nat \ {0} /\ n <= longest
  OBVIOUS
<1>3. PICK k \in 1 .. (longest + BatchSize - 1) \div BatchSize :
        (k - 1) * BatchSize + 1 <= n /\ n <= k * BatchSize
  BY <1>2, PartOf
<1>4. k \in Nat \ {0}
  <2>1. BatchSize \in Nat \ {0}
    BY CliAssumption
  <2>. QED BY <2>1
<1>. QED BY <1>1, <1>3, <1>4, SliceType

-----------------------------------------------------------------------------
(* The content of a file on chain.                                         *)

LEMMA NumbersBelow ==
  ASSUME NEW n \in Nat
  PROVE  Cardinality(0 .. n - 1) = n
<1>1. Cardinality(0 .. n - 1) = IF 0 > n - 1 THEN 0 ELSE (n - 1) - 0 + 1
  BY FS_Interval
<1>. QED BY <1>1

\* When no chunk is missing it is all of them.
LEMMA OnChainWhole ==
  ASSUME NEW s, NEW content \in Seq(Data), s.count = Len(content),
         \A i \in DOMAIN content : s.chunks[i - 1] = content[i]
  PROVE  OnChain(s) = content
<1> DEFINE n == Len(content)
           found == {i \in 0 .. TotalChunk(s) - 1 : s.chunks[i] # None}
           nth(k) == CHOOSE i \in found : Cardinality({j \in found : j < i}) = k - 1
<1>1. n \in Nat /\ TotalChunk(s) = n /\ DOMAIN content = 1 .. n
  BY SiteAssumption DEF TotalChunk
<1>. HIDE DEF n
<1>2. ASSUME NEW i \in 0 .. n - 1 PROVE s.chunks[i] = content[i + 1] /\ content[i + 1] \in Data
  <2>1. i + 1 \in 1 .. n /\ (i + 1) - 1 = i
    BY <1>1
  <2>. QED BY <1>1, <2>1
<1>3. found = 0 .. n - 1
  BY <1>1, <1>2, SiteAssumption
<1>4. Cardinality(found) = n
  BY <1>1, <1>3, NumbersBelow
<1>5. ASSUME NEW i \in 0 .. n - 1 PROVE Cardinality({j \in found : j < i}) = i
  <2>1. {j \in found : j < i} = 0 .. i - 1
    BY <1>1, <1>3
  <2>2. Cardinality(0 .. i - 1) = i
    BY <1>1, NumbersBelow
  <2>. QED BY <2>1, <2>2
<1>6. ASSUME NEW k \in 1 .. n PROVE nth(k) = k - 1
  <2>. HIDE DEF found
  <2>1. k - 1 \in 0 .. n - 1
    BY <1>1
  <2>2. \E i \in found : Cardinality({j \in found : j < i}) = k - 1
    BY <1>3, <1>5, <2>1
  <2>3. nth(k) \in found /\ Cardinality({j \in found : j < nth(k)}) = k - 1
    BY <2>2
  <2>. QED BY <1>3, <1>5, <2>3
<1>7. OnChain(s) = [k \in 1 .. Cardinality(found) |-> s.chunks[nth(k)]]
  BY DEF OnChain
<1>. HIDE DEF found, nth
<1>8. OnChain(s) = [k \in 1 .. n |-> s.chunks[k - 1]]
  BY <1>4, <1>6, <1>7
<1>9. OnChain(s) = [k \in 1 .. n |-> content[k]]
  BY <1>1, <1>8
<1>. QED BY <1>1, <1>9

-----------------------------------------------------------------------------
(* The batches of an upload.                                               *)

\* A function can be iterated.
LEMMA Iteration ==
  ASSUME NEW A, NEW a \in A, NEW F \in [A -> A]
  PROVE  \E g \in [Nat -> A] : g[0] = a /\ \A n \in Nat : g[n + 1] = F[g[n]]
<1> DEFINE Iterates(g, n) == /\ g \in [0 .. n -> A] /\ g[0] = a
                             /\ \A m \in 0 .. n : m + 1 \in 0 .. n => g[m + 1] = F[g[m]]
           S == {n \in Nat : \E g : Iterates(g, n)}
<1>1. \A n \in Nat : n \in S
  <2>1. 0 \in S
    <3>1. Iterates([m \in 0 .. 0 |-> a], 0)
      OBVIOUS
    <3>. QED BY <3>1
  <2>2. ASSUME NEW n \in Nat, n \in S PROVE n + 1 \in S
    <3>1. PICK g : Iterates(g, n)
      BY <2>2
    <3>. DEFINE h == [m \in 0 .. n + 1 |-> IF m \in 0 .. n THEN g[m] ELSE F[g[n]]]
    <3>2. n \in 0 .. n /\ 0 \in 0 .. n /\ g[n] \in A /\ F[g[n]] \in A
      BY <3>1
    <3>3. h \in [0 .. n + 1 -> A] /\ h[0] = a
      BY <3>1, <3>2
    <3>4. ASSUME NEW m \in 0 .. n + 1, m + 1 \in 0 .. n + 1
          PROVE  h[m + 1] = F[h[m]]
      <4>1. m \in 0 .. n /\ h[m] = g[m]
        BY <3>4
      <4>2. CASE m = n
        <5>1. m + 1 \notin 0 .. n
          BY <4>2
        <5>. QED BY <3>4, <4>1, <4>2, <5>1
      <4>3. CASE m # n
        <5>1. m + 1 \in 0 .. n
          BY <4>1, <4>3
        <5>. QED BY <3>1, <3>4, <4>1, <5>1
      <4>. QED BY <4>2, <4>3
    <3>5. Iterates(h, n + 1)
      BY <3>3, <3>4
    <3>. QED BY <3>5
  <2>. HIDE DEF S
  <2>. QED BY <2>1, <2>2, NaturalsInSet
<1>2. ASSUME NEW n \in Nat, NEW g, NEW h, Iterates(g, n), Iterates(h, n + 1)
      PROVE  g[n] = h[n]
  <2>. DEFINE T == {m \in Nat : m <= n => g[m] = h[m]}
  <2>1. 0 \in T
    BY <1>2
  <2>2. ASSUME NEW m \in Nat, m \in T PROVE m + 1 \in T
    <3>. SUFFICES ASSUME m + 1 <= n PROVE g[m + 1] = h[m + 1]
      OBVIOUS
    <3>1. /\ m \in 0 .. n /\ m + 1 \in 0 .. n /\ m \in 0 .. n + 1 /\ m + 1 \in 0 .. n + 1
          /\ g[m] = h[m]
      BY <2>2
    <3>. QED BY <1>2, <3>1
  <2>. HIDE DEF T
  <2>3. n \in T
    BY <2>1, <2>2, NaturalsInSet
  <2>. QED BY <2>3 DEF T
<1>. DEFINE it(n) == CHOOSE g : Iterates(g, n)
            G == [n \in Nat |-> it(n)[n]]
<1>3. \A n \in Nat : Iterates(it(n), n)
  BY <1>1
<1>. HIDE DEF it
<1>4. G \in [Nat -> A] /\ G[0] = a
  BY <1>3
<1>5. ASSUME NEW n \in Nat PROVE G[n + 1] = F[G[n]]
  <2>1. Iterates(it(n), n) /\ Iterates(it(n + 1), n + 1)
    BY <1>3
  <2>2. it(n)[n] = it(n + 1)[n]
    BY <1>2, <2>1
  <2>3. it(n + 1)[n + 1] = F[it(n + 1)[n]]
    BY <2>1
  <2>. QED BY <2>2, <2>3
<1>. QED BY <1>4, <1>5

LEMMA BytesOfOne ==
  ASSUME NEW d, NEW p, Size(DataOf(d, p)) \in Nat
  PROVE  BatchBytes(d, {p}) = Size(DataOf(d, p))
<1> DEFINE n == Size(DataOf(d, p))
           g == [s \in SUBSET {p} |-> IF s = {} THEN 0 ELSE n]
           Sums(f) == f = [s \in SUBSET {p} |->
                             IF s = {} THEN 0
                             ELSE LET x == CHOOSE y \in s : TRUE
                                  IN  Size(DataOf(d, x)) + f[s \ {x}]]
           iter == CHOOSE f : Sums(f)
<1>1. ASSUME NEW s \in SUBSET {p}, s # {}
      PROVE  s = {p} /\ (CHOOSE y \in s : TRUE) = p /\ s \ {p} = {}
  BY <1>1
<1>2. Sums(g)
  <2>1. ASSUME NEW s \in SUBSET {p}, s # {}
        PROVE  n = LET x == CHOOSE y \in s : TRUE IN Size(DataOf(d, x)) + g[s \ {x}]
    BY <1>1, <2>1
  <2>. QED BY <2>1
<1>3. Sums(iter)
  BY <1>2
<1>. HIDE DEF iter
<1>4. iter[{}] = 0
  BY <1>3
<1>5. iter[{p}] = n + iter[{}]
  <2>. DEFINE x == CHOOSE y \in {p} : TRUE
  <2>1. x = p /\ {p} \ {x} = {}
    BY <1>1
  <2>2. iter[{p}] = Size(DataOf(d, x)) + iter[{p} \ {x}]
    BY <1>3
  <2>. HIDE DEF x
  <2>. QED BY <2>1, <2>2
<1>6. BatchBytes(d, {p}) = iter[{p}]
  BY DEF BatchBytes, MapThenSumSet, MapThenFoldSet, iter
<1>. QED BY <1>4, <1>5, <1>6

\* The batches hold each chunk of S once, and none is too large.
BatchesHold(d, batches, S) ==
  /\ \A b \in DOMAIN batches : batches[b] \subseteq S /\ BatchBytes(d, batches[b]) <= ChunkSize
  /\ \A p \in S : \E b \in DOMAIN batches : p \in batches[b]
  /\ \A b, c \in DOMAIN batches : batches[b] \cap batches[c] # {} => b = c

LEMMA PlacedHolds ==
  ASSUME NEW d, NEW S, NEW batches \in Seq(SUBSET S), BatchesHold(d, batches, S),
         NEW p, p \notin S, Size(DataOf(d, p)) \in 1 .. ChunkSize
  PROVE  BatchesHold(d, Placed(d, batches, p), S \cup {p})
<1> DEFINE fitting == {b \in DOMAIN batches : BatchBytes(d, batches[b] \cup {p}) <= ChunkSize}
           n == Len(batches)
<1>1. n \in Nat /\ DOMAIN batches = 1 .. n
  OBVIOUS
<1>. HIDE DEF n
<1>2. CASE fitting = {}
  <2>. DEFINE new == Append(batches, {p})
  <2>1. /\ DOMAIN new = 1 .. n + 1 /\ new[n + 1] = {p}
        /\ \A b \in 1 .. n : new[b] = batches[b]
    BY DEF n
  <2>2. Placed(d, batches, p) = new
    BY <1>2 DEF Placed
  <2>. HIDE DEF new
  <2>3. BatchBytes(d, {p}) <= ChunkSize
    BY BytesOfOne
  <2>4. \A b \in DOMAIN new : new[b] \subseteq S \cup {p} /\ BatchBytes(d, new[b]) <= ChunkSize
    <3>. SUFFICES ASSUME NEW b \in 1 .. n + 1
                  PROVE  new[b] \subseteq S \cup {p} /\ BatchBytes(d, new[b]) <= ChunkSize
      BY <2>1
    <3>1. b \in 1 .. n \/ b = n + 1
      BY <1>1
    <3>. QED BY <1>1, <2>1, <2>3, <3>1 DEF BatchesHold
  <2>5. \A q \in S \cup {p} : \E b \in DOMAIN new : q \in new[b]
    BY <1>1, <2>1 DEF BatchesHold
  <2>6. ASSUME NEW b \in DOMAIN new, NEW c \in DOMAIN new, new[b] \cap new[c] # {} PROVE b = c
    <3>1. (b \in 1 .. n \/ b = n + 1) /\ (c \in 1 .. n \/ c = n + 1)
      BY <1>1, <2>1
    <3>. QED BY <1>1, <2>1, <2>6, <3>1 DEF BatchesHold
  <2>. QED BY <2>2, <2>4, <2>5, <2>6 DEF BatchesHold
<1>3. CASE fitting # {}
  <2>. DEFINE m == Min(fitting)
              new == [batches EXCEPT ![m] = @ \cup {p}]
  <2>1. m \in fitting
    <3>1. fitting \subseteq Nat
      BY <1>1
    <3>. HIDE DEF fitting
    <3>2. \E x \in fitting : \A y \in fitting : x <= y
      BY <1>3, <3>1, LeastNatural
    <3>. QED BY <3>2 DEF Min
  <2>2. Placed(d, batches, p) = new
    BY <1>3 DEF Placed
  <2>3. m \in DOMAIN batches /\ BatchBytes(d, batches[m] \cup {p}) <= ChunkSize
    BY <2>1
  <2>. HIDE DEF m
  <2>4. /\ DOMAIN new = DOMAIN batches /\ new[m] = batches[m] \cup {p}
        /\ \A b \in DOMAIN batches \ {m} : new[b] = batches[b]
    BY <2>3
  <2>. HIDE DEF new
  <2>5. \A b \in DOMAIN new : new[b] \subseteq S \cup {p} /\ BatchBytes(d, new[b]) <= ChunkSize
    <3>. SUFFICES ASSUME NEW b \in DOMAIN new
                  PROVE  new[b] \subseteq S \cup {p} /\ BatchBytes(d, new[b]) <= ChunkSize
      OBVIOUS
    <3>1. CASE b = m
      BY <2>3, <2>4, <3>1 DEF BatchesHold
    <3>2. CASE b # m
      BY <2>4, <3>2 DEF BatchesHold
    <3>. QED BY <3>1, <3>2
  <2>6. \A q \in S \cup {p} : \E b \in DOMAIN new : q \in new[b]
    BY <2>3, <2>4 DEF BatchesHold
  <2>7. ASSUME NEW b \in DOMAIN new, NEW c \in DOMAIN new, new[b] \cap new[c] # {} PROVE b = c
    <3>1. \A e \in DOMAIN batches : p \notin batches[e]
      BY DEF BatchesHold
    <3>2. batches[b] \cap batches[c] # {} \/ b = c
      BY <2>3, <2>4, <2>7, <3>1
    <3>. QED BY <2>4, <3>2 DEF BatchesHold
  <2>. QED BY <2>2, <2>5, <2>6, <2>7 DEF BatchesHold
<1>. QED BY <1>2, <1>3

LEMMA PlacedType ==
  ASSUME NEW d, NEW U, NEW batches \in Seq(SUBSET U), NEW p \in U
  PROVE  Placed(d, batches, p) \in Seq(SUBSET U)
<1> DEFINE fitting == {b \in DOMAIN batches : BatchBytes(d, batches[b] \cup {p}) <= ChunkSize}
           n == Len(batches)
<1>1. n \in Nat /\ DOMAIN batches = 1 .. n /\ \A b \in 1 .. n : batches[b] \subseteq U
  OBVIOUS
<1>2. CASE fitting = {}
  BY <1>2 DEF Placed
<1>3. CASE fitting # {}
  <2>. DEFINE m == Min(fitting)
              new == [batches EXCEPT ![m] = @ \cup {p}]
  <2>1. Placed(d, batches, p) = new
    BY <1>3 DEF Placed
  <2>. HIDE DEF m, n
  <2>2. DOMAIN new = 1 .. n /\ \A b \in 1 .. n : new[b] \in SUBSET U
    BY <1>1
  <2>3. new \in [1 .. n -> SUBSET U]
    BY <1>1, <2>2
  <2>. HIDE DEF new
  <2>4. new \in Seq(SUBSET U)
    BY <1>1, <2>3
  <2>. QED BY <2>1, <2>4
<1>. QED BY <1>2, <1>3

\* The largest of some chunks is one of them.
LEMMA LargestOfSome ==
  ASSUME NEW d, NEW S, S # {}, \A p \in S : Size(DataOf(d, p)) \in 1 .. ChunkSize
  PROVE  Largest(d, S) \in S
<1> DEFINE T == {n \in Nat : \E p \in S : n + Size(DataOf(d, p)) = ChunkSize}
<1>1. T \subseteq Nat /\ T # {}
  <2>1. PICK p \in S : Size(DataOf(d, p)) \in 1 .. ChunkSize
    OBVIOUS
  <2>2. ChunkSize - Size(DataOf(d, p)) \in Nat
        /\ (ChunkSize - Size(DataOf(d, p))) + Size(DataOf(d, p)) = ChunkSize
    BY <2>1, CliAssumption
  <2>. QED BY <2>2
<1>2. PICK n \in T : \A y \in T : n <= y
  BY <1>1, LeastNatural
<1>3. PICK p \in S : n + Size(DataOf(d, p)) = ChunkSize
  BY <1>2
<1>4. ASSUME NEW q \in S PROVE Size(DataOf(d, q)) <= Size(DataOf(d, p))
  <2>1. /\ Size(DataOf(d, p)) \in 1 .. ChunkSize /\ Size(DataOf(d, q)) \in 1 .. ChunkSize
        /\ ChunkSize \in Nat
    BY CliAssumption
  <2>2. ChunkSize - Size(DataOf(d, q)) \in T
    BY <2>1
  <2>3. n <= ChunkSize - Size(DataOf(d, q)) /\ n \in Nat
    BY <1>2, <2>2
  <2>. QED BY <1>3, <2>1, <2>3
<1>. QED BY <1>4 DEF Largest

\* First fit decreasing: the batches hold each of the chunks once.
LEMMA BatcherHolds ==
  ASSUME NEW d, NEW chunks, IsFiniteSet(chunks),
         \A p \in chunks : Size(DataOf(d, p)) \in 1 .. ChunkSize
  PROVE  /\ Batcher(d, chunks) \in Seq(SUBSET chunks)
         /\ BatchesHold(d, Batcher(d, chunks), chunks)
<1> DEFINE after(x) == LET p == Largest(d, x.left)
                       IN  [left |-> x.left \ {p}, batches |-> Placed(d, x.batches, p)]
           start == [left |-> chunks, batches |-> << >>]
           Runs(f) == f = [n \in Nat |-> IF n = 0 THEN start ELSE after(f[n - 1])]
           state == CHOOSE f : Runs(f)
           N == Cardinality(chunks)
<1>1. N \in Nat
  BY FS_CardinalityType
<1>2. Batcher(d, chunks) = state[N].batches
  BY DEF Batcher
<1>3. Runs(state)
  <2>. DEFINE U == chunks \cup {Largest(d, S) : S \in SUBSET chunks}
              A == [left : SUBSET chunks, batches : Seq(SUBSET U)]
              F == [x \in A |-> after(x)]
  <2>1. start \in A
    OBVIOUS
  <2>2. ASSUME NEW x \in A PROVE after(x) \in A
    <3>1. Largest(d, x.left) \in U
      OBVIOUS
    <3>. HIDE DEF U
    <3>2. Placed(d, x.batches, Largest(d, x.left)) \in Seq(SUBSET U)
      BY <3>1, PlacedType
    <3>. QED BY <3>2
  <2>3. F \in [A -> A]
    BY <2>2
  <2>. HIDE DEF F, A, start
  <2>4. PICK g \in [Nat -> A] : g[0] = start /\ \A n \in Nat : g[n + 1] = F[g[n]]
    BY <2>1, <2>3, Iteration
  <2>5. \A n \in Nat : g[n] = IF n = 0 THEN start ELSE after(g[n - 1])
    <3>. SUFFICES ASSUME NEW n \in Nat, n # 0 PROVE g[n] = after(g[n - 1])
      BY <2>4
    <3>1. n - 1 \in Nat /\ (n - 1) + 1 = n
      OBVIOUS
    <3>2. g[n] = F[g[n - 1]] /\ g[n - 1] \in A
      BY <2>4, <3>1
    <3>. QED BY <3>2 DEF F
  <2>. HIDE DEF after
  <2>6. Runs(g)
    BY <2>5
  <2>. HIDE DEF Runs
  <2>. QED BY <2>6
<1>4. state[0] = start
  <2>. HIDE DEF state, start, after
  <2>1. state[0] = IF 0 = 0 THEN start ELSE after(state[0 - 1])
    BY <1>3
  <2>. QED BY <2>1
<1>5. ASSUME NEW n \in Nat PROVE state[n + 1] = after(state[n])
  <2>. HIDE DEF state, start, after
  <2>1. state[n + 1] = IF n + 1 = 0 THEN start ELSE after(state[(n + 1) - 1])
    BY <1>3
  <2>2. n + 1 # 0 /\ (n + 1) - 1 = n
    OBVIOUS
  <2>. QED BY <2>1, <2>2
<1>. HIDE DEF state, Runs, N
<1>. DEFINE Holds(x) == /\ x.left \subseteq chunks /\ x.batches \in Seq(SUBSET chunks)
                        /\ BatchesHold(d, x.batches, chunks \ x.left)
            S == {n \in Nat : n <= N => Holds(state[n]) /\ Cardinality(state[n].left) = N - n}
<1>6. 0 \in S
  <2>1. Holds(start)
    BY DEF BatchesHold
  <2>2. Cardinality(start.left) = N - 0
    BY <1>1 DEF N
  <2>. QED BY <1>4, <2>1, <2>2
<1>7. ASSUME NEW n \in Nat, n \in S PROVE n + 1 \in S
  <2>. SUFFICES ASSUME n + 1 <= N
                PROVE  Holds(state[n + 1]) /\ Cardinality(state[n + 1].left) = N - (n + 1)
    OBVIOUS
  <2>. DEFINE x == state[n]
              y == state[n + 1]
              p == Largest(d, x.left)
              P == chunks \ x.left
              new == Placed(d, x.batches, p)
  <2>1. n <= N
    BY <1>1
  <2>2. Holds(x) /\ Cardinality(x.left) = N - n
    BY <1>7, <2>1
  <2>3. y.left = x.left \ {p} /\ y.batches = new
    <3>1. y = [left |-> x.left \ {p}, batches |-> new]
      BY <1>5
    <3>. HIDE DEF x, y, p, new
    <3>. QED BY <3>1
  <2>. HIDE DEF x, y
  <2>4. IsFiniteSet(x.left)
    BY <2>2, FS_Subset
  <2>5. x.left # {}
    <3>1. Cardinality(x.left) # 0
      BY <1>1, <2>2
    <3>. QED BY <2>4, <3>1, FS_EmptySet
  <2>6. p \in x.left
    BY <2>2, <2>5, LargestOfSome
  <2>. HIDE DEF p
  <2>7. Cardinality(x.left \ {p}) = N - (n + 1)
    <3>1. Cardinality(x.left \ {p}) =
            IF p \in x.left THEN Cardinality(x.left) - 1 ELSE Cardinality(x.left)
      BY <2>4, FS_RemoveElement
    <3>. QED BY <1>1, <2>2, <2>6, <3>1
  <2>8. p \notin P /\ P \cup {p} = chunks \ (x.left \ {p}) /\ p \in chunks
    BY <2>2, <2>6
  <2>9. BatchesHold(d, new, P \cup {p})
    <3>1. x.batches \in Seq(SUBSET P)
      <4>1. \A b \in DOMAIN x.batches : x.batches[b] \subseteq P
        BY <2>2 DEF BatchesHold
      <4>. QED BY <2>2, <4>1
    <3>. HIDE DEF P
    <3>. QED BY <2>2, <2>8, <3>1, PlacedHolds DEF P
  <2>10. new \in Seq(SUBSET chunks)
    BY <2>2, <2>8, PlacedType
  <2>. HIDE DEF new, P
  <2>11. BatchesHold(d, y.batches, chunks \ y.left)
    BY <2>3, <2>8, <2>9, Zenon
  <2>12. y.left \subseteq chunks
    BY <2>2, <2>3
  <2>13. y.batches \in Seq(SUBSET chunks) /\ Cardinality(y.left) = N - (n + 1)
    BY <2>3, <2>7, <2>10, Zenon
  <2>. QED BY <2>11, <2>12, <2>13 DEF y
<1>8. Holds(state[N]) /\ Cardinality(state[N].left) = N - N
  <2>. HIDE DEF S
  <2>1. N \in S
    BY <1>1, <1>6, <1>7, NaturalsInSet
  <2>2. N <= N
    BY <1>1
  <2>. HIDE DEF Holds
  <2>. QED BY <2>1, <2>2 DEF S
<1>9. state[N].left = {}
  <2>1. Cardinality(state[N].left) = 0
    BY <1>1, <1>8
  <2>2. IsFiniteSet(state[N].left)
    BY <1>8, FS_Subset
  <2>. QED BY <2>1, <2>2, FS_EmptySet
<1>10. chunks \ state[N].left = chunks
  BY <1>9
<1>11. BatchesHold(d, state[N].batches, chunks)
  BY <1>8, <1>10, Zenon
<1>. QED BY <1>2, <1>8, <1>11, Zenon

-----------------------------------------------------------------------------
(* The types.                                                              *)

Inited == [totalChunk : 1 .. MaxChunks, metadata : {<< >>}]

FilesInitOps ==
  [ fn : {"filesInit"}, run : 1 .. MaxRuns, deletes : SUBSET Files,
    metas : Pairs(MetaKeys, MetaValues), inits : Pairs(Files, Inited) ]
UploadOps ==
  [fn : {"uploadFileChunks"}, run : 1 .. MaxRuns, posts : Pairs(Files \X Indices, Data)]
DeleteOps == [fn : {"deleteFiles"}, run : 1 .. MaxRuns, files : SUBSET Files]
RemoveOps == [fn : {"removeMetadataGlobal"}, run : 1 .. MaxRuns, keys : SUBSET MetaKeys]
PlainOps == [fn : {"purge", "setOwner"}, run : 1 .. MaxRuns]
MetadataOps ==
  [ fn : {"metadata"}, run : 1 .. MaxRuns, file : Files \cup {None}, key : MetaKeys,
    value : MetaValues \cup {None} ]

Ops == FilesInitOps \cup UploadOps \cup DeleteOps \cup RemoveOps \cup PlainOps \cup MetadataOps

Plans == [name : {"deploy", "init", "upload", "delete", "remove", "purge", "setOwner", "metadata"},
          ops : Seq(Ops)]

Statuses == {"waiting", "sent", "success", "error", "unanswered", "thrown"}
Chains == {"none", "pending", "ok", "refused"}
CallRecords == [op : Ops, status : Statuses, chain : Chains]

\* What the interface has in memory, and what is loose.
TypesOK ==
  /\ pc \in {"idle", "reading", "calling", "done", "failed", "aborted"}
  /\ run \in 0 .. MaxRuns /\ command \in Commands \cup {"none"}
  /\ pc \in {"reading", "calling"} => run # 0
  /\ directory \in Directories \cup {<< >>}
  /\ calls \in Seq(CallRecords) /\ plan \in Seq(Plans)
  /\ loose \subseteq Ops
  /\ \A op \in loose : op.run <= run
  /\ \A i \in DOMAIN calls : calls[i].op.run <= run
  /\ \A n \in DOMAIN plan : \A k \in DOMAIN plan[n].ops : plan[n].ops[k].run <= run
  /\ disturbed \in BOOLEAN

\* The website.
WebsiteOK ==
  /\ code \in {"website", "none"} /\ (code = "website" => owner \in {Publisher, Nobody})
  /\ \A f \in Files : files[f].count # 0

\* The function of an operation tells its fields.
LEMMA OpFields ==
  ASSUME NEW op \in Ops
  PROVE  /\ op.run \in 1 .. MaxRuns
         /\ op.fn = "filesInit" => op \in FilesInitOps
         /\ op.fn = "uploadFileChunks" => op \in UploadOps
         /\ op.fn = "deleteFiles" => op \in DeleteOps
         /\ op.fn = "removeMetadataGlobal" => op \in RemoveOps
         /\ op.fn = "metadata" => op \in MetadataOps
<1>1. /\ op \in FilesInitOps => op.fn = "filesInit" /\ op.run \in 1 .. MaxRuns
      /\ op \in UploadOps => op.fn = "uploadFileChunks" /\ op.run \in 1 .. MaxRuns
      /\ op \in DeleteOps => op.fn = "deleteFiles" /\ op.run \in 1 .. MaxRuns
      /\ op \in RemoveOps => op.fn = "removeMetadataGlobal" /\ op.run \in 1 .. MaxRuns
      /\ op \in PlainOps => op.fn \in {"purge", "setOwner"} /\ op.run \in 1 .. MaxRuns
      /\ op \in MetadataOps => op.fn = "metadata" /\ op.run \in 1 .. MaxRuns
  BY DEF FilesInitOps, UploadOps, DeleteOps, RemoveOps, PlainOps, MetadataOps
<1>2. \/ op \in FilesInitOps \/ op \in UploadOps \/ op \in DeleteOps \/ op \in RemoveOps
      \/ op \in PlainOps \/ op \in MetadataOps
  BY DEF Ops
<1>. QED BY <1>1, <1>2

\* Pairs of a smaller set of values.
LEMMA PairsGrow ==
  ASSUME NEW S, NEW T, NEW V, T \subseteq V, NEW p \in Pairs(S, T)
  PROVE  p \in Pairs(S, V)
<1>1. PICK D \in SUBSET S : p \in [D -> T]
  BY DEF Pairs
<1>2. p \in [D -> V]
  BY <1>1
<1>. QED BY <1>2 DEF Pairs

LEMMA NoPairs ==
  ASSUME NEW S, NEW T
  PROVE  << >> \in Pairs(S, T)
<1>1. << >> \in [{} -> T] /\ {} \in SUBSET S
  OBVIOUS
<1>. QED BY <1>1 DEF Pairs

LEMMA OnePair ==
  ASSUME NEW S, NEW T, NEW k \in S, NEW v \in T
  PROVE  [m \in {k} |-> v] \in Pairs(S, T)
<1>1. [m \in {k} |-> v] \in [{k} -> T] /\ {k} \in SUBSET S
  OBVIOUS
<1>. QED BY <1>1 DEF Pairs

LEMMA InitsType == Pairs(Files, Inited) \subseteq Inits
<1>1. << >> \in Pairs(MetaKeys, MetaValues)
  BY NoPairs
<1>2. Inited \subseteq [totalChunk : 0 .. MaxChunks, metadata : Pairs(MetaKeys, MetaValues)]
  BY <1>1, SiteAssumption DEF Inited
<1>. QED BY <1>2, PairsGrow DEF Inits

\* An operation of the interface is a call of the contract.
LEMMA EffectCalls ==
  ASSUME NEW op \in Ops, Effect(op)
  PROVE  Next
<1>1. Publisher \in Callers /\ {} \in SUBSET MetaKeys
  BY CliAssumption
<1>2. CASE op.fn = "filesInit" /\ FilesInit(Publisher, {}, op.deletes, op.metas, op.inits)
  <2>1. /\ op.deletes \in SUBSET Files /\ op.metas \in Pairs(MetaKeys, MetaValues)
        /\ op.inits \in Inits
    BY <1>2, OpFields, InitsType DEF FilesInitOps
  <2>. QED BY <1>1, <1>2, <2>1, Zenon DEF Next
<1>3. CASE op.fn = "uploadFileChunks" /\ UploadFileChunks(Publisher, op.posts)
  <2>1. op.posts \in Pairs(Files \X Indices, Data)
    BY <1>3, OpFields DEF UploadOps
  <2>. QED BY <1>1, <1>3, <2>1, Zenon DEF Next
<1>4. CASE op.fn = "deleteFiles" /\ DeleteFiles(Publisher, op.files)
  <2>1. op.files \in SUBSET Files
    BY <1>4, OpFields DEF DeleteOps
  <2>. QED BY <1>1, <1>4, <2>1, Zenon DEF Next
<1>5. CASE op.fn = "removeMetadataGlobal" /\ RemoveMetadataGlobal(Publisher, op.keys)
  <2>1. op.keys \in SUBSET MetaKeys
    BY <1>5, OpFields DEF RemoveOps
  <2>. QED BY <1>1, <1>5, <2>1, Zenon DEF Next
<1>6. CASE op.fn = "purge" /\ Purge(Publisher)
  BY <1>1, <1>6, Zenon DEF Next
<1>7. CASE op.fn = "setOwner" /\ SetOwner(Publisher, Nobody)
  <2>1. Nobody \in Callers \cup {Nobody}
    OBVIOUS
  <2>. QED BY <1>1, <1>7, <2>1, Zenon DEF Next
<1>8. CASE /\ op.fn = "metadata"
           /\ \/ /\ op.file = None /\ op.value = None
                 /\ RemoveMetadataGlobal(Publisher, {op.key})
              \/ /\ op.file = None /\ op.value # None
                 /\ SetMetadataGlobal(Publisher, [m \in {op.key} |-> op.value])
              \/ /\ op.file # None /\ op.value = None
                 /\ RemoveMetadataFile(Publisher, op.file, {op.key})
              \/ /\ op.file # None /\ op.value # None
                 /\ SetMetadataFile(Publisher, op.file, [m \in {op.key} |-> op.value])
  <2>1. /\ op.file \in Files \cup {None} /\ op.key \in MetaKeys
        /\ op.value \in MetaValues \cup {None}
    BY <1>8, OpFields DEF MetadataOps
  <2>2. {op.key} \in SUBSET MetaKeys
    BY <2>1
  <2>3. ASSUME op.value # None
        PROVE  [m \in {op.key} |-> op.value] \in Pairs(MetaKeys, MetaValues)
    BY <2>1, <2>3, OnePair
  <2>4. CASE RemoveMetadataGlobal(Publisher, {op.key})
    BY <1>1, <2>2, <2>4, Zenon DEF Next
  <2>5. CASE op.value # None /\ SetMetadataGlobal(Publisher, [m \in {op.key} |-> op.value])
    BY <1>1, <2>3, <2>5, Zenon DEF Next
  <2>6. CASE op.file # None /\ RemoveMetadataFile(Publisher, op.file, {op.key})
    <3>1. op.file \in Files
      BY <2>1, <2>6
    <3>. QED BY <1>1, <2>2, <2>6, <3>1, Zenon DEF Next
  <2>7. CASE op.file # None /\ op.value # None
             /\ SetMetadataFile(Publisher, op.file, [m \in {op.key} |-> op.value])
    <3>1. op.file \in Files
      BY <2>1, <2>7
    <3>. QED BY <1>1, <2>3, <2>7, <3>1, Zenon DEF Next
  <2>. QED BY <1>8, <2>4, <2>5, <2>6, <2>7, Zenon
<1>. QED BY <1>2, <1>3, <1>4, <1>5, <1>6, <1>7, <1>8 DEF Effect

\* What the operations do not do to the number of chunks of a file.
LEMMA CountsAfter ==
  ASSUME NEW s \in FileKeys, NEW init \in Inited
  PROVE  /\ DeletedFile(s).count = None
         /\ FileInited(s, init).count = init.totalChunk /\ init.totalChunk \in 1 .. MaxChunks
<1>1. init.totalChunk \in 1 .. MaxChunks
  BY DEF Inited
<1>2. DeletedFile(s) \in [location : BOOLEAN, count : 0 .. MaxChunks \cup {None},
                          chunks : {s.chunks, NoChunks}, meta : {s.meta, NoMetadata}]
      /\ DeletedFile(s).count = None
  BY DEF DeletedFile, FileKeys
<1>. DEFINE fresh == IF s.location THEN DeletedFile(s) ELSE s
<1>3. fresh \in [location : BOOLEAN, count : 0 .. MaxChunks \cup {None},
                 chunks : {s.chunks, NoChunks}, meta : {s.meta, NoMetadata}]
  BY <1>2 DEF FileKeys
<1>. HIDE DEF fresh
<1>4. [fresh EXCEPT !.location = TRUE, !.meta = Edited(fresh.meta, init.metadata),
                    !.count = init.totalChunk].count = init.totalChunk
  BY <1>3
<1>. QED BY <1>1, <1>2, <1>4 DEF FileInited, fresh

\* No operation makes the website another one than the interface knows.
LEMMA EffectOK ==
  ASSUME IInv, WebsiteOK, NEW op \in Ops, Effect(op)
  PROVE  IInv' /\ WebsiteOK'
<1>1. IInv'
  BY EffectCalls, NextOK
<1>2. files \in [Files -> FileKeys]
  BY DEF IInv, TypeOK
<1>3. code' \in {"website", "none"} /\ (code' = "website" => owner' \in {Publisher, Nobody})
  BY DEF WebsiteOK, Effect, FilesInit, UploadFileChunks, DeleteFiles, RemoveMetadataGlobal,
         SetMetadataGlobal, RemoveMetadataFile, SetMetadataFile, Purge, SetOwner, OnlyOwner
<1>4. ASSUME NEW f \in Files PROVE files'[f].count # 0
  <2>1. files[f].count # 0 /\ files[f] \in FileKeys
    BY <1>2 DEF WebsiteOK
  <2>2. CASE op.fn = "filesInit" /\ FilesInit(Publisher, {}, op.deletes, op.metas, op.inits)
    <3>. DEFINE s == IF f \in op.deletes THEN DeletedFile(files[f]) ELSE files[f]
    <3>1. files'[f] = IF f \in DOMAIN op.inits THEN FileInited(s, op.inits[f]) ELSE s
      BY <2>2 DEF FilesInit
    <3>2. PICK D \in SUBSET Files : op.inits \in [D -> Inited]
      BY <2>2, OpFields DEF FilesInitOps, Pairs
    <3>3. s \in FileKeys /\ s.count # 0
      <4>1. DeletedFile(files[f]).count = None /\ None # 0
        <5>1. DeletedFile(files[f]).count = None
          BY <2>1 DEF DeletedFile, FileKeys
        <5>. QED BY <5>1, SiteAssumption
      <4>2. DeletedFile(files[f]) \in FileKeys
        BY <1>2, DeletedFileOK, FilesAreOK DEF FileOK
      <4>. QED BY <2>1, <4>1, <4>2
    <3>. HIDE DEF s
    <3>4. CASE f \in DOMAIN op.inits
      <4>1. op.inits[f] \in Inited
        BY <3>2, <3>4
      <4>2. FileInited(s, op.inits[f]).count \in 1 .. MaxChunks
        BY <3>3, <4>1, CountsAfter
      <4>. QED BY <3>1, <3>4, <4>2
    <3>. QED BY <3>1, <3>3, <3>4
  <2>3. CASE UploadFileChunks(Publisher, op.posts)
    BY <2>1, <2>3 DEF UploadFileChunks, ChunksSet, FileKeys
  <2>4. CASE DeleteFiles(Publisher, op.files)
    <3>1. DeletedFile(files[f]).count = None /\ None # 0
      <4>1. DeletedFile(files[f]).count = None
        BY <2>1 DEF DeletedFile, FileKeys
      <4>. QED BY <4>1, SiteAssumption
    <3>. QED BY <2>1, <2>4, <3>1 DEF DeleteFiles
  <2>5. CASE Purge(Publisher)
    BY <2>5, SiteAssumption DEF Purge, NoFile
  <2>6. CASE \E key, value : \/ RemoveMetadataFile(Publisher, op.file, {key})
                             \/ SetMetadataFile(Publisher, op.file, [m \in {key} |-> value])
    BY <1>2, <2>1, <2>6 DEF RemoveMetadataFile, SetMetadataFile, FileKeys
  <2>7. CASE files' = files
    BY <2>1, <2>7
  <2>. QED BY <2>2, <2>3, <2>4, <2>5, <2>6, <2>7
       DEF Effect, SetOwner, RemoveMetadataGlobal, SetMetadataGlobal
<1>. QED BY <1>1, <1>3, <1>4 DEF WebsiteOK

\* The call i has another status, and its operation is elsewhere.
Marked(i, status, chain) ==
  /\ calls' \in Seq(CallRecords) /\ DOMAIN calls' = DOMAIN calls
  /\ \A j \in DOMAIN calls : calls'[j].op = calls[j].op /\ (j # i => calls'[j] = calls[j])
  /\ calls'[i].status = status /\ calls'[i].chain = chain

LEMMA FunctionIsSeq ==
  ASSUME NEW S, NEW n \in Nat, NEW f \in [1 .. n -> S]
  PROVE  f \in Seq(S)
OBVIOUS

\* The calls, with another status and chain of the call i.
Remark(cs, i, status, chain) == [cs EXCEPT ![i].status = status, ![i].chain = chain]

LEMMA Marks ==
  ASSUME NEW cs \in Seq(CallRecords), NEW i \in DOMAIN cs,
         NEW status \in Statuses, NEW chain \in Chains
  PROVE  LET new == Remark(cs, i, status, chain)
         IN  /\ new \in Seq(CallRecords) /\ DOMAIN new = DOMAIN cs
             /\ \A j \in DOMAIN cs : new[j].op = cs[j].op /\ (j # i => new[j] = cs[j])
             /\ new[i].status = status /\ new[i].chain = chain
<1>. DEFINE len == Len(cs)
            new == Remark(cs, i, status, chain)
<1>1. len \in Nat /\ cs \in [1 .. len -> CallRecords]
  OBVIOUS
<1>. HIDE DEF len
<1>2. new \in [1 .. len -> CallRecords]
  BY <1>1 DEF CallRecords, Remark
<1>3. new \in Seq(CallRecords)
  BY <1>1, <1>2, FunctionIsSeq, Zenon
<1>4. \A j \in DOMAIN cs : new[j].op = cs[j].op /\ (j # i => new[j] = cs[j])
  BY <1>1 DEF CallRecords, Remark
<1>5. new[i].status = status /\ new[i].chain = chain
  BY <1>1 DEF CallRecords, Remark
<1>. HIDE DEF new
<1>6. DOMAIN new = DOMAIN cs
  BY <1>1, <1>2
<1>. QED BY <1>3, <1>4, <1>5, <1>6 DEF new

LEMMA MarksOne ==
  ASSUME NEW cs \in Seq(CallRecords), NEW i \in DOMAIN cs, NEW x
  PROVE  /\ cs[i].status \in Statuses /\ cs[i].chain \in Chains
         /\ [cs EXCEPT ![i].status = x] = Remark(cs, i, x, cs[i].chain)
         /\ [cs EXCEPT ![i].chain = x] = Remark(cs, i, cs[i].status, x)
<1>. DEFINE len == Len(cs)
<1>1. len \in Nat /\ cs \in [1 .. len -> CallRecords] /\ DOMAIN cs = 1 .. len
  OBVIOUS
<1>. HIDE DEF len
<1>2. cs[i] \in CallRecords
  BY <1>1
<1>3. cs[i].status \in Statuses /\ cs[i].chain \in Chains
  BY <1>2 DEF CallRecords
<1>4. [cs EXCEPT ![i].status = x] = Remark(cs, i, x, cs[i].chain)
  BY <1>1, <1>2 DEF Remark, CallRecords
<1>5. [cs EXCEPT ![i].chain = x] = Remark(cs, i, cs[i].status, x)
  BY <1>1, <1>2 DEF Remark, CallRecords
<1>. QED BY <1>3, <1>4, <1>5

LEMMA CallMarked ==
  ASSUME calls \in Seq(CallRecords), NEW i \in DOMAIN calls,
         NEW status \in Statuses, NEW chain \in Chains, calls' = Remark(calls, i, status, chain)
  PROVE  Marked(i, status, chain)
<1>. DEFINE new == Remark(calls, i, status, chain)
<1>1. /\ new \in Seq(CallRecords) /\ DOMAIN new = DOMAIN calls
      /\ \A j \in DOMAIN calls : new[j].op = calls[j].op /\ (j # i => new[j] = calls[j])
      /\ new[i].status = status /\ new[i].chain = chain
  BY Marks
<1>. HIDE DEF new
<1>2. calls' = new
  BY DEF new
<1>. QED BY <1>1, <1>2 DEF Marked

\* What enters a phase: its calls, which all wait, and the phases after it.
LEMMA Entered ==
  ASSUME NEW phases \in Seq(Plans), phases # << >>, Enter(phases)
  PROVE  /\ 1 \in DOMAIN phases /\ phases[1] \in Plans
         /\ pc' = "calling" /\ phase' = phases[1].name
         /\ calls' \in Seq(CallRecords) /\ DOMAIN calls' = DOMAIN phases[1].ops
         /\ \A k \in DOMAIN calls' : /\ calls'[k].op = phases[1].ops[k]
                                     /\ calls'[k].status = "waiting" /\ calls'[k].chain = "none"
         /\ plan' \in Seq(Plans)
         /\ \A n \in DOMAIN plan' :
              n \in Nat \ {0} /\ n + 1 \in DOMAIN phases /\ plan'[n] = phases[n + 1]
         /\ \A n \in DOMAIN phases : n = 1 \/ (n - 1 \in DOMAIN plan' /\ plan'[n - 1] = phases[n])
<1>1. 1 \in DOMAIN phases /\ phases[1] \in Plans
  OBVIOUS
<1>2. pc' = "calling" /\ phase' = phases[1].name /\ calls' = Waiting(phases[1].ops)
      /\ plan' = Tail(phases)
  BY DEF Enter
<1>. DEFINE ops == phases[1].ops
            len == Len(ops)
<1>3. ops \in Seq(Ops) /\ len \in Nat /\ DOMAIN ops = 1 .. len
  <2>1. ops \in Seq(Ops)
    BY <1>1 DEF Plans
  <2>. HIDE DEF ops
  <2>. QED BY <2>1
<1>4. /\ calls' = [k \in DOMAIN ops |-> [op |-> ops[k], status |-> "waiting", chain |-> "none"]]
  BY <1>2 DEF Waiting
<1>. HIDE DEF len, ops
<1>5. calls' \in [1 .. len -> CallRecords]
  BY <1>3, <1>4 DEF CallRecords, Statuses, Chains
<1>6. calls' \in Seq(CallRecords)
  BY <1>3, <1>5, FunctionIsSeq
<1>7. /\ DOMAIN calls' = DOMAIN ops
      /\ \A k \in DOMAIN calls' : /\ calls'[k].op = ops[k]
                                  /\ calls'[k].status = "waiting" /\ calls'[k].chain = "none"
  BY <1>4
<1>8. /\ Tail(phases) \in Seq(Plans)
      /\ \A n \in DOMAIN Tail(phases) :
           n \in Nat \ {0} /\ n + 1 \in DOMAIN phases /\ Tail(phases)[n] = phases[n + 1]
      /\ \A n \in DOMAIN phases :
           n = 1 \/ (n - 1 \in DOMAIN Tail(phases) /\ Tail(phases)[n - 1] = phases[n])
  OBVIOUS
<1>. QED BY <1>1, <1>2, <1>6, <1>7, <1>8 DEF ops

LEMMA SiteUnchanged ==
  ASSUME IInv, WebsiteOK, UNCHANGED vars
  PROVE  IInv' /\ WebsiteOK'
<1>1. IInv'
  BY NextOK
<1>. QED BY <1>1 DEF WebsiteOK, vars

\* What is loose or becomes so.
LooseOK(ops) == ops \subseteq Ops /\ \A op \in ops : op.run <= run

LEMMA LeavesOK ==
  ASSUME TypesOK, NEW cs \in Seq(CallRecords), \A i \in DOMAIN cs : cs[i].op.run <= run,
         Leaves(cs)
  PROVE  LooseOK(loose')
<1>1. ASSUME NEW i \in DOMAIN cs PROVE cs[i].op \in Ops
  <2>1. cs[i] \in CallRecords
    OBVIOUS
  <2>. QED BY <2>1 DEF CallRecords
<1>. QED BY <1>1 DEF Leaves, LooseOK, TypesOK

\* A run that goes on to the next phase, and one that ends.
LEMMA EnterTypes ==
  ASSUME TypesOK, NEW phases \in Seq(Plans), phases # << >>, Enter(phases), run # 0,
         \A n \in DOMAIN phases : \A k \in DOMAIN phases[n].ops : phases[n].ops[k].run <= run,
         LooseOK(loose'), disturbed' \in BOOLEAN, UNCHANGED <<run, command, directory>>
  PROVE  TypesOK'
<1>1. /\ calls' \in Seq(CallRecords) /\ plan' \in Seq(Plans) /\ pc' = "calling"
      /\ \A i \in DOMAIN calls' : calls'[i].op.run <= run
  <2>1. /\ calls' \in Seq(CallRecords) /\ plan' \in Seq(Plans) /\ pc' = "calling"
        /\ 1 \in DOMAIN phases /\ DOMAIN calls' = DOMAIN phases[1].ops
        /\ \A k \in DOMAIN calls' : calls'[k].op = phases[1].ops[k]
    BY Entered, Zenon
  <2>. QED BY <2>1, Zenon
<1>2. \A n \in DOMAIN plan' : \A k \in DOMAIN plan'[n].ops : plan'[n].ops[k].run <= run
  BY Entered
<1>. QED BY <1>1, <1>2 DEF TypesOK, LooseOK

LEMMA QuitTypes ==
  ASSUME TypesOK, NEW how \in {"done", "failed", "aborted"}, Quits(how),
         LooseOK(loose'), disturbed' \in BOOLEAN, UNCHANGED <<run, command, directory>>
  PROVE  TypesOK'
<1>1. << >> \in Seq(CallRecords) /\ << >> \in Seq(Plans) /\ DOMAIN << >> = {}
  OBVIOUS
<1>. QED BY <1>1 DEF TypesOK, LooseOK, Quits

LEMMA EndTypes ==
  ASSUME TypesOK, NEW how \in {"done", "failed", "aborted"},
         NEW cs \in Seq(CallRecords), \A i \in DOMAIN cs : cs[i].op.run <= run,
         Ends(how, cs), disturbed' \in BOOLEAN, UNCHANGED <<run, command, directory>>
  PROVE  TypesOK'
BY LeavesOK, QuitTypes DEF Ends

LEMMA MarkedTypes ==
  ASSUME TypesOK, NEW i \in DOMAIN calls, NEW status, NEW chain, Marked(i, status, chain),
         UNCHANGED <<pc, run, command, directory, plan, loose>>, disturbed' \in BOOLEAN
  PROVE  TypesOK'
<1>1. calls' \in Seq(CallRecords) /\ \A j \in DOMAIN calls' : calls'[j].op.run <= run
  BY DEF Marked, TypesOK
<1>. QED BY <1>1 DEF TypesOK

-----------------------------------------------------------------------------
(* What an upload plans.                                                   *)

Gone == {f \in Files \ DOMAIN directory : Editing /\ files[f].location}
Differing == {m \in DOMAIN Config : Editing => globalMeta[m] # Config[m]}

DirectoryOK ==
  /\ DOMAIN directory \subseteq Files
  /\ \A f \in DOMAIN directory : directory[f] \in Seq(Data) /\ Len(directory[f]) <= MaxChunks

LEMMA DirectoryTyped == TypesOK => DirectoryOK
<1>1. DOMAIN << >> = {}
  OBVIOUS
<1>. QED BY <1>1, CliAssumption DEF TypesOK, DirectoryOK

\* The three lists of filesInit.
LEMMA ListsType ==
  ASSUME DirectoryOK
  PROVE  /\ Updated \subseteq Files /\ ToInit \in Seq(Updated) /\ ToSet(ToInit) = Updated
         /\ Gone \subseteq Files /\ FilesToDelete \in Seq(Gone) /\ ToSet(FilesToDelete) = Gone
         /\ Differing \subseteq MetaKeys
         /\ ToSetMetadata \in Seq(Differing \cup {LastUpdate})
         /\ ToSet(ToSetMetadata) = Differing \cup {LastUpdate}
         /\ NoChanges => Updated = {} /\ Gone = {} /\ Differing = {}
<1>1. IsFiniteSet(Updated) /\ Updated \subseteq Files
  <2>1. Updated \subseteq Files /\ IsFiniteSet(Files)
    BY CliAssumption DEF Updated, DirectoryOK
  <2>. QED BY <2>1, FS_Subset
<1>2. IsFiniteSet(Gone) /\ Gone \subseteq Files
  <2>1. Gone \subseteq Files /\ IsFiniteSet(Files)
    BY CliAssumption DEF Gone
  <2>. QED BY <2>1, FS_Subset
<1>3. IsFiniteSet(Differing) /\ Differing \subseteq MetaKeys
  <2>1. Differing \subseteq MetaKeys /\ IsFiniteSet(MetaKeys)
    BY CliAssumption DEF Differing, Pairs
  <2>. QED BY <2>1, FS_Subset
<1>4. ToInit \in Seq(Updated) /\ ToSet(ToInit) = Updated
  BY <1>1, SetToSeqType DEF ToInit
<1>5. FilesToDelete \in Seq(Gone) /\ ToSet(FilesToDelete) = Gone
  <2>1. FilesToDelete = SetToSeq(Gone)
    BY Zenon DEF FilesToDelete, Gone
  <2>. QED BY <1>2, <2>1, SetToSeqType
<1>. DEFINE list == SetToSeq(Differing)
<1>6. list \in Seq(Differing) /\ ToSet(list) = Differing
  BY <1>3, SetToSeqType
<1>7. ToSetMetadata = Append(list, LastUpdate)
  BY DEF ToSetMetadata, Differing
<1>. HIDE DEF list
<1>. DEFINE len == Len(list)
<1>8. len \in Nat /\ DOMAIN list = 1 .. len /\ \A n \in 1 .. len : list[n] \in Differing
  BY <1>6
<1>9. /\ ToSetMetadata \in Seq(Differing \cup {LastUpdate})
      /\ Len(ToSetMetadata) = len + 1 /\ DOMAIN ToSetMetadata = 1 .. len + 1
      /\ ToSetMetadata[len + 1] = LastUpdate
      /\ \A n \in 1 .. len : ToSetMetadata[n] = list[n]
  BY <1>6, <1>7
<1>. HIDE DEF len
<1>10. ToSet(ToSetMetadata) = Differing \cup {LastUpdate}
  <2>1. ASSUME NEW m \in ToSet(ToSetMetadata) PROVE m \in Differing \cup {LastUpdate}
    <3>1. PICK n \in 1 .. len + 1 : m = ToSetMetadata[n]
      BY <1>9, <2>1 DEF ToSet
    <3>2. n \in 1 .. len \/ n = len + 1
      BY <1>8
    <3>. QED BY <1>8, <1>9, <3>1, <3>2
  <2>2. ASSUME NEW m \in Differing PROVE m \in ToSet(ToSetMetadata)
    <3>1. PICK n \in 1 .. len : m = list[n]
      BY <1>6, <1>8 DEF ToSet
    <3>2. n \in DOMAIN ToSetMetadata
      BY <1>8, <1>9
    <3>. QED BY <1>9, <3>1, <3>2 DEF ToSet
  <2>3. LastUpdate \in ToSet(ToSetMetadata)
    BY <1>8, <1>9 DEF ToSet
  <2>. QED BY <2>1, <2>2, <2>3
<1>11. ASSUME NoChanges PROVE Updated = {} /\ Gone = {} /\ Differing = {}
  <2>1. ToSet(<< >>) = {}
    BY DEF ToSet
  <2>2. len = 0
    <3>1. Len(ToSetMetadata) = 1 /\ Len(ToSetMetadata) = len + 1 /\ len \in Nat
      BY <1>8, <1>9, <1>11, Zenon DEF NoChanges
    <3>. QED BY <3>1
  <2>3. ToSet(list) = {}
    BY <1>8, <2>2 DEF ToSet
  <2>. QED BY <1>4, <1>5, <1>6, <1>11, <2>1, <2>3 DEF NoChanges
<1>. QED BY <1>1, <1>2, <1>3, <1>4, <1>5, <1>9, <1>10, <1>11

\* The calls of filesInit take each element of the lists, and nothing else.
LEMMA InitCallsAre ==
  ASSUME DirectoryOK, run \in 1 .. MaxRuns
  PROVE  /\ FilesInitCalls \in Seq(FilesInitOps)
         /\ \A k \in DOMAIN FilesInitCalls :
              LET op == FilesInitCalls[k]
              IN  /\ op.run = run /\ op.deletes \subseteq Gone /\ DOMAIN op.inits \subseteq Updated
                  /\ \A f \in DOMAIN op.inits : op.inits[f].totalChunk = Len(directory[f])
                  /\ \A m \in DOMAIN op.metas : m # LastUpdate => op.metas[m] = Config[m]
         /\ \A f \in Updated : \E k \in DOMAIN FilesInitCalls : f \in DOMAIN FilesInitCalls[k].inits
         /\ \A f \in Gone : \E k \in DOMAIN FilesInitCalls : f \in FilesInitCalls[k].deletes
         /\ \A m \in Differing : \E k \in DOMAIN FilesInitCalls : m \in DOMAIN FilesInitCalls[k].metas
<1>. DEFINE longest == Max({Len(ToInit), Len(FilesToDelete), Len(ToSetMetadata)})
            last == (longest + BatchSize - 1) \div BatchSize
            deletes(k) == ToSet(Slice(FilesToDelete, k))
            keys(k) == ToSet(Slice(ToSetMetadata, k))
            inited(k) == ToSet(Slice(ToInit, k))
            metas(k) == [m \in keys(k) |-> IF m = LastUpdate THEN run ELSE Config[m]]
            inits(k) == [f \in inited(k) |->
                           [totalChunk |-> Len(directory[f]), metadata |-> << >>]]
            call(k) == [fn |-> "filesInit", run |-> run, deletes |-> deletes(k),
                        metas |-> metas(k), inits |-> inits(k)]
<1>1. FilesInitCalls = [k \in 1 .. last |-> call(k)]
  BY DEF FilesInitCalls
<1>2. /\ Len(ToInit) \in Nat /\ Len(FilesToDelete) \in Nat /\ Len(ToSetMetadata) \in Nat
  BY ListsType, LenProperties
<1>3. /\ longest \in Nat /\ Len(ToInit) <= longest /\ Len(FilesToDelete) <= longest
      /\ Len(ToSetMetadata) <= longest
  BY <1>2, MaxOfThree
<1>4. BatchSize \in Nat \ {0}
  BY CliAssumption
<1>5. last \in Nat
  <2>. HIDE DEF longest
  <2>. QED BY <1>3, <1>4
<1>6. ASSUME NEW k \in 1 .. last
      PROVE  deletes(k) \subseteq Gone /\ keys(k) \subseteq Differing \cup {LastUpdate}
             /\ inited(k) \subseteq Updated
  <2>. HIDE DEF last
  <2>1. k \in Nat \ {0}
    BY <1>5
  <2>. QED BY <2>1, ListsType, SliceType
<1>7. ASSUME NEW f \in Updated PROVE \E k \in 1 .. last : f \in inited(k)
  BY <1>3, ListsType, SliceCovers
<1>8. ASSUME NEW f \in Gone PROVE \E k \in 1 .. last : f \in deletes(k)
  BY <1>3, ListsType, SliceCovers
<1>9. ASSUME NEW m \in Differing PROVE \E k \in 1 .. last : m \in keys(k)
  <2>1. m \in ToSet(ToSetMetadata)
    BY ListsType
  <2>. QED BY <1>3, <2>1, ListsType, SliceCovers
<1>. HIDE DEF longest, last, deletes, keys, inited
<1>10. ASSUME NEW k \in 1 .. last
       PROVE  metas(k) \in Pairs(MetaKeys, MetaValues)
  <2>1. keys(k) \subseteq MetaKeys
    BY <1>6, ListsType, CliAssumption
  <2>2. run \in MetaValues
    BY CliAssumption
  <2>3. ASSUME NEW m \in keys(k), m # LastUpdate PROVE Config[m] \in MetaValues
    <3>1. m \in DOMAIN Config
      BY <1>6, <2>3 DEF Differing
    <3>. QED BY <3>1, CliAssumption DEF Pairs
  <2>4. metas(k) \in [keys(k) -> MetaValues]
    BY <2>2, <2>3
  <2>. HIDE DEF metas
  <2>. QED BY <2>1, <2>4 DEF Pairs
<1>11. ASSUME NEW k \in 1 .. last
       PROVE  inits(k) \in Pairs(Files, Inited)
  <2>1. inited(k) \subseteq Files
    BY <1>6, ListsType
  <2>2. ASSUME NEW f \in inited(k)
        PROVE  [totalChunk |-> Len(directory[f]), metadata |-> << >>] \in Inited
    <3>1. f \in Updated
      BY <1>6
    <3>2. directory[f] \in Seq(Data) /\ Len(directory[f]) <= MaxChunks /\ directory[f] # << >>
      BY <3>1 DEF DirectoryOK, Updated, RequiresUpdate
    <3>3. Len(directory[f]) \in 1 .. MaxChunks
      <4>. DEFINE content == directory[f]
      <4>. HIDE DEF content
      <4>1. content \in Seq(Data) /\ Len(content) <= MaxChunks /\ content # << >>
            /\ MaxChunks \in Nat
        BY <3>2, SiteAssumption DEF content
      <4>2. Len(content) \in 1 .. MaxChunks
        BY <4>1
      <4>. QED BY <4>2 DEF content
    <3>. QED BY <3>3 DEF Inited
  <2>3. inits(k) \in [inited(k) -> Inited]
    BY <2>2
  <2>. HIDE DEF inits
  <2>. QED BY <2>1, <2>3 DEF Pairs
<1>12. /\ \A k : DOMAIN metas(k) = keys(k) /\ DOMAIN inits(k) = inited(k)
       /\ \A k : \A f \in inited(k) : inits(k)[f].totalChunk = Len(directory[f])
       /\ \A k : \A m \in keys(k) : m # LastUpdate => metas(k)[m] = Config[m]
  OBVIOUS
<1>. HIDE DEF metas, inits
<1>13. ASSUME NEW k \in 1 .. last PROVE call(k) \in FilesInitOps
  <2>1. deletes(k) \in SUBSET Files
    BY <1>6, ListsType
  <2>. QED BY <1>10, <1>11, <2>1 DEF FilesInitOps
<1>14. \A k : /\ call(k).run = run /\ call(k).deletes = deletes(k)
              /\ call(k).inits = inits(k) /\ call(k).metas = metas(k)
  OBVIOUS
<1>. HIDE DEF call
<1>15. FilesInitCalls \in [1 .. last -> FilesInitOps]
  BY <1>1, <1>13
<1>16. FilesInitCalls \in Seq(FilesInitOps)
  BY <1>5, <1>15, FunctionIsSeq
<1>17. DOMAIN FilesInitCalls = 1 .. last /\ \A k \in 1 .. last : FilesInitCalls[k] = call(k)
  BY <1>1
<1>18. ASSUME NEW k \in DOMAIN FilesInitCalls
       PROVE  LET op == FilesInitCalls[k]
              IN  /\ op.run = run /\ op.deletes \subseteq Gone /\ DOMAIN op.inits \subseteq Updated
                  /\ \A f \in DOMAIN op.inits : op.inits[f].totalChunk = Len(directory[f])
                  /\ \A m \in DOMAIN op.metas : m # LastUpdate => op.metas[m] = Config[m]
  <2>1. k \in 1 .. last /\ FilesInitCalls[k] = call(k)
    BY <1>17
  <2>. QED BY <1>6, <1>12, <1>14, <2>1
<1>19. \A f \in Updated : \E k \in DOMAIN FilesInitCalls : f \in DOMAIN FilesInitCalls[k].inits
  BY <1>7, <1>12, <1>14, <1>17
<1>20. \A f \in Gone : \E k \in DOMAIN FilesInitCalls : f \in FilesInitCalls[k].deletes
  BY <1>8, <1>14, <1>17
<1>21. \A m \in Differing : \E k \in DOMAIN FilesInitCalls : m \in DOMAIN FilesInitCalls[k].metas
  BY <1>9, <1>12, <1>14, <1>17
<1>. QED BY <1>16, <1>18, <1>19, <1>20, <1>21

LEMMA ToPostIs ==
  ASSUME DirectoryOK
  PROVE  /\ IsFiniteSet(ToPost) /\ ToPost \subseteq Files \X Indices
         /\ \A p \in ToPost : /\ p[1] \in Updated /\ p[2] \in 0 .. Len(directory[p[1]]) - 1
                              /\ DataOf(directory, p) \in Data
         /\ \A f \in Updated : \A i \in 0 .. Len(directory[f]) - 1 : <<f, i>> \in ToPost
<1>1. Updated \subseteq Files /\ Updated \subseteq DOMAIN directory
  BY DEF Updated, DirectoryOK
<1>2. ASSUME NEW p \in ToPost
      PROVE  /\ p \in Files \X Indices
             /\ p[1] \in Updated /\ p[2] \in 0 .. Len(directory[p[1]]) - 1
             /\ DataOf(directory, p) \in Data
  <2>1. PICK f \in Updated : p \in {f} \X (0 .. Len(directory[f]) - 1)
    BY DEF ToPost
  <2>2. p = <<f, p[2]>> /\ p[1] = f /\ p[2] \in 0 .. Len(directory[f]) - 1
    BY <2>1
  <2>. DEFINE content == directory[f]
              i == p[2]
  <2>3. content \in Seq(Data) /\ Len(content) <= MaxChunks /\ MaxChunks \in Nat
    BY <1>1, SiteAssumption DEF DirectoryOK
  <2>4. i \in 0 .. Len(content) - 1
    BY <2>2
  <2>5. DataOf(directory, p) = content[i + 1]
    BY <2>2 DEF DataOf
  <2>. HIDE DEF content, i
  <2>6. i \in 0 .. MaxChunks - 1 /\ content[i + 1] \in Data
    BY <2>3, <2>4
  <2>7. p = <<f, i>> /\ f \in Files /\ i \in Indices
    BY <1>1, <2>2, <2>6 DEF i, Indices
  <2>. QED BY <2>2, <2>5, <2>6, <2>7
<1>3. IsFiniteSet(ToPost)
  <2>1. IsFiniteSet(Indices)
    BY SiteAssumption, FS_Interval DEF Indices
  <2>2. IsFiniteSet(Files \X Indices)
    BY <2>1, CliAssumption, FS_Product
  <2>3. ToPost \subseteq Files \X Indices
    BY <1>2
  <2>. QED BY <2>2, <2>3, FS_Subset
<1>4. ASSUME NEW f \in Updated, NEW i \in 0 .. Len(directory[f]) - 1 PROVE <<f, i>> \in ToPost
  <2>1. <<f, i>> \in {f} \X (0 .. Len(directory[f]) - 1)
    OBVIOUS
  <2>. QED BY <2>1 DEF ToPost
<1>5. ToPost \subseteq Files \X Indices
  BY <1>2
<1>. QED BY <1>2, <1>3, <1>4, <1>5

\* The operations of the upload phase are right for the directory: each chunk
\* of each file that is declared is in one of them, and none is too large.
PostsRight(d, ops) ==
  /\ \A k \in DOMAIN ops : BatchBytes(d, DOMAIN ops[k].posts) <= ChunkSize
  /\ \A j, k \in DOMAIN ops : DOMAIN ops[j].posts \cap DOMAIN ops[k].posts # {} => j = k
  /\ \A k \in DOMAIN ops : \A p \in DOMAIN ops[k].posts :
       /\ p \in Files \X Indices
       /\ p[1] \in DOMAIN d /\ p[2] \in 0 .. Len(d[p[1]]) - 1
  /\ \A f \in DOMAIN d :
       (\E k \in DOMAIN ops : \E p \in DOMAIN ops[k].posts : p[1] = f)
         => \A i \in 0 .. Len(d[f]) - 1 : \E k \in DOMAIN ops : <<f, i>> \in DOMAIN ops[k].posts

LEMMA UploadCallsAre ==
  ASSUME DirectoryOK, run \in 1 .. MaxRuns
  PROVE  /\ UploadCalls \in Seq(UploadOps) /\ PostsRight(directory, UploadCalls)
         /\ \A k \in DOMAIN UploadCalls :
              /\ UploadCalls[k].run = run
              /\ \A p \in DOMAIN UploadCalls[k].posts :
                   p \in ToPost /\ UploadCalls[k].posts[p] = DataOf(directory, p)
         /\ \A p \in ToPost : \E k \in DOMAIN UploadCalls : p \in DOMAIN UploadCalls[k].posts
<1>. DEFINE batches == Batcher(directory, ToPost)
            posts(b) == [p \in batches[b] |-> DataOf(directory, p)]
            call(b) == [fn |-> "uploadFileChunks", run |-> run, posts |-> posts(b)]
            len == Len(batches)
<1>1. UploadCalls = [b \in DOMAIN batches |-> call(b)]
  BY DEF UploadCalls
<1>2. batches \in Seq(SUBSET ToPost) /\ BatchesHold(directory, batches, ToPost)
  <2>1. \A p \in ToPost : Size(DataOf(directory, p)) \in 1 .. ChunkSize
    BY ToPostIs, CliAssumption
  <2>. QED BY <2>1, ToPostIs, BatcherHolds
<1>. HIDE DEF batches
<1>3. len \in Nat /\ DOMAIN batches = 1 .. len /\ \A b \in 1 .. len : batches[b] \subseteq ToPost
  BY <1>2
<1>. HIDE DEF len
<1>4. ASSUME NEW b \in 1 .. len PROVE posts(b) \in Pairs(Files \X Indices, Data)
  <2>1. batches[b] \in SUBSET (Files \X Indices)
    BY <1>3, ToPostIs
  <2>2. posts(b) \in [batches[b] -> Data]
    BY <1>3, ToPostIs
  <2>. HIDE DEF posts
  <2>. QED BY <2>1, <2>2 DEF Pairs
<1>5. \A b : DOMAIN posts(b) = batches[b] /\ \A p \in batches[b] : posts(b)[p] = DataOf(directory, p)
  OBVIOUS
<1>. HIDE DEF posts
<1>6. ASSUME NEW b \in 1 .. len PROVE call(b) \in UploadOps
  BY <1>4 DEF UploadOps
<1>7. \A b : call(b).run = run /\ call(b).posts = posts(b)
  OBVIOUS
<1>. HIDE DEF call
<1>8. UploadCalls \in [1 .. len -> UploadOps]
  BY <1>1, <1>3, <1>6
<1>9. UploadCalls \in Seq(UploadOps)
  BY <1>3, <1>8, FunctionIsSeq
<1>10. DOMAIN UploadCalls = 1 .. len
       /\ \A b \in 1 .. len : /\ UploadCalls[b].run = run /\ UploadCalls[b].posts = posts(b)
                              /\ DOMAIN UploadCalls[b].posts = batches[b]
  BY <1>1, <1>3, <1>5, <1>7
<1>11. ASSUME NEW p \in ToPost PROVE \E k \in DOMAIN UploadCalls : p \in DOMAIN UploadCalls[k].posts
  BY <1>2, <1>3, <1>10 DEF BatchesHold
<1>12. PostsRight(directory, UploadCalls)
  <2>1. \A k \in DOMAIN UploadCalls :
          BatchBytes(directory, DOMAIN UploadCalls[k].posts) <= ChunkSize
    BY <1>2, <1>3, <1>10, Zenon DEF BatchesHold
  <2>2. \A j, k \in DOMAIN UploadCalls :
          DOMAIN UploadCalls[j].posts \cap DOMAIN UploadCalls[k].posts # {} => j = k
    BY <1>2, <1>3, <1>10, Zenon DEF BatchesHold
  <2>3. ASSUME NEW k \in DOMAIN UploadCalls, NEW p \in DOMAIN UploadCalls[k].posts
        PROVE  p \in ToPost
    BY <1>3, <1>10
  <2>4. ASSUME NEW f \in DOMAIN directory,
               NEW k \in DOMAIN UploadCalls, NEW p \in DOMAIN UploadCalls[k].posts, p[1] = f,
               NEW i \in 0 .. Len(directory[f]) - 1
        PROVE  \E j \in DOMAIN UploadCalls : <<f, i>> \in DOMAIN UploadCalls[j].posts
    <3>1. f \in Updated
      BY <2>3, <2>4, ToPostIs
    <3>2. <<f, i>> \in ToPost
      BY <3>1, ToPostIs
    <3>. QED BY <1>11, <3>2
  <2>5. Updated \subseteq DOMAIN directory
    BY DEF Updated
  <2>. HIDE DEF len
  <2>6. \A k \in DOMAIN UploadCalls : \A p \in DOMAIN UploadCalls[k].posts :
          /\ p \in Files \X Indices
          /\ p[1] \in DOMAIN directory /\ p[2] \in 0 .. Len(directory[p[1]]) - 1
    BY <2>3, <2>5, ToPostIs
  <2>. QED BY <2>1, <2>2, <2>4, <2>6 DEF PostsRight
<1>13. \A k \in DOMAIN UploadCalls :
         /\ UploadCalls[k].run = run
         /\ \A p \in DOMAIN UploadCalls[k].posts :
              p \in ToPost /\ UploadCalls[k].posts[p] = DataOf(directory, p)
  BY <1>3, <1>5, <1>10
<1>. QED BY <1>9, <1>11, <1>12, <1>13

-----------------------------------------------------------------------------
(* The course of a run.                                                    *)

\* The phases of a command, and those that may follow a phase.
PhasesOf(c) ==
  CASE c = "upload"    -> {"deploy", "init", "upload"}
    [] c = "edit"      -> {"init", "upload"}
    [] c = "delete"    -> {"delete", "remove"}
    [] c = "purge"     -> {"delete", "remove", "purge"}
    [] c = "immutable" -> {"setOwner"}
    [] c = "metadata"  -> {"metadata"}
    [] OTHER           -> {}

Following(name) ==
  CASE name = "deploy" -> {"init", "upload"}
    [] name = "init"   -> {"upload"}
    [] name = "delete" -> {"remove", "purge"}
    [] name = "remove" -> {"purge"}
    [] OTHER           -> {}

FnOf(name) ==
  CASE name = "init"   -> "filesInit"
    [] name = "upload" -> "uploadFileChunks"
    [] name = "delete" -> "deleteFiles"
    [] name = "remove" -> "removeMetadataGlobal"
    [] OTHER           -> name

\* The operations of a phase: several for an upload, one for all else.
OpsFit(name, ops) ==
  /\ \A k \in DOMAIN ops : ops[k].fn = FnOf(name)
  /\ name \notin {"init", "upload"} => DOMAIN ops = {1}

CalledOps == [k \in DOMAIN calls |-> calls[k].op]

CourseOK ==
  /\ pc # "calling" => phase = "none" /\ calls = << >> /\ plan = << >>
  /\ pc = "calling" =>
       /\ phase \in PhasesOf(command)
       /\ phase = "deploy" => calls = << >> /\ plan # << >>
       /\ phase # "deploy" => OpsFit(phase, CalledOps)
  /\ \A n \in DOMAIN plan :
       /\ plan[n].name \in PhasesOf(command) \cap Following(phase)
       /\ \A m \in DOMAIN plan : m < n => plan[n].name \in Following(plan[m].name)
       /\ OpsFit(plan[n].name, plan[n].ops)

\* The phases that a command reads, or that are left of them.
PhasesOK(phases) ==
  /\ phases \in Seq(Plans) /\ phases # << >>
  /\ \A n \in DOMAIN phases :
       /\ phases[n].name \in PhasesOf(command)
       /\ \A m \in DOMAIN phases : m < n => phases[n].name \in Following(phases[m].name)
       /\ \A k \in DOMAIN phases[n].ops : phases[n].ops[k].run <= run
       /\ phases[n].name = "deploy" => phases[n].ops = << >> /\ n + 1 \in DOMAIN phases
       /\ phases[n].name # "deploy" => OpsFit(phases[n].name, phases[n].ops)

LEMMA DeployIsFirst == \A name : "deploy" \notin Following(name)
BY DEF Following

LEMMA PlanOK ==
  ASSUME TypesOK, CourseOK, plan # << >>
  PROVE  PhasesOK(plan)
BY DeployIsFirst DEF TypesOK, CourseOK, PhasesOK

LEMMA EnterOK ==
  ASSUME TypesOK, NEW phases, PhasesOK(phases), Enter(phases), run # 0,
         LooseOK(loose'), disturbed' \in BOOLEAN, UNCHANGED <<run, command, directory>>
  PROVE  TypesOK' /\ CourseOK'
<1>1. phases \in Seq(Plans) /\ phases # << >>
  BY DEF PhasesOK
<1>2. TypesOK'
  BY <1>1, EnterTypes DEF PhasesOK
<1>. DEFINE first == phases[1]
<1>3. /\ 1 \in DOMAIN phases /\ pc' = "calling" /\ phase' = first.name
      /\ calls' \in Seq(CallRecords) /\ DOMAIN calls' = DOMAIN first.ops
      /\ \A k \in DOMAIN calls' : calls'[k].op = first.ops[k]
  BY <1>1, Entered, Zenon
<1>4. \A n \in DOMAIN plan' : n \in Nat \ {0} /\ n + 1 \in DOMAIN phases /\ plan'[n] = phases[n + 1]
  BY <1>1, Entered, Zenon
<1>5. \A n \in DOMAIN phases : n = 1 \/ (n - 1 \in DOMAIN plan' /\ plan'[n - 1] = phases[n])
  BY <1>1, Entered, Zenon
<1>6. phase' \in PhasesOf(command)
  BY <1>3 DEF PhasesOK
<1>7. ASSUME first.name = "deploy" PROVE calls' = << >> /\ plan' # << >>
  <2>1. first.ops = << >> /\ 1 + 1 \in DOMAIN phases
    BY <1>3, <1>7 DEF PhasesOK
  <2>2. 1 + 1 - 1 \in DOMAIN plan'
    BY <1>5, <2>1
  <2>3. calls' = << >>
    BY <1>3, <2>1
  <2>. QED BY <2>2, <2>3
<1>8. ASSUME first.name # "deploy" PROVE OpsFit(phase', CalledOps')
  <2>1. OpsFit(first.name, first.ops)
    BY <1>3, <1>8 DEF PhasesOK
  <2>. QED BY <1>3, <2>1 DEF OpsFit, CalledOps
<1>9. ASSUME NEW n \in DOMAIN plan'
      PROVE  /\ plan'[n].name \in PhasesOf(command) \cap Following(phase')
             /\ \A m \in DOMAIN plan' : m < n => plan'[n].name \in Following(plan'[m].name)
             /\ OpsFit(plan'[n].name, plan'[n].ops)
  <2>1. n \in Nat \ {0} /\ n + 1 \in DOMAIN phases /\ plan'[n] = phases[n + 1]
    BY <1>4
  <2>2. 1 < n + 1 /\ \A m \in Nat : m < n => m + 1 < n + 1
    BY <2>1
  <2>3. plan'[n].name \in PhasesOf(command) \cap Following(phase')
    BY <1>3, <2>1, <2>2 DEF PhasesOK
  <2>4. \A m \in DOMAIN plan' : m < n => plan'[n].name \in Following(plan'[m].name)
    BY <1>4, <2>1, <2>2 DEF PhasesOK
  <2>5. OpsFit(plan'[n].name, plan'[n].ops)
    BY <2>1, <2>3, DeployIsFirst DEF PhasesOK
  <2>. QED BY <2>3, <2>4, <2>5
<1>. QED BY <1>2, <1>3, <1>6, <1>7, <1>8, <1>9 DEF CourseOK

\* Lists of phases, each of which may be left out.
LEMMA TwoOf ==
  ASSUME NEW a, NEW b, NEW s \in Seq({a, b}), Len(s) = 2, s[1] = a, s[2] = b
  PROVE  s = <<a, b>>
OBVIOUS

LEMMA ThreeOf ==
  ASSUME NEW a, NEW b, NEW c, NEW s \in Seq({a, b, c}), Len(s) = 3,
         s[1] = a, s[2] = b, s[3] = c
  PROVE  s = <<a, b, c>>
OBVIOUS

LEMMA Joins ==
  /\ << >> \o << >> = << >>
  /\ \A a : << >> \o <<a>> = <<a>> /\ <<a>> \o << >> = <<a>>
  /\ \A a, b : <<a, b>> \o << >> = <<a, b>> /\ <<a>> \o <<b>> = <<a, b>>
  /\ \A a, b, c : <<a, b>> \o <<c>> = <<a, b, c>>
<1>1. << >> \o << >> = << >>
  OBVIOUS
<1>2. ASSUME NEW a PROVE << >> \o <<a>> = <<a>>
  OBVIOUS
<1>3. ASSUME NEW a PROVE <<a>> \o << >> = <<a>>
  OBVIOUS
<1>4. ASSUME NEW a, NEW b PROVE <<a, b>> \o << >> = <<a, b>>
  OBVIOUS
<1>5. ASSUME NEW a, NEW b PROVE <<a>> \o <<b>> = <<a, b>>
  <2>. DEFINE s == <<a>> \o <<b>>
  <2>1. /\ <<a>> \in Seq({a, b}) /\ Len(<<a>>) = 1 /\ <<a>>[1] = a
        /\ <<b>> \in Seq({a, b}) /\ Len(<<b>>) = 1 /\ <<b>>[1] = b
    OBVIOUS
  <2>2. s \in Seq({a, b}) /\ Len(s) = 2 /\ s[1] = a /\ s[2] = b
    BY <2>1, ConcatProperties
  <2>. HIDE DEF s
  <2>3. s = <<a, b>>
    BY <2>2, TwoOf
  <2>. QED BY <2>3 DEF s
<1>6. ASSUME NEW a, NEW b, NEW c PROVE <<a, b>> \o <<c>> = <<a, b, c>>
  <2>. DEFINE s == <<a, b>> \o <<c>>
  <2>1. /\ <<a, b>> \in Seq({a, b, c}) /\ Len(<<a, b>>) = 2
        /\ <<a, b>>[1] = a /\ <<a, b>>[2] = b
        /\ <<c>> \in Seq({a, b, c}) /\ Len(<<c>>) = 1 /\ <<c>>[1] = c
    OBVIOUS
  <2>2. s \in Seq({a, b, c}) /\ Len(s) = 3 /\ s[1] = a /\ s[2] = b /\ s[3] = c
    BY <2>1, ConcatProperties
  <2>. HIDE DEF s
  <2>3. s = <<a, b, c>>
    BY <2>2, ThreeOf
  <2>. QED BY <2>3 DEF s
<1>. QED BY <1>1, <1>2, <1>3, <1>4, <1>5, <1>6

\* What is in such a list, in which order.
Joined(list, a, b, c, A, B, C) ==
  /\ list \in Seq({a, b, c})
  /\ \A n \in DOMAIN list : \/ list[n] = a /\ A = <<a>>
                            \/ list[n] = b /\ B = <<b>>
                            \/ list[n] = c /\ C = <<c>>
  /\ A = <<a>> => \E n \in DOMAIN list : list[n] = a
  /\ B = <<b>> => \E n \in DOMAIN list : list[n] = b
  /\ C = <<c>> => \E n \in DOMAIN list : list[n] = c
  /\ \A m, n \in DOMAIN list : m < n =>
       \/ list[m] = a /\ list[n] \in {b, c}
       \/ list[m] = b /\ list[n] = c
  /\ \A n \in DOMAIN list : list[n] = c \/ n + 1 \in DOMAIN list \/ C = << >>

LEMMA JoinedList ==
  ASSUME NEW a, NEW b, NEW c, a # b, a # c, b # c, NEW A \in {<< >>, <<a>>},
         NEW B \in {<< >>, <<b>>}, NEW C \in {<< >>, <<c>>}
  PROVE  Joined(A \o B \o C, a, b, c, A, B, C)
<1>0. SUFFICES ASSUME NEW list, list = (A \o B) \o C
               PROVE  Joined(list, a, b, c, A, B, C)
  OBVIOUS
<1>1. CASE A = << >> /\ B = << >> /\ C = << >>
  <2>1. A \o B = << >>
    BY <1>1, Joins
  <2>2. list = << >>
    BY <1>0, <1>1, <2>1, Joins, Zenon
  <2>3. list \in Seq({a, b, c}) /\ DOMAIN list = 1 .. 0
    BY <2>2
  <2>. QED BY <1>1, <2>3 DEF Joined
<1>2. CASE A = << >> /\ B = << >> /\ C = <<c>>
  <2>1. A \o B = << >>
    BY <1>2, Joins
  <2>2. list = <<c>>
    BY <1>0, <1>2, <2>1, Joins, Zenon
  <2>3. list \in Seq({a, b, c}) /\ DOMAIN list = 1 .. 1 /\ list[1] = c
    BY <2>2
  <2>. QED BY <1>2, <2>3 DEF Joined
<1>3. CASE A = << >> /\ B = <<b>> /\ C = << >>
  <2>1. A \o B = <<b>>
    BY <1>3, Joins
  <2>2. list = <<b>>
    BY <1>0, <1>3, <2>1, Joins, Zenon
  <2>3. list \in Seq({a, b, c}) /\ DOMAIN list = 1 .. 1 /\ list[1] = b
    BY <2>2
  <2>. QED BY <1>3, <2>3 DEF Joined
<1>4. CASE A = << >> /\ B = <<b>> /\ C = <<c>>
  <2>1. A \o B = <<b>>
    BY <1>4, Joins
  <2>2. list = <<b, c>>
    BY <1>0, <1>4, <2>1, Joins, Zenon
  <2>3. list \in Seq({a, b, c}) /\ DOMAIN list = 1 .. 2 /\ list[1] = b /\ list[2] = c
    BY <2>2
  <2>. QED BY <1>4, <2>3 DEF Joined
<1>5. CASE A = <<a>> /\ B = << >> /\ C = << >>
  <2>1. A \o B = <<a>>
    BY <1>5, Joins
  <2>2. list = <<a>>
    BY <1>0, <1>5, <2>1, Joins, Zenon
  <2>3. list \in Seq({a, b, c}) /\ DOMAIN list = 1 .. 1 /\ list[1] = a
    BY <2>2
  <2>. QED BY <1>5, <2>3 DEF Joined
<1>6. CASE A = <<a>> /\ B = << >> /\ C = <<c>>
  <2>1. A \o B = <<a>>
    BY <1>6, Joins
  <2>2. list = <<a, c>>
    BY <1>0, <1>6, <2>1, Joins, Zenon
  <2>3. list \in Seq({a, b, c}) /\ DOMAIN list = 1 .. 2 /\ list[1] = a /\ list[2] = c
    BY <2>2
  <2>. QED BY <1>6, <2>3 DEF Joined
<1>7. CASE A = <<a>> /\ B = <<b>> /\ C = << >>
  <2>1. A \o B = <<a, b>>
    BY <1>7, Joins
  <2>2. list = <<a, b>>
    BY <1>0, <1>7, <2>1, Joins, Zenon
  <2>3. list \in Seq({a, b, c}) /\ DOMAIN list = 1 .. 2 /\ list[1] = a /\ list[2] = b
    BY <2>2
  <2>. QED BY <1>7, <2>3 DEF Joined
<1>8. CASE A = <<a>> /\ B = <<b>> /\ C = <<c>>
  <2>1. A \o B = <<a, b>>
    BY <1>8, Joins
  <2>2. list = <<a, b, c>>
    BY <1>0, <1>8, <2>1, Joins, Zenon
  <2>3. list \in Seq({a, b, c}) /\ DOMAIN list = 1 .. 3 /\ list[1] = a /\ list[2] = b /\ list[3] = c
    BY <2>2
  <2>. QED BY <1>8, <2>3 DEF Joined
<1>. QED BY <1>1, <1>2, <1>3, <1>4, <1>5, <1>6, <1>7, <1>8

-----------------------------------------------------------------------------
(* What each command plans.                                                *)

\* A list of phases, of which any may be left out.
LEMMA JoinedOK ==
  ASSUME NEW a \in Plans, NEW b \in Plans, NEW c \in Plans, a # b, a # c, b # c,
         NEW A, NEW B, NEW C, NEW list, Joined(list, a, b, c, A, B, C), list # << >>,
         A = <<a>> => a.name \in PhasesOf(command), B = <<b>> => b.name \in PhasesOf(command),
         C = <<c>> => c.name \in PhasesOf(command),
         b.name \in Following(a.name), c.name \in Following(a.name),
         c.name \in Following(b.name),
         a.name = "deploy" => a.ops = << >> /\ C # << >>,
         a.name # "deploy" /\ A = <<a>> => OpsFit(a.name, a.ops),
         B = <<b>> => OpsFit(b.name, b.ops), C = <<c>> => OpsFit(c.name, c.ops),
         \A k \in DOMAIN a.ops : a.ops[k].run <= run,
         \A k \in DOMAIN b.ops : b.ops[k].run <= run,
         \A k \in DOMAIN c.ops : c.ops[k].run <= run
  PROVE  PhasesOK(list)
<1>1. list \in Seq(Plans)
  <2>1. list \in Seq({a, b, c}) /\ {a, b, c} \subseteq Plans
    BY DEF Joined
  <2>2. \A S, T : S \subseteq T => Seq(S) \subseteq Seq(T)
    OBVIOUS
  <2>. QED BY <2>1, <2>2
<1>2. ASSUME NEW n \in DOMAIN list
      PROVE  \/ list[n] = a /\ A = <<a>>
             \/ list[n] = b /\ B = <<b>>
             \/ list[n] = c /\ C = <<c>>
  BY DEF Joined
<1>3. b.name # "deploy" /\ c.name # "deploy"
  BY DeployIsFirst
<1>4. ASSUME NEW n \in DOMAIN list
      PROVE  /\ list[n].name \in PhasesOf(command)
             /\ \A k \in DOMAIN list[n].ops : list[n].ops[k].run <= run
             /\ list[n].name # "deploy" => OpsFit(list[n].name, list[n].ops)
  BY <1>2
<1>5. ASSUME NEW n \in DOMAIN list, NEW m \in DOMAIN list, m < n
      PROVE  list[n].name \in Following(list[m].name)
  <2>1. \/ list[m] = a /\ list[n] \in {b, c}
        \/ list[m] = b /\ list[n] = c
    BY <1>5 DEF Joined
  <2>. QED BY <2>1
<1>6. ASSUME NEW n \in DOMAIN list, list[n].name = "deploy"
      PROVE  list[n].ops = << >> /\ n + 1 \in DOMAIN list
  <2>1. list[n] = a /\ a.name = "deploy"
    BY <1>2, <1>3, <1>6
  <2>2. list[n] # c /\ C # << >>
    BY <2>1
  <2>3. n + 1 \in DOMAIN list
    BY <2>2 DEF Joined
  <2>. QED BY <2>1, <2>3
<1>. QED BY <1>1, <1>4, <1>5, <1>6 DEF PhasesOK

\* An upload: a deployment, filesInit and the chunks.
DeployPhase == Phase("deploy", << >>)
InitPhase == Phase("init", FilesInitCalls)
UploadPhase == Phase("upload", UploadCalls)

LEMMA UploadPhasesAre ==
  ASSUME TypesOK, pc = "reading", command \in {"upload", "edit"}
  PROVE  /\ PhasesOK(UploadPhases)
         /\ Joined(UploadPhases, DeployPhase, InitPhase, UploadPhase,
                   IF Editing THEN << >> ELSE <<DeployPhase>>,
                   IF NoChanges THEN << >> ELSE <<InitPhase>>, <<UploadPhase>>)
         /\ DeployPhase.name = "deploy" /\ DeployPhase.ops = << >>
         /\ InitPhase.name = "init" /\ InitPhase.ops = FilesInitCalls
         /\ UploadPhase.name = "upload" /\ UploadPhase.ops = UploadCalls
<1>. DEFINE a == DeployPhase
            b == InitPhase
            c == UploadPhase
            A == IF Editing THEN << >> ELSE <<a>>
            B == IF NoChanges THEN << >> ELSE <<b>>
            C == <<c>>
            list == UploadPhases
<1>1. list = A \o B \o C
  BY DEF UploadPhases, DeployPhase, InitPhase, UploadPhase
<1>2. /\ a.name = "deploy" /\ a.ops = << >> /\ b.name = "init" /\ b.ops = FilesInitCalls
      /\ c.name = "upload" /\ c.ops = UploadCalls
  BY DEF DeployPhase, InitPhase, UploadPhase, Phase
<1>3. run \in 1 .. MaxRuns /\ DirectoryOK
  BY DirectoryTyped DEF TypesOK
<1>4. /\ FilesInitCalls \in Seq(FilesInitOps)
      /\ \A k \in DOMAIN FilesInitCalls : FilesInitCalls[k].run = run
  BY <1>3, InitCallsAre
<1>5. UploadCalls \in Seq(UploadOps) /\ \A k \in DOMAIN UploadCalls : UploadCalls[k].run = run
  BY <1>3, UploadCallsAre
<1>6. ASSUME NEW S, NEW calls_ \in Seq(S), S \subseteq Ops PROVE calls_ \in Seq(Ops)
  BY <1>6
<1>7. a \in Plans /\ b \in Plans /\ c \in Plans
  <2>1. /\ FilesInitCalls \in Seq(Ops) /\ UploadCalls \in Seq(Ops) /\ << >> \in Seq(Ops)
    BY <1>4, <1>5, <1>6 DEF Ops
  <2>. QED BY <2>1 DEF DeployPhase, InitPhase, UploadPhase, Phase, Plans
<1>8. OpsFit("init", FilesInitCalls) /\ OpsFit("upload", UploadCalls)
  <2>1. \A op \in FilesInitOps : op.fn = "filesInit"
    BY DEF FilesInitOps
  <2>2. \A op \in UploadOps : op.fn = "uploadFileChunks"
    BY DEF UploadOps
  <2>3. \A k \in DOMAIN FilesInitCalls : FilesInitCalls[k] \in FilesInitOps
    BY <1>4
  <2>4. \A k \in DOMAIN UploadCalls : UploadCalls[k] \in UploadOps
    BY <1>5
  <2>. QED BY <2>1, <2>2, <2>3, <2>4 DEF OpsFit, FnOf
<1>9. command = "upload" \/ (command = "edit" /\ A = << >>)
  BY DEF Editing
<1>10. a # b /\ a # c /\ b # c
  BY <1>2
<1>11. A \in {<< >>, <<a>>} /\ B \in {<< >>, <<b>>} /\ C \in {<< >>, <<c>>}
  OBVIOUS
<1>12. /\ A = <<a>> => "deploy" \in PhasesOf(command)
       /\ "init" \in PhasesOf(command) /\ "upload" \in PhasesOf(command)
  BY <1>9 DEF PhasesOf
<1>13. /\ "init" \in Following("deploy") /\ "upload" \in Following("deploy")
       /\ "upload" \in Following("init")
  BY DEF Following
<1>14. /\ \A k \in DOMAIN FilesInitCalls : FilesInitCalls[k].run <= run
       /\ \A k \in DOMAIN UploadCalls : UploadCalls[k].run <= run
       /\ DOMAIN << >> = {}
  BY <1>3, <1>4, <1>5
<1>15. Joined(A \o B \o C, a, b, c, A, B, C)
  BY <1>10, <1>11, JoinedList, Zenon
<1>16. Joined(list, a, b, c, A, B, C)
  BY <1>1, <1>15, Zenon
<1>17. list # << >> /\ C # << >>
  BY <1>16 DEF Joined
<1>. HIDE DEF a, b, c, A, B, C, list
<1>18. PhasesOK(list)
  BY <1>2, <1>7, <1>8, <1>10, <1>12, <1>13, <1>14, <1>16, <1>17, JoinedOK
<1>. QED BY <1>2, <1>16, <1>18 DEF a, b, c, A, B, C, list

\* A deletion: the files, the metadata and the bytecode.
DeleteOp == [fn |-> "deleteFiles", run |-> run, files |-> Listed]
RemoveOp == [fn |-> "removeMetadataGlobal", run |-> run, keys |-> Present]
PurgeOp == [fn |-> "purge", run |-> run]

LEMMA DeletePhasesAre ==
  ASSUME TypesOK, pc = "reading", NEW purge \in BOOLEAN,
         command = IF purge THEN "purge" ELSE "delete"
  PROVE  LET a == Phase("delete", <<DeleteOp>>)
             b == Phase("remove", <<RemoveOp>>)
             c == Phase("purge", <<PurgeOp>>)
         IN  /\ DeletePhases(purge) # << >> => PhasesOK(DeletePhases(purge))
             /\ Joined(DeletePhases(purge), a, b, c,
                       IF Listed = {} THEN << >> ELSE <<a>>,
                       IF Present = {} THEN << >> ELSE <<b>>,
                       IF purge THEN <<c>> ELSE << >>)
             /\ a.name = "delete" /\ a.ops = <<DeleteOp>>
             /\ b.name = "remove" /\ b.ops = <<RemoveOp>>
             /\ c.name = "purge" /\ c.ops = <<PurgeOp>>
<1>. DEFINE a == Phase("delete", <<DeleteOp>>)
            b == Phase("remove", <<RemoveOp>>)
            c == Phase("purge", <<PurgeOp>>)
            A == IF Listed = {} THEN << >> ELSE <<a>>
            B == IF Present = {} THEN << >> ELSE <<b>>
            C == IF purge THEN <<c>> ELSE << >>
            list == DeletePhases(purge)
<1>1. list = A \o B \o C
  BY DEF DeletePhases, DeleteOp, RemoveOp, PurgeOp
<1>2. /\ a.name = "delete" /\ a.ops = <<DeleteOp>> /\ b.name = "remove" /\ b.ops = <<RemoveOp>>
      /\ c.name = "purge" /\ c.ops = <<PurgeOp>>
  BY DEF Phase
<1>3. run \in 1 .. MaxRuns
  BY DEF TypesOK
<1>4. /\ DeleteOp \in DeleteOps /\ DeleteOp.fn = "deleteFiles" /\ DeleteOp.run = run
      /\ RemoveOp \in RemoveOps /\ RemoveOp.fn = "removeMetadataGlobal" /\ RemoveOp.run = run
      /\ PurgeOp \in PlainOps /\ PurgeOp.fn = "purge" /\ PurgeOp.run = run
  BY <1>3 DEF DeleteOp, RemoveOp, PurgeOp, DeleteOps, RemoveOps, PlainOps, Listed, Present
<1>5. DeleteOp \in Ops /\ RemoveOp \in Ops /\ PurgeOp \in Ops
  BY <1>4 DEF Ops
<1>6. \A op : /\ DOMAIN <<op>> = {1} /\ <<op>>[1] = op
              /\ op \in Ops => <<op>> \in Seq(Ops)
  OBVIOUS
<1>7. a \in Plans /\ b \in Plans /\ c \in Plans
  BY <1>5, <1>6 DEF Phase, Plans
<1>8. OpsFit("delete", <<DeleteOp>>) /\ OpsFit("remove", <<RemoveOp>>)
      /\ OpsFit("purge", <<PurgeOp>>)
  <2>1. /\ FnOf("delete") = "deleteFiles" /\ FnOf("remove") = "removeMetadataGlobal"
        /\ FnOf("purge") = "purge"
    BY DEF FnOf
  <2>2. ASSUME NEW name, NEW op, op.fn = FnOf(name) PROVE OpsFit(name, <<op>>)
    BY <1>6, <2>2 DEF OpsFit
  <2>. QED BY <1>4, <2>1, <2>2
<1>9. a # b /\ a # c /\ b # c
  BY <1>2
<1>10. A \in {<< >>, <<a>>} /\ B \in {<< >>, <<b>>} /\ C \in {<< >>, <<c>>}
  OBVIOUS
<1>11. /\ "delete" \in PhasesOf(command) /\ "remove" \in PhasesOf(command)
       /\ C = <<c>> => "purge" \in PhasesOf(command)
  BY DEF PhasesOf
<1>12. /\ "remove" \in Following("delete") /\ "purge" \in Following("delete")
       /\ "purge" \in Following("remove")
  BY DEF Following
<1>13. /\ \A k \in DOMAIN <<DeleteOp>> : <<DeleteOp>>[k].run <= run
       /\ \A k \in DOMAIN <<RemoveOp>> : <<RemoveOp>>[k].run <= run
       /\ \A k \in DOMAIN <<PurgeOp>> : <<PurgeOp>>[k].run <= run
  BY <1>3, <1>4
<1>14. Joined(A \o B \o C, a, b, c, A, B, C)
  BY <1>9, <1>10, JoinedList, Zenon
<1>15. Joined(list, a, b, c, A, B, C)
  BY <1>1, <1>14, Zenon
<1>. HIDE DEF a, b, c, A, B, C, list
<1>16. ASSUME list # << >> PROVE PhasesOK(list)
  <2>1. /\ a.name \in PhasesOf(command) /\ b.name \in PhasesOf(command)
        /\ C = <<c>> => c.name \in PhasesOf(command)
    BY <1>2, <1>11
  <2>2. /\ b.name \in Following(a.name) /\ c.name \in Following(a.name)
        /\ c.name \in Following(b.name)
    BY <1>2, <1>12
  <2>3. OpsFit(a.name, a.ops) /\ OpsFit(b.name, b.ops) /\ OpsFit(c.name, c.ops)
        /\ a.name # "deploy"
    BY <1>2, <1>8
  <2>4. /\ \A k \in DOMAIN a.ops : a.ops[k].run <= run
        /\ \A k \in DOMAIN b.ops : b.ops[k].run <= run
        /\ \A k \in DOMAIN c.ops : c.ops[k].run <= run
    BY <1>2, <1>13
  <2>. QED BY <1>7, <1>9, <1>15, <1>16, <2>1, <2>2, <2>3, <2>4, JoinedOK
<1>. QED BY <1>2, <1>15, <1>16 DEF a, b, c, A, B, C, list

\* One phase with one operation.
LEMMA OnePhase ==
  ASSUME TypesOK, run # 0, NEW name \in {"setOwner", "metadata"}, name \in PhasesOf(command),
         NEW op \in Ops, op.fn = name, op.run = run
  PROVE  LET phases == <<Phase(name, <<op>>)>>
         IN  /\ PhasesOK(phases) /\ phases \in Seq(Plans) /\ DOMAIN phases = {1}
             /\ phases[1].name = name /\ phases[1].ops = <<op>>
<1>1. DOMAIN <<op>> = {1} /\ <<op>>[1] = op /\ <<op>> \in Seq(Ops)
  OBVIOUS
<1>2. OpsFit(name, <<op>>)
  BY <1>1 DEF OpsFit, FnOf
<1>. DEFINE p == Phase(name, <<op>>)
<1>3. p \in Plans /\ p.name = name /\ p.ops = <<op>>
  BY <1>1 DEF Phase, Plans
<1>. HIDE DEF p
<1>4. <<p>> \in Seq(Plans) /\ DOMAIN <<p>> = {1} /\ <<p>>[1] = p /\ <<p>> # << >>
  BY <1>3
<1>5. run \in 0 .. MaxRuns
  BY DEF TypesOK
<1>6. PhasesOK(<<p>>)
  BY <1>1, <1>2, <1>3, <1>4, <1>5 DEF PhasesOK
<1>. QED BY <1>3, <1>4, <1>6 DEF p

-----------------------------------------------------------------------------
(* Every step keeps the types and the course.                              *)

Base == IInv /\ WebsiteOK /\ TypesOK /\ CourseOK

LEMMA QuitCourse ==
  ASSUME NEW how \in {"done", "failed", "aborted"}, Quits(how)
  PROVE  CourseOK'
<1>1. DOMAIN << >> = {}
  OBVIOUS
<1>. QED BY <1>1 DEF Quits, CourseOK

LEMMA EndBase ==
  ASSUME Base, NEW how \in {"done", "failed", "aborted"}, Ends(how, calls),
         disturbed' \in BOOLEAN, UNCHANGED <<vars, run, command, directory>>
  PROVE  Base'
<1>1. calls \in Seq(CallRecords) /\ \A i \in DOMAIN calls : calls[i].op.run <= run
  BY DEF Base, TypesOK
<1>2. TypesOK'
  BY <1>1, EndTypes DEF Base
<1>3. CourseOK'
  BY QuitCourse DEF Ends
<1>. QED BY <1>2, <1>3, SiteUnchanged DEF Base

LEMMA EnterBase ==
  ASSUME Base, NEW phases, PhasesOK(phases), Enter(phases), run # 0,
         loose' = loose \/ Leaves(calls), disturbed' \in BOOLEAN,
         UNCHANGED <<vars, run, command, directory>>
  PROVE  Base'
<1>1. calls \in Seq(CallRecords) /\ \A i \in DOMAIN calls : calls[i].op.run <= run
  BY DEF Base, TypesOK
<1>2. LooseOK(loose')
  BY <1>1, LeavesOK DEF Base, LooseOK, TypesOK
<1>3. TypesOK' /\ CourseOK'
  BY <1>2, EnterOK DEF Base
<1>. QED BY <1>3, SiteUnchanged DEF Base

LEMMA MarkedBase ==
  ASSUME Base, NEW i \in DOMAIN calls, NEW status, NEW chain, Marked(i, status, chain),
         UNCHANGED <<pc, run, command, directory, phase, plan, loose>>, disturbed' \in BOOLEAN
  PROVE  TypesOK' /\ CourseOK'
<1>1. TypesOK'
  BY MarkedTypes DEF Base
<1>2. CalledOps' = CalledOps /\ calls # << >>
  BY DEF Marked, CalledOps
<1>3. CourseOK'
  BY <1>2 DEF Base, CourseOK
<1>. QED BY <1>1, <1>3

LEMMA StartBase ==
  ASSUME Base, NEW c \in Commands, NEW d \in Directories, Start(c, d)
  PROVE  Base'
<1>1. UNCHANGED vars /\ UNCHANGED <<phase, calls, plan, loose>>
      /\ pc' = "reading" /\ run' = run + 1 /\ command' = c /\ disturbed' = FALSE
      /\ pc \notin {"reading", "calling"} /\ run < MaxRuns
      /\ directory' \in Directories \cup {<< >>}
  BY DEF Start
<1>2. phase = "none" /\ calls = << >> /\ plan = << >>
  BY <1>1 DEF Base, CourseOK
<1>3. TypesOK'
  <2>1. run \in Nat /\ MaxRuns \in Nat /\ run + 1 \in 0 .. MaxRuns /\ run + 1 # 0
    BY <1>1, CliAssumption DEF Base, TypesOK
  <2>2. \A x \in Nat : x <= run => x <= run + 1
    BY <2>1
  <2>3. \A op \in loose : op.run <= run'
    <3>1. \A op \in loose : op.run \in Nat /\ op.run <= run
      BY OpFields DEF Base, TypesOK
    <3>. QED BY <1>1, <2>2, <3>1
  <2>4. DOMAIN calls' = {} /\ DOMAIN plan' = {}
    BY <1>1, <1>2
  <2>. QED BY <1>1, <2>1, <2>3, <2>4 DEF Base, TypesOK
<1>4. CourseOK'
  <2>1. DOMAIN plan' = {}
    BY <1>1, <1>2
  <2>. QED BY <1>1, <1>2, <2>1 DEF CourseOK
<1>. QED BY <1>1, <1>3, <1>4, SiteUnchanged DEF Base

LEMMA ReadsBase ==
  ASSUME Base, \/ ReadStops \/ UploadReads \/ ImmutableReads \/ MetadataReads
               \/ \E purge \in BOOLEAN : DeleteReads(purge)
  PROVE  Base'
<1>0. TypesOK /\ run \in 0 .. MaxRuns /\ disturbed \in BOOLEAN /\ (pc = "reading" => run # 0)
      /\ (run # 0 => run \in 1 .. MaxRuns)
  BY DEF Base, TypesOK
<1>1. CASE ReadStops
  BY <1>0, <1>1, EndBase DEF ReadStops
<1>2. CASE UploadReads
  BY <1>0, <1>2, EnterBase, UploadPhasesAre DEF UploadReads
<1>3. CASE ImmutableReads
  <2>. DEFINE op == [fn |-> "setOwner", run |-> run]
  <2>1. op \in Ops /\ op.fn = "setOwner" /\ op.run = run
    <3>1. op \in PlainOps /\ op.fn = "setOwner" /\ op.run = run
      BY <1>0, <1>3 DEF PlainOps, ImmutableReads
    <3>. QED BY <3>1 DEF Ops
  <2>2. "setOwner" \in PhasesOf(command) /\ run # 0
    BY <1>0, <1>3 DEF PhasesOf, ImmutableReads
  <2>. HIDE DEF op
  <2>3. PhasesOK(<<Phase("setOwner", <<op>>)>>)
    BY <1>0, <2>1, <2>2, OnePhase
  <2>. QED BY <1>0, <1>3, <2>2, <2>3, EnterBase DEF ImmutableReads, op
<1>4. CASE MetadataReads
  <2>1. PICK key \in MetaKeys, value \in {run, None}, f \in Files \cup {None} :
          Enter(<<Phase("metadata", <<[fn |-> "metadata", run |-> run, file |-> f, key |-> key,
                                      value |-> value]>>)>>)
    BY <1>4 DEF MetadataReads
  <2>. DEFINE op == [fn |-> "metadata", run |-> run, file |-> f, key |-> key, value |-> value]
  <2>2. op \in Ops /\ op.fn = "metadata" /\ op.run = run
    <3>1. run \in MetaValues
      BY <1>0, <1>4, CliAssumption DEF MetadataReads
    <3>2. op \in MetadataOps /\ op.fn = "metadata" /\ op.run = run
      BY <1>0, <1>4, <3>1 DEF MetadataOps, MetadataReads
    <3>. QED BY <3>2 DEF Ops
  <2>3. "metadata" \in PhasesOf(command) /\ run # 0
    BY <1>0, <1>4 DEF PhasesOf, MetadataReads
  <2>4. Enter(<<Phase("metadata", <<op>>)>>)
    BY <2>1
  <2>. HIDE DEF op
  <2>5. PhasesOK(<<Phase("metadata", <<op>>)>>)
    BY <1>0, <2>2, <2>3, OnePhase
  <2>. QED BY <1>0, <1>4, <2>3, <2>4, <2>5, EnterBase DEF MetadataReads
<1>5. CASE \E purge \in BOOLEAN : DeleteReads(purge)
  <2>1. PICK purge \in BOOLEAN : DeleteReads(purge)
    BY <1>5
  <2>2. CASE DeletePhases(purge) # << >> /\ Enter(DeletePhases(purge)) /\ loose' = loose
    BY <1>0, <2>1, <2>2, EnterBase, DeletePhasesAre DEF DeleteReads
  <2>3. CASE Ends("done", calls)
    BY <1>0, <2>1, <2>3, EndBase DEF DeleteReads
  <2>. QED BY <2>1, <2>2, <2>3 DEF DeleteReads
<1>. QED BY <1>1, <1>2, <1>3, <1>4, <1>5

\* How the actions of a call mark it.
LEMMA CallsMarked ==
  ASSUME TypesOK, NEW i \in DOMAIN calls
  PROVE  /\ calls[i].status \in Statuses /\ calls[i].chain \in Chains
         /\ Send(i) => Marked(i, "sent", "pending")
         /\ Answered(i) => \/ calls[i].chain = "ok" /\ Marked(i, "success", "ok")
                           \/ calls[i].chain # "ok" /\ Marked(i, "error", calls[i].chain)
         /\ TimesOut(i) => Marked(i, "unanswered", calls[i].chain)
<1>1. calls \in Seq(CallRecords) /\ calls[i].status \in Statuses /\ calls[i].chain \in Chains
  BY MarksOne DEF TypesOK
<1>2. /\ {"waiting", "sent", "success", "error", "unanswered", "thrown"} \subseteq Statuses
      /\ {"none", "pending", "ok", "refused"} \subseteq Chains
  BY DEF Statuses, Chains
<1>3. ASSUME NEW status \in Statuses, calls' = [calls EXCEPT ![i].status = status]
      PROVE  Marked(i, status, calls[i].chain)
  <2>1. calls' = Remark(calls, i, status, calls[i].chain)
    BY <1>1, <1>3, MarksOne
  <2>. QED BY <1>1, <2>1, CallMarked
<1>4. ASSUME Send(i) PROVE Marked(i, "sent", "pending")
  <2>1. calls' = Remark(calls, i, "sent", "pending")
    BY <1>4 DEF Send, Remark
  <2>. QED BY <1>1, <1>2, <2>1, CallMarked
<1>5. ASSUME Answered(i)
      PROVE  \/ calls[i].chain = "ok" /\ Marked(i, "success", "ok")
             \/ calls[i].chain # "ok" /\ Marked(i, "error", calls[i].chain)
  <2>1. CASE calls[i].chain = "ok"
    <3>1. calls' = [calls EXCEPT ![i].status = "success"]
      BY <1>5, <2>1 DEF Answered
    <3>2. Marked(i, "success", calls[i].chain)
      BY <1>2, <1>3, <3>1
    <3>. QED BY <2>1, <3>2
  <2>2. CASE calls[i].chain # "ok"
    <3>1. calls' = [calls EXCEPT ![i].status = "error"]
      BY <1>5, <2>2 DEF Answered
    <3>2. Marked(i, "error", calls[i].chain)
      BY <1>2, <1>3, <3>1
    <3>. QED BY <2>2, <3>2
  <2>. QED BY <2>1, <2>2
<1>6. ASSUME TimesOut(i) PROVE Marked(i, "unanswered", calls[i].chain)
  BY <1>2, <1>3, <1>6 DEF TimesOut
<1>. QED BY <1>1, <1>4, <1>5, <1>6

LEMMA ThrownBase ==
  ASSUME Base, NEW i \in DOMAIN calls, NEW chain \in Chains, Thrown(i, chain)
  PROVE  Base' /\ disturbed' = TRUE
<1>. DEFINE after == Remark(calls, i, "thrown", chain)
<1>1. disturbed' = TRUE /\ UNCHANGED <<vars, run, command, directory>>
  BY DEF Thrown
<1>2. calls \in Seq(CallRecords) /\ TypesOK /\ \A j \in DOMAIN calls : calls[j].op.run <= run
  BY DEF Base, TypesOK
<1>3. "thrown" \in Statuses
  BY DEF Statuses
<1>4. CASE calls' = after /\ UNCHANGED <<pc, phase, plan, loose>>
  <2>1. Marked(i, "thrown", chain)
    BY <1>2, <1>3, <1>4, CallMarked
  <2>2. TypesOK' /\ CourseOK'
    BY <1>1, <1>4, <2>1, MarkedBase
  <2>. QED BY <1>1, <2>2, SiteUnchanged DEF Base
<1>5. CASE Ends("failed", after)
  <2>1. after \in Seq(CallRecords) /\ DOMAIN after = DOMAIN calls
        /\ \A j \in DOMAIN calls : after[j].op = calls[j].op
    BY <1>2, <1>3, Marks
  <2>. HIDE DEF after
  <2>2. \A j \in DOMAIN after : after[j].op.run <= run
    BY <1>2, <2>1
  <2>3. TypesOK'
    BY <1>1, <1>2, <1>5, <2>1, <2>2, EndTypes
  <2>4. CourseOK'
    BY <1>5, QuitCourse DEF Ends
  <2>. QED BY <1>1, <2>3, <2>4, SiteUnchanged DEF Base
<1>. QED BY <1>4, <1>5 DEF Thrown, Remark

LEMMA CallsBase ==
  ASSUME Base, NEW i \in DOMAIN calls,
         Send(i) \/ SendFails(i) \/ Answered(i) \/ TimesOut(i) \/ AnswerFails(i)
  PROVE  Base'
<1>0. TypesOK /\ disturbed \in BOOLEAN
  BY DEF Base, TypesOK
<1>1. ASSUME NEW status, NEW chain, Marked(i, status, chain), disturbed' \in BOOLEAN,
             UNCHANGED <<vars, pc, run, command, directory, phase, plan, loose>>
      PROVE  Base'
  <2>1. TypesOK' /\ CourseOK'
    BY <1>1, MarkedBase
  <2>. QED BY <1>1, <2>1, SiteUnchanged DEF Base
<1>2. CASE Send(i)
  <2>1. \E status, chain : Marked(i, status, chain)
    BY <1>0, <1>2, CallsMarked
  <2>2. disturbed' \in BOOLEAN
        /\ UNCHANGED <<vars, pc, run, command, directory, phase, plan, loose>>
    BY <1>0, <1>2 DEF Send
  <2>. QED BY <1>1, <2>1, <2>2
<1>3. CASE SendFails(i)
  <2>1. {"none", "pending"} \subseteq Chains
    BY DEF Chains
  <2>. QED BY <1>3, <2>1, ThrownBase DEF SendFails
<1>4. CASE Answered(i)
  <2>1. \E status, chain : Marked(i, status, chain)
    BY <1>0, <1>4, CallsMarked
  <2>2. disturbed' = disturbed
        /\ UNCHANGED <<vars, pc, run, command, directory, phase, plan, loose>>
    BY <1>4 DEF Answered
  <2>. QED BY <1>0, <1>1, <2>1, <2>2
<1>5. CASE TimesOut(i)
  <2>1. \E status, chain : Marked(i, status, chain)
    BY <1>0, <1>5, CallsMarked
  <2>2. disturbed' \in BOOLEAN
        /\ UNCHANGED <<vars, pc, run, command, directory, phase, plan, loose>>
    BY <1>0, <1>5 DEF TimesOut
  <2>. QED BY <1>1, <2>1, <2>2
<1>6. CASE AnswerFails(i)
  <2>1. calls[i].chain \in Chains
    BY <1>0, CallsMarked
  <2>. QED BY <1>6, <2>1, ThrownBase DEF AnswerFails
<1>. QED BY <1>2, <1>3, <1>4, <1>5, <1>6

\* A website without files.
LEMMA EmptyOK ==
  ASSUME files = [f \in Files |-> NoFile], globalMeta = NoMetadata
  PROVE  /\ files \in [Files -> FileKeys] /\ globalMeta \in Metadata /\ StorageConsistent
         /\ \A f \in Files : files[f] = NoFile /\ files[f].count # 0
<1>1. NoFile \in FileKeys /\ NoFile.count = None /\ ~NoFile.location
      /\ \A i \in Indices : NoFile.chunks[i] = None
  BY NoFileOK DEF FileOK, NoFile, NoChunks
<1>2. None # 0
  BY SiteAssumption
<1>. QED BY <1>1, <1>2 DEF StorageConsistent, Metadata, NoMetadata

LEMMA CliInitBase == CliInit => Base
<1>. SUFFICES ASSUME CliInit PROVE Base
  OBVIOUS
<1>1. IInv /\ WebsiteOK
  BY EmptyOK DEF CliInit, IInv, TypeOK, PurgedIsEmpty, WebsiteOK
<1>2. << >> \in Seq(CallRecords) /\ << >> \in Seq(Plans) /\ DOMAIN << >> = {}
  OBVIOUS
<1>3. TypesOK
  <2>1. /\ pc = "idle" /\ run = 0 /\ command = "none" /\ directory = << >>
        /\ calls = << >> /\ plan = << >> /\ loose = {} /\ disturbed = FALSE
    BY DEF CliInit
  <2>2. 0 \in 0 .. MaxRuns
    BY CliAssumption
  <2>3. calls \in Seq(CallRecords) /\ plan \in Seq(Plans) /\ DOMAIN calls = {} /\ DOMAIN plan = {}
    BY <1>2, <2>1
  <2>4. disturbed \in BOOLEAN
    BY <2>1
  <2>. QED BY <2>1, <2>2, <2>3, <2>4 DEF TypesOK
<1>4. CourseOK
  BY <1>2 DEF CliInit, CourseOK
<1>. QED BY <1>1, <1>3, <1>4 DEF Base

LEMMA DeployBase ==
  ASSUME Base, Deploys \/ DeployFails
  PROVE  Base'
<1>0. TypesOK /\ CourseOK /\ disturbed \in BOOLEAN
  BY DEF Base, TypesOK
<1>1. CASE DeployFails
  BY <1>0, <1>1, EndBase DEF DeployFails
<1>2. CASE Deploys
  <2>1. /\ code' = "website" /\ owner' = Publisher /\ loose' = {}
        /\ files' = [f \in Files |-> NoFile] /\ globalMeta' = NoMetadata
        /\ UNCHANGED <<run, command, directory>> /\ pc = "calling" /\ phase = "deploy"
        /\ \/ Enter(plan) /\ disturbed' = disturbed
           \/ Quits("failed") /\ disturbed' = TRUE
    BY <1>2 DEF Deploys
  <2>2. /\ files' \in [Files -> FileKeys] /\ globalMeta' \in Metadata
        /\ StorageConsistent' /\ \A f \in Files : files'[f].count # 0
    <3>1. NoFile \in FileKeys /\ NoFile.count = None /\ ~NoFile.location
          /\ \A i \in Indices : NoFile.chunks[i] = None
      BY NoFileOK DEF FileOK, NoFile, NoChunks
    <3>2. None # 0
      BY SiteAssumption
    <3>. QED BY <2>1, <3>1, <3>2 DEF StorageConsistent, Metadata, NoMetadata
  <2>3. IInv' /\ WebsiteOK'
    BY <2>1, <2>2, CliAssumption, SiteAssumption DEF IInv, TypeOK, PurgedIsEmpty, WebsiteOK
  <2>4. LooseOK(loose')
    BY <2>1 DEF LooseOK
  <2>5. CASE Enter(plan) /\ disturbed' = disturbed
    <3>1. plan # << >> /\ run # 0
      BY <1>0, <2>1 DEF CourseOK, TypesOK
    <3>2. TypesOK' /\ CourseOK'
      BY <1>0, <2>1, <2>4, <2>5, <3>1, PlanOK, EnterOK
    <3>. QED BY <2>3, <3>2 DEF Base
  <2>6. CASE Quits("failed") /\ disturbed' = TRUE
    <3>1. TypesOK'
      BY <1>0, <2>1, <2>4, <2>6, QuitTypes
    <3>2. CourseOK'
      BY <2>6, QuitCourse
    <3>. QED BY <2>3, <3>1, <3>2 DEF Base
  <2>. QED BY <2>1, <2>5, <2>6
<1>. QED BY <1>1, <1>2

LEMMA PhaseBase ==
  ASSUME Base, Declined \/ PhaseEnds
  PROVE  Base'
<1>0. TypesOK /\ CourseOK /\ disturbed \in BOOLEAN /\ (pc = "calling" => run # 0)
  BY DEF Base, TypesOK
<1>1. CASE Declined
  BY <1>0, <1>1, EndBase DEF Declined
<1>2. CASE PhaseEnds
  <2>1. CASE plan # << >> /\ Enter(plan) /\ Leaves(calls)
    BY <1>0, <1>2, <2>1, EnterBase, PlanOK DEF PhaseEnds
  <2>2. CASE Ends("done", calls)
    BY <1>0, <1>2, <2>2, EndBase DEF PhaseEnds
  <2>3. CASE Ends("failed", calls)
    BY <1>0, <1>2, <2>3, EndBase DEF PhaseEnds
  <2>. QED BY <1>2, <2>1, <2>2, <2>3 DEF PhaseEnds
<1>. QED BY <1>1, <1>2

LEMMA ExecutesBase ==
  ASSUME Base, NEW i \in DOMAIN calls, Executes(i)
  PROVE  /\ Base'
         /\ \/ Effect(calls[i].op) /\ Marked(i, calls[i].status, "ok")
            \/ Refused(calls[i].op) /\ Marked(i, calls[i].status, "refused") /\ UNCHANGED vars
<1>0. /\ TypesOK /\ CourseOK /\ disturbed \in BOOLEAN /\ IInv /\ WebsiteOK
      /\ calls \in Seq(CallRecords)
  BY DEF Base, TypesOK
<1>1. /\ calls[i].op \in Ops /\ calls[i].status \in Statuses
      /\ "ok" \in Chains /\ "refused" \in Chains
  <2>1. calls[i] \in CallRecords
    BY <1>0
  <2>. QED BY <2>1 DEF CallRecords, Chains
<1>2. UNCHANGED <<pc, run, command, directory, phase, plan, loose, disturbed>>
  BY DEF Executes
<1>3. ASSUME NEW chain \in Chains, calls' = [calls EXCEPT ![i].chain = chain]
      PROVE  Marked(i, calls[i].status, chain)
  <2>0. calls[i] \in CallRecords
    BY <1>0
  <2>1. [calls EXCEPT ![i].chain = chain] = Remark(calls, i, calls[i].status, chain)
    BY <1>0, <2>0 DEF Remark, CallRecords
  <2>2. calls' = Remark(calls, i, calls[i].status, chain)
    BY <1>3, <2>1, Zenon
  <2>. QED BY <1>0, <1>1, <2>2, CallMarked
<1>4. ASSUME NEW chain, Marked(i, calls[i].status, chain) PROVE TypesOK' /\ CourseOK'
  <2>1. disturbed' \in BOOLEAN
    BY <1>0, <1>2
  <2>. QED BY <1>2, <1>4, <2>1, MarkedBase
<1>5. CASE Effect(calls[i].op) /\ calls' = [calls EXCEPT ![i].chain = "ok"]
  <2>1. IInv' /\ WebsiteOK'
    BY <1>0, <1>1, <1>5, EffectOK
  <2>2. Marked(i, calls[i].status, "ok")
    BY <1>1, <1>3, <1>5
  <2>. QED BY <1>4, <1>5, <2>1, <2>2 DEF Base
<1>6. CASE Refused(calls[i].op) /\ calls' = [calls EXCEPT ![i].chain = "refused"] /\ UNCHANGED vars
  <2>1. IInv' /\ WebsiteOK'
    BY <1>0, <1>6, SiteUnchanged
  <2>2. Marked(i, calls[i].status, "refused")
    BY <1>1, <1>3, <1>6
  <2>. QED BY <1>4, <1>6, <2>1, <2>2 DEF Base
<1>. QED BY <1>5, <1>6 DEF Executes

LEMMA LooseBase ==
  ASSUME Base, NEW op \in loose, ExecutesLoose(op)
  PROVE  Base' /\ disturbed' = TRUE
<1>0. TypesOK /\ CourseOK /\ IInv /\ WebsiteOK /\ op \in Ops
  BY DEF Base, TypesOK
<1>1. /\ UNCHANGED <<pc, run, command, directory, phase, calls, plan>>
      /\ loose' = loose \ {op} /\ disturbed' = TRUE
      /\ Effect(op) \/ UNCHANGED vars
  BY DEF ExecutesLoose
<1>2. IInv' /\ WebsiteOK'
  BY <1>0, <1>1, EffectOK, SiteUnchanged
<1>3. TypesOK'
  BY <1>0, <1>1 DEF TypesOK
<1>4. CourseOK'
  BY <1>0, <1>1 DEF CourseOK, CalledOps
<1>. QED BY <1>1, <1>2, <1>3, <1>4 DEF Base

LEMMA CallTyped ==
  ASSUME NEW cs \in Seq(CallRecords), NEW i \in DOMAIN cs
  PROVE  cs[i].status \in Statuses /\ cs[i].chain \in Chains /\ cs[i].op \in Ops
<1>1. cs[i] \in CallRecords
  OBVIOUS
<1>. QED BY <1>1 DEF CallRecords

LEMMA BaseStep ==
  ASSUME Base, [CliNext]_allVars
  PROVE  Base'
<1>1. CASE UNCHANGED allVars
  <2>1. UNCHANGED vars /\ UNCHANGED cliVars
    BY <1>1 DEF allVars, vars, cliVars
  <2>2. TypesOK'
    BY <2>1 DEF Base, TypesOK, cliVars
  <2>3. CourseOK'
    BY <2>1 DEF Base, CourseOK, CalledOps, cliVars
  <2>. QED BY <2>1, <2>2, <2>3, SiteUnchanged DEF Base
<1>2. CASE CliNext
  BY <1>2, StartBase, ReadsBase, DeployBase, PhaseBase, CallsBase, ExecutesBase, LooseBase, Zenon
  DEF CliNext, RunStep
<1>. QED BY <1>1, <1>2

LEMMA BaseHolds == CliSpec => []Base
<1>1. Base /\ [CliNext]_allVars => Base'
  BY BaseStep
<1>. QED BY <1>1, CliInitBase, PTL DEF CliSpec

\* Whatever is lost, refused, late or executed during another run, the website,
\* the calls and what is loose keep their types, and every operation was made by
\* this run or by an earlier one.
THEOREM CliTypeCorrect == CliSpec => []CliTypeOK
<1>1. ASSUME Base PROVE CliTypeOK
  <2>1. \A i \in DOMAIN calls : /\ calls[i].status \in Statuses /\ calls[i].chain \in Chains
                                /\ calls[i].op \in Ops /\ calls[i].op.run <= run
    BY <1>1, CallTyped DEF Base, TypesOK
  <2>2. \A op \in loose : op \in Ops /\ op.run <= run
    BY <1>1 DEF Base, TypesOK
  <2>3. run \in 0 .. MaxRuns /\ MaxRuns \in Nat
    BY <1>1, CliAssumption DEF Base, TypesOK
  <2>4. \A op \in loose \cup Operations(calls) : op.run \in 1 .. run
    <3>1. \A op \in loose \cup Operations(calls) : op \in Ops /\ op.run <= run
      BY <2>1, <2>2 DEF Operations
    <3>. QED BY <2>3, <3>1, OpFields
  <2>5. \A i \in DOMAIN calls :
          /\ calls[i].status \in {"waiting", "sent", "success", "error", "unanswered", "thrown"}
          /\ calls[i].chain \in {"none", "pending", "ok", "refused"}
    BY <2>1 DEF Statuses, Chains
  <2>. QED BY <1>1, <2>4, <2>5 DEF Base, IInv, TypesOK, CliTypeOK
<1>. QED BY <1>1, BaseHolds, PTL

-----------------------------------------------------------------------------
(* The batches of chunks.                                                  *)

\* What an action of a call does to the run: the call is marked, or the run fails.
LEMMA CallSteps ==
  ASSUME Base, NEW i \in DOMAIN calls,
         \/ Send(i) \/ SendFails(i) \/ Answered(i) \/ TimesOut(i) \/ AnswerFails(i)
         \/ Executes(i)
  PROVE  /\ UNCHANGED <<run, command, directory>>
         /\ \/ /\ \E status, chain : Marked(i, status, chain)
               /\ UNCHANGED <<pc, phase, plan>>
            \/ Quits("failed")
<1>0. TypesOK /\ calls \in Seq(CallRecords)
  BY DEF Base, TypesOK
<1>1. CASE Send(i)
  <2>1. Marked(i, "sent", "pending")
    BY <1>0, <1>1, CallsMarked
  <2>2. UNCHANGED <<pc, run, command, directory, phase, plan>>
    BY <1>1 DEF Send
  <2>. QED BY <2>1, <2>2
<1>2. CASE Answered(i)
  <2>1. \E status, chain : Marked(i, status, chain)
    BY <1>0, <1>2, CallsMarked
  <2>2. UNCHANGED <<pc, run, command, directory, phase, plan>>
    BY <1>2 DEF Answered
  <2>. QED BY <2>1, <2>2
<1>3. CASE TimesOut(i)
  <2>1. \E status, chain : Marked(i, status, chain)
    BY <1>0, <1>3, CallsMarked
  <2>2. UNCHANGED <<pc, run, command, directory, phase, plan>>
    BY <1>3 DEF TimesOut
  <2>. QED BY <2>1, <2>2
<1>4. CASE Executes(i)
  <2>1. \E status, chain : Marked(i, status, chain)
    BY <1>4, ExecutesBase
  <2>. QED BY <1>4, <2>1 DEF Executes
<1>5. ASSUME NEW chain \in Chains, Thrown(i, chain)
      PROVE  /\ UNCHANGED <<run, command, directory>>
             /\ \/ /\ \E status, chain_ : Marked(i, status, chain_)
                   /\ UNCHANGED <<pc, phase, plan>>
                \/ Quits("failed")
  <2>1. "thrown" \in Statuses
    BY DEF Statuses
  <2>2. CASE calls' = Remark(calls, i, "thrown", chain) /\ UNCHANGED <<pc, phase, plan, loose>>
    <3>1. Marked(i, "thrown", chain)
      BY <1>0, <2>1, <2>2, CallMarked
    <3>. QED BY <1>5, <2>2, <3>1 DEF Thrown
  <2>3. \/ calls' = Remark(calls, i, "thrown", chain) /\ UNCHANGED <<pc, phase, plan, loose>>
        \/ Quits("failed")
    BY <1>5 DEF Thrown, Remark, Ends
  <2>4. UNCHANGED <<run, command, directory>>
    BY <1>5 DEF Thrown
  <2>. QED BY <2>2, <2>3, <2>4, Zenon
<1>6. CASE SendFails(i)
  <2>1. {"none", "pending"} \subseteq Chains
    BY DEF Chains
  <2>. QED BY <1>5, <1>6, <2>1 DEF SendFails
<1>7. CASE AnswerFails(i)
  <2>1. calls[i].chain \in Chains
    BY <1>0, CallsMarked
  <2>. QED BY <1>5, <1>7, <2>1 DEF AnswerFails
<1>. QED BY <1>1, <1>2, <1>3, <1>4, <1>6, <1>7

\* The batches that are sent or will be are right for the directory.
PostsInv ==
  /\ phase = "upload" => PostsRight(directory, CalledOps)
  /\ \A n \in DOMAIN plan : plan[n].name = "upload" => PostsRight(directory, plan[n].ops)

LEMMA EnterPosts ==
  ASSUME NEW phases \in Seq(Plans), phases # << >>, Enter(phases), UNCHANGED directory,
         \A n \in DOMAIN phases : phases[n].name = "upload" => PostsRight(directory, phases[n].ops)
  PROVE  PostsInv'
<1>. DEFINE ops == phases[1].ops
<1>1. /\ 1 \in DOMAIN phases /\ phases[1] \in Plans /\ phase' = phases[1].name
      /\ DOMAIN calls' = DOMAIN ops /\ \A k \in DOMAIN calls' : calls'[k].op = ops[k]
  BY Entered, Zenon
<1>2. \A n \in DOMAIN plan' : n + 1 \in DOMAIN phases /\ plan'[n] = phases[n + 1]
  BY Entered, Zenon
<1>3. CalledOps' = ops
  <2>1. ops = [k \in DOMAIN ops |-> ops[k]]
    <3>1. ops \in Seq(Ops)
      BY <1>1 DEF Plans
    <3>. HIDE DEF ops
    <3>. QED BY <3>1
  <2>. QED BY <1>1, <2>1 DEF CalledOps
<1>. QED BY <1>1, <1>2, <1>3 DEF PostsInv

LEMMA QuitPosts ==
  ASSUME NEW how, Quits(how)
  PROVE  PostsInv'
<1>1. DOMAIN << >> = {}
  OBVIOUS
<1>. QED BY <1>1 DEF Quits, PostsInv

LEMMA PostsStep ==
  ASSUME Base, PostsInv, [CliNext]_allVars
  PROVE  PostsInv'
<1>0. /\ TypesOK /\ plan \in Seq(Plans)
      /\ \A n \in DOMAIN plan : plan[n].name = "upload" => PostsRight(directory, plan[n].ops)
  BY DEF Base, TypesOK, PostsInv
<1>1. ASSUME UNCHANGED <<directory, phase, calls, plan>> PROVE PostsInv'
  BY <1>1 DEF PostsInv, CalledOps
<1>2. ASSUME Enter(plan), plan # << >>, UNCHANGED directory PROVE PostsInv'
  BY <1>0, <1>2, EnterPosts
<1>3. CASE \E c \in Commands, d \in Directories : Start(c, d)
  <2>1. phase' = "none" /\ plan' = << >>
    BY <1>3 DEF Start, Base, CourseOK
  <2>2. DOMAIN << >> = {}
    OBVIOUS
  <2>. QED BY <2>1, <2>2 DEF PostsInv
<1>4. CASE UploadReads
  <2>1. pc = "reading" /\ command \in {"upload", "edit"} /\ run \in 1 .. MaxRuns /\ DirectoryOK
    BY <1>0, <1>4, DirectoryTyped DEF UploadReads, TypesOK
  <2>2. /\ PhasesOK(UploadPhases)
        /\ Joined(UploadPhases, DeployPhase, InitPhase, UploadPhase,
                  IF Editing THEN << >> ELSE <<DeployPhase>>,
                  IF NoChanges THEN << >> ELSE <<InitPhase>>, <<UploadPhase>>)
        /\ DeployPhase.name = "deploy" /\ InitPhase.name = "init" /\ UploadPhase.ops = UploadCalls
    BY <1>0, <2>1, UploadPhasesAre
  <2>3. \A n \in DOMAIN UploadPhases : UploadPhases[n] \in {DeployPhase, InitPhase, UploadPhase}
    BY <2>2 DEF Joined
  <2>4. PostsRight(directory, UploadCalls)
    BY <2>1, UploadCallsAre
  <2>. QED BY <1>4, <2>2, <2>3, <2>4, EnterPosts DEF UploadReads, PhasesOK
<1>5. CASE ImmutableReads \/ MetadataReads
  <2>0. PICK name \in {"setOwner", "metadata"} : \E op : Enter(<<Phase(name, <<op>>)>>)
    BY <1>5 DEF ImmutableReads, MetadataReads
  <2>1. PICK op : Enter(<<Phase(name, <<op>>)>>)
    BY <2>0
  <2>2. phase' = name /\ plan' = << >>
    <3>1. /\ <<Phase(name, <<op>>)>>[1].name = name /\ Tail(<<Phase(name, <<op>>)>>) = << >>
      BY DEF Phase
    <3>. QED BY <2>1, <3>1 DEF Enter
  <2>3. DOMAIN << >> = {}
    OBVIOUS
  <2>. QED BY <2>2, <2>3 DEF PostsInv
<1>6. CASE \E purge \in BOOLEAN : DeleteReads(purge)
  <2>1. PICK purge \in BOOLEAN : DeleteReads(purge)
    BY <1>6
  <2>2. CASE DeletePhases(purge) # << >> /\ Enter(DeletePhases(purge))
    <3>1. pc = "reading" /\ command = IF purge THEN "purge" ELSE "delete"
      BY <2>1 DEF DeleteReads
    <3>2. /\ PhasesOK(DeletePhases(purge)) /\ command \in {"delete", "purge"}
      BY <1>0, <2>2, <3>1, DeletePhasesAre
    <3>3. \A n \in DOMAIN DeletePhases(purge) : DeletePhases(purge)[n].name # "upload"
      BY <3>2 DEF PhasesOK, PhasesOf
    <3>. QED BY <2>1, <2>2, <3>2, <3>3, EnterPosts DEF DeleteReads, PhasesOK
  <2>3. CASE Ends("done", calls)
    BY <2>3, QuitPosts DEF Ends
  <2>. QED BY <2>1, <2>2, <2>3 DEF DeleteReads
<1>7. CASE ReadStops \/ Declined \/ DeployFails
  BY <1>7, QuitPosts DEF ReadStops, Declined, DeployFails, Ends
<1>8. CASE Deploys
  <2>1. plan # << >>
    BY <1>8 DEF Base, CourseOK, Deploys
  <2>. QED BY <1>2, <1>8, <2>1, QuitPosts DEF Deploys
<1>9. CASE PhaseEnds
  BY <1>2, <1>9, QuitPosts DEF PhaseEnds, Ends
<1>10. ASSUME NEW i \in DOMAIN calls,
              \/ Send(i) \/ SendFails(i) \/ Answered(i) \/ TimesOut(i) \/ AnswerFails(i)
              \/ Executes(i)
       PROVE  PostsInv'
  <2>1. UNCHANGED directory
    BY <1>10, CallSteps
  <2>2. CASE (\E status, chain : Marked(i, status, chain)) /\ UNCHANGED <<pc, phase, plan>>
    <3>1. CalledOps' = CalledOps
      BY <2>2 DEF Marked, CalledOps
    <3>. QED BY <2>1, <2>2, <3>1 DEF PostsInv
  <2>. QED BY <1>10, <2>2, CallSteps, QuitPosts
<1>11. CASE \E op \in loose : ExecutesLoose(op)
  BY <1>1, <1>11 DEF ExecutesLoose
<1>12. CASE UNCHANGED allVars
  BY <1>1, <1>12 DEF allVars
<1>. QED BY <1>3, <1>4, <1>5, <1>6, <1>7, <1>8, <1>9, <1>10, <1>11, <1>12, Zenon DEF CliNext, RunStep

\* The batches of an upload are made for the directory that the run read, and
\* hold, throughout the run, each chunk of each file that changed exactly once;
\* none of them is larger than ChunkSize, whatever the sizes of the chunks are.
THEOREM BatchesAreExact == CliSpec => []BatchesExact
<1>1. ASSUME Base, PostsInv PROVE BatchesExact
  <2>1. SUFFICES ASSUME pc = "calling", phase = "upload", PostsRight(directory, CalledOps)
                 PROVE  BatchesExact
    BY <1>1 DEF BatchesExact, PostsInv
  <2>2. /\ DOMAIN CalledOps = DOMAIN calls
        /\ \A i \in DOMAIN calls : CalledOps[i] = calls[i].op
    BY DEF CalledOps
  <2>3. /\ \A i \in DOMAIN calls : BatchBytes(directory, DOMAIN calls[i].op.posts) <= ChunkSize
        /\ \A i, j \in DOMAIN calls :
             DOMAIN calls[i].op.posts \cap DOMAIN calls[j].op.posts # {} => i = j
    BY <2>1, <2>2 DEF PostsRight
  <2>. DEFINE posted == UNION {DOMAIN calls[i].op.posts : i \in DOMAIN calls}
  <2>4. /\ \A p \in posted : /\ p \in Files \X Indices
                             /\ p[1] \in DOMAIN directory /\ p[2] \in 0 .. Len(directory[p[1]]) - 1
        /\ \A f \in DOMAIN directory :
             (\E p \in posted : p[1] = f) => \A i \in 0 .. Len(directory[f]) - 1 : <<f, i>> \in posted
    BY <2>1, <2>2 DEF PostsRight
  <2>. HIDE DEF posted
  <2>5. ASSUME NEW f \in DOMAIN directory
        PROVE  {p \in posted : p[1] = f} \in {{}, {<<f, i - 1>> : i \in DOMAIN directory[f]}}
    <3>1. SUFFICES ASSUME {p \in posted : p[1] = f} # {}
                   PROVE  {p \in posted : p[1] = f} = {<<f, i - 1>> : i \in DOMAIN directory[f]}
      OBVIOUS
    <3>. DEFINE len == Len(directory[f])
    <3>2. len \in Nat /\ DOMAIN directory[f] = 1 .. len
      <4>1. directory[f] \in Seq(Data)
        BY <1>1, DirectoryTyped DEF Base, DirectoryOK
      <4>. QED BY <4>1
    <3>. HIDE DEF len
    <3>3. ASSUME NEW p \in posted, p[1] = f PROVE \E i \in 1 .. len : p = <<f, i - 1>>
      <4>1. p = <<f, p[2]>> /\ p[2] \in 0 .. len - 1
        BY <2>4, <3>3 DEF len
      <4>2. p[2] + 1 \in 1 .. len /\ p[2] = p[2] + 1 - 1
        BY <3>2, <4>1
      <4>. QED BY <4>1, <4>2
    <3>4. ASSUME NEW i \in 1 .. len PROVE <<f, i - 1>> \in posted
      <4>1. i - 1 \in 0 .. len - 1
        BY <3>2
      <4>. QED BY <2>4, <3>1, <4>1 DEF len
    <3>5. {<<f, i - 1>> : i \in 1 .. len} \subseteq {p \in posted : p[1] = f}
      BY <3>4
    <3>6. {p \in posted : p[1] = f} \subseteq {<<f, i - 1>> : i \in 1 .. len}
      BY <3>3
    <3>. QED BY <3>2, <3>5, <3>6
  <2>. QED BY <2>3, <2>5 DEF BatchesExact, posted
<1>2. PostsInv /\ Base /\ [CliNext]_allVars => PostsInv'
  BY PostsStep
<1>3. CliInit => PostsInv
  <2>1. DOMAIN << >> = {}
    OBVIOUS
  <2>. QED BY <2>1 DEF CliInit, PostsInv
<1>. QED BY <1>1, <1>2, <1>3, BaseHolds, PTL DEF CliSpec

-----------------------------------------------------------------------------
(* Runs that nothing interferes with.                                      *)

\* The operations of a phase that are not executed, and those of its later phases.
OpsOf(phases) == UNION {{phases[n].ops[k] : k \in DOMAIN phases[n].ops} : n \in DOMAIN phases}
Open == {calls[i].op : i \in {j \in DOMAIN calls : calls[j].chain # "ok"}}
Todo == Open \cup OpsOf(plan)

Owned == code = "website" /\ owner = Publisher

\* What the operations T do for the file f, and for its chunk.
Declares(T, f) == \E op \in T : op.fn = "filesInit" /\ f \in DOMAIN op.inits
PostsChunk(T, p) == \E op \in T : op.fn = "uploadFileChunks" /\ p \in DOMAIN op.posts

\* The file f, whose keys are s, is the local one when T are executed: it is
\* declared and filled, or filled, or left as it is because an edit takes it for
\* the local one.
FileComes(c, d, s, f, T) ==
  \/ /\ Declares(T, f)
     /\ \A i \in DOMAIN d[f] : PostsChunk(T, <<f, i - 1>>)
  \/ /\ ~Declares(T, f) /\ s.location /\ s.count = Len(d[f])
     /\ \A i \in DOMAIN d[f] :
          PostsChunk(T, <<f, i - 1>>) \/ s.chunks[i - 1] = d[f][i]
  \/ /\ c = "edit" /\ ~Declares(T, f) /\ s.location /\ OnChain(s) = d[f]
     /\ \A i \in Indices : ~PostsChunk(T, <<f, i>>)

\* The operations do nothing wrong: a chunk fits into a file that is declared
\* or that one of them declares.
InitFits(d, op) ==
  /\ op.deletes \cap DOMAIN d = {}
  /\ \A f \in DOMAIN op.inits :
       /\ f \in DOMAIN d /\ d[f] # << >>
       /\ op.inits[f].totalChunk = Len(d[f])
  /\ \A m \in DOMAIN op.metas \cap DOMAIN Config : op.metas[m] = Config[m]

PostFits(d, op, F, T) ==
  \A p \in DOMAIN op.posts :
    /\ p[1] \in DOMAIN d /\ p[2] \in 0 .. Len(d[p[1]]) - 1
    /\ op.posts[p] = DataOf(d, p)
    /\ F[p[1]].count = Len(d[p[1]]) \/ Declares(T, p[1])

\* The files F and the metadata G become those of the directory d by T.
Uploading(c, d, F, G, T) ==
  /\ \A op \in T : op.fn = "filesInit" => InitFits(d, op)
  /\ \A op \in T : op.fn = "uploadFileChunks" => PostFits(d, op, F, T)
  /\ \A f \in DOMAIN d : d[f] # << >> => FileComes(c, d, F[f], f, T)
  /\ \A f \in Files \ DOMAIN d :
       F[f].location => \E op \in T : op.fn = "filesInit" /\ f \in op.deletes
  /\ \A m \in DOMAIN Config :
       G[m] = Config[m] \/ \E op \in T : op.fn = "filesInit" /\ m \in DOMAIN op.metas

\* T delete what there is, and nothing else.
Deleting(F, G, T) ==
  /\ \A f \in Files : F[f].location => \E op \in T : op.fn = "deleteFiles" /\ f \in op.files
  /\ \A op \in T : op.fn = "deleteFiles" => \A f \in op.files : F[f].location
  /\ \A m \in MetaKeys :
       G[m] # None => \E op \in T : op.fn = "removeMetadataGlobal" /\ m \in op.keys
  /\ \A op \in T : op.fn = "removeMetadataGlobal" => \A m \in op.keys : G[m] # None

NoFiles == [f \in Files |-> NoFile]

\* The operations that are left take the website to the end of the run.
Coming ==
  /\ phase # "deploy" /\ Todo # {} => Owned \/ (command = "metadata" /\ code = "website")
  /\ command \in {"upload", "edit"} /\ phase = "deploy" => Uploading(command, directory, NoFiles, NoMetadata, Todo)
  /\ command \in {"upload", "edit"} /\ phase # "deploy" => Uploading(command, directory, files, globalMeta, Todo)
  /\ command \in {"delete", "purge"} => Deleting(files, globalMeta, Todo)
  /\ command = "purge" => (\E op \in Todo : op.fn = "purge") \/ code = "none"
  /\ command = "immutable" => Todo # {} \/ owner = Nobody
  /\ command = "metadata" =>
       \A op \in Todo :
         \/ op.value # None
         \/ (IF op.file = None THEN globalMeta ELSE files[op.file].meta)[op.key] # None
         \/ op.file # None /\ files[op.file].meta = NoMetadata

\* The website is gone: nothing is executed.  An edit makes the calls of its last
\* phase all the same.
Hopeless ==
  /\ code = "none" /\ command \notin {"upload", "delete"}
  /\ \A i \in DOMAIN calls : calls[i].chain # "ok"
  /\ command = "edit" =>
       \A f \in DOMAIN directory :
         directory[f] # << >> => \E op \in Todo : op.fn = "uploadFileChunks"

Underway == Coming \/ Hopeless

\* How far a call is: it waits, was sent, was executed, or was answered.
CallFine(call) ==
  \/ call.status = "waiting" /\ call.chain = "none"
  \/ call.status = "sent" /\ call.chain \in {"pending", "ok"}
  \/ call.status = "success" /\ call.chain = "ok"

\* The chain refused a call that the command should not have made.
CallOverlooked(call) ==
  call.status \in {"sent", "error"} /\ call.chain = "refused" /\ Overlooked(call.op)

\* What a run promises at its end.
WordKept ==
  /\ command = "upload" => Published
  /\ command = "edit" =>
       IF code = "none" THEN \A f \in DOMAIN directory : directory[f] = << >>
       ELSE OthersPublished /\ \A f \in Unpublished : Mistakable(f)
  /\ command \in {"delete", "purge"} =>
       globalMeta = NoMetadata /\ \A f \in Files : ~files[f].location
  /\ command = "purge" => code = "none"
  /\ command = "immutable" => owner = Nobody

Undisturbed ==
  /\ pc = "failed" => code = "none" /\ command \in {"edit", "purge", "immutable"}
  /\ \A i \in DOMAIN calls : CallFine(calls[i]) \/ CallOverlooked(calls[i])
  /\ pc = "calling" => Underway
  /\ pc = "done" => WordKept

UndisturbedInv == ~disturbed => Undisturbed

LEMMA OpenIs ==
  ASSUME NEW op
  PROVE  op \in Open <=> \E i \in DOMAIN calls : calls[i].op = op /\ calls[i].chain # "ok"
BY DEF Open

LEMMA OpsOfIs ==
  ASSUME NEW phases, NEW op
  PROVE  op \in OpsOf(phases) <=>
           \E n \in DOMAIN phases : \E k \in DOMAIN phases[n].ops : phases[n].ops[k] = op
BY DEF OpsOf

\* What is left to do is of the phase, or of one that follows it.
LEMMA TodoIs ==
  ASSUME TypesOK, CourseOK
  PROVE  /\ Todo \subseteq Ops
         /\ \A op \in Open : phase # "deploy" /\ op.fn = FnOf(phase)
         /\ \A op \in OpsOf(plan) :
              \E name \in PhasesOf(command) \cap Following(phase) : op.fn = FnOf(name)
         /\ pc # "calling" => Todo = {}
<1>1. ASSUME NEW op \in Open
      PROVE  op \in Ops /\ phase # "deploy" /\ op.fn = FnOf(phase) /\ pc = "calling"
  <2>1. PICK i \in DOMAIN calls : calls[i].op = op
    BY OpenIs
  <2>2. calls # << >> /\ pc = "calling"
    <3>1. DOMAIN << >> = {}
      OBVIOUS
    <3>. QED BY <2>1, <3>1 DEF CourseOK
  <2>3. op \in Ops
    BY <2>1, CallTyped DEF TypesOK
  <2>4. phase # "deploy" /\ OpsFit(phase, CalledOps)
    BY <2>2 DEF CourseOK
  <2>5. i \in DOMAIN CalledOps /\ CalledOps[i] = op
    BY <2>1 DEF CalledOps
  <2>. QED BY <2>2, <2>3, <2>4, <2>5 DEF OpsFit
<1>2. ASSUME NEW op \in OpsOf(plan)
      PROVE  /\ op \in Ops /\ pc = "calling"
             /\ \E name \in PhasesOf(command) \cap Following(phase) : op.fn = FnOf(name)
  <2>1. PICK n \in DOMAIN plan : \E k \in DOMAIN plan[n].ops : plan[n].ops[k] = op
    BY OpsOfIs
  <2>2. PICK k \in DOMAIN plan[n].ops : plan[n].ops[k] = op
    BY <2>1
  <2>3. plan[n] \in Plans
    BY DEF TypesOK
  <2>4. op \in Ops
    <3>1. plan[n].ops \in Seq(Ops)
      BY <2>3 DEF Plans
    <3>. QED BY <2>2, <3>1
  <2>5. /\ plan[n].name \in PhasesOf(command) \cap Following(phase)
        /\ OpsFit(plan[n].name, plan[n].ops)
    BY DEF CourseOK
  <2>6. pc = "calling"
    <3>1. DOMAIN << >> = {}
      OBVIOUS
    <3>. QED BY <2>1, <3>1 DEF CourseOK
  <2>. QED BY <2>2, <2>4, <2>5, <2>6 DEF OpsFit
<1>. QED BY <1>1, <1>2 DEF Todo

\* The operations of the phases that a run enters are all left to do.
LEMMA EnteredTodo ==
  ASSUME NEW phases \in Seq(Plans), phases # << >>, Enter(phases)
  PROVE  /\ pc' = "calling" /\ phase' = phases[1].name /\ Todo' = OpsOf(phases)
         /\ \A i \in DOMAIN calls' : CallFine(calls'[i]) /\ calls'[i].chain = "none"
<1>. DEFINE ops == phases[1].ops
<1>1. /\ 1 \in DOMAIN phases /\ pc' = "calling" /\ phase' = phases[1].name
      /\ DOMAIN calls' = DOMAIN ops
      /\ \A k \in DOMAIN calls' : /\ calls'[k].op = ops[k]
                                  /\ calls'[k].status = "waiting" /\ calls'[k].chain = "none"
  BY Entered, Zenon
<1>2. \A n \in DOMAIN plan' :
        n \in Nat \ {0} /\ n + 1 \in DOMAIN phases /\ plan'[n] = phases[n + 1]
  BY Entered, Zenon
<1>3. \A n \in DOMAIN phases : n = 1 \/ (n - 1 \in DOMAIN plan' /\ plan'[n - 1] = phases[n])
  BY Entered, Zenon
<1>4. Open' = {ops[k] : k \in DOMAIN ops}
  BY <1>1 DEF Open
<1>5. ASSUME NEW op \in OpsOf(plan') PROVE op \in OpsOf(phases)
  <2>1. PICK n \in DOMAIN plan' : \E k \in DOMAIN plan'[n].ops : plan'[n].ops[k] = op
    BY OpsOfIs
  <2>2. n + 1 \in DOMAIN phases /\ plan'[n] = phases[n + 1]
    BY <1>2
  <2>. QED BY <2>1, <2>2, OpsOfIs
<1>6. ASSUME NEW op \in OpsOf(phases) PROVE op \in {ops[k] : k \in DOMAIN ops} \cup OpsOf(plan')
  <2>1. PICK n \in DOMAIN phases : \E k \in DOMAIN phases[n].ops : phases[n].ops[k] = op
    BY OpsOfIs
  <2>2. CASE n = 1
    BY <2>1, <2>2
  <2>3. CASE n - 1 \in DOMAIN plan' /\ plan'[n - 1] = phases[n]
    BY <2>1, <2>3, OpsOfIs
  <2>. QED BY <1>3, <2>2, <2>3
<1>7. ASSUME NEW k \in DOMAIN ops PROVE ops[k] \in OpsOf(phases)
  BY <1>1, OpsOfIs
<1>8. Todo' = OpsOf(phases)
  <2>. HIDE DEF ops
  <2>. QED BY <1>4, <1>5, <1>6, <1>7 DEF Todo
<1>. QED BY <1>1, <1>8 DEF CallFine

\* A call that is marked, but not executed, leaves as much to do.
LEMMA MarkedTodo ==
  ASSUME NEW i \in DOMAIN calls, NEW status, NEW chain, Marked(i, status, chain),
         chain = "ok" <=> calls[i].chain = "ok", UNCHANGED plan
  PROVE  /\ Todo' = Todo
         /\ (\A j \in DOMAIN calls : calls[j].chain # "ok") =>
              \A j \in DOMAIN calls' : calls'[j].chain # "ok"
<1>1. DOMAIN calls' = DOMAIN calls
      /\ \A j \in DOMAIN calls : /\ calls'[j].op = calls[j].op
                                 /\ calls'[j].chain # "ok" <=> calls[j].chain # "ok"
  BY DEF Marked
<1>2. Open' = Open
  BY <1>1 DEF Open
<1>. QED BY <1>1, <1>2 DEF Todo

\* One that is executed is no longer left to do, unless another one is the same.
LEMMA ExecutedTodo ==
  ASSUME NEW i \in DOMAIN calls, NEW status, Marked(i, status, "ok"), UNCHANGED plan
  PROVE  /\ Todo' \subseteq Todo /\ Todo \subseteq Todo' \cup {calls[i].op}
         /\ DOMAIN calls = {1} => Todo' = OpsOf(plan)
<1>1. DOMAIN calls' = DOMAIN calls /\ calls'[i].chain = "ok"
      /\ \A j \in DOMAIN calls : /\ calls'[j].op = calls[j].op
                                 /\ j # i => calls'[j].chain = calls[j].chain
  BY DEF Marked
<1>2. Open' \subseteq Open /\ Open \subseteq Open' \cup {calls[i].op}
  BY <1>1 DEF Open
<1>3. DOMAIN calls = {1} => Open' = {}
  BY <1>1 DEF Open
<1>. QED BY <1>2, <1>3 DEF Todo

\* What the phase tells of the command and of its operations.
LEMMA PhaseTells ==
  ASSUME phase \in PhasesOf(command)
  PROVE  /\ phase = "deploy" => command = "upload"
         /\ phase \in {"init", "upload"} => command \in {"upload", "edit"}
         /\ phase = "init" => FnOf(phase) = "filesInit"
         /\ phase = "upload" => FnOf(phase) = "uploadFileChunks" /\ Following(phase) = {}
         /\ phase = "delete" => FnOf(phase) = "deleteFiles" /\ command \in {"delete", "purge"}
         /\ phase = "remove" =>
              FnOf(phase) = "removeMetadataGlobal" /\ command \in {"delete", "purge"}
         /\ phase = "purge" => FnOf(phase) = "purge" /\ command = "purge" /\ Following(phase) = {}
         /\ phase = "setOwner" =>
              FnOf(phase) = "setOwner" /\ command = "immutable" /\ Following(phase) = {}
         /\ phase = "metadata" =>
              FnOf(phase) = "metadata" /\ command = "metadata" /\ Following(phase) = {}
         /\ phase \in {"deploy", "init", "upload", "delete", "remove", "purge", "setOwner", "metadata"}
<1>1. /\ FnOf("init") = "filesInit" /\ FnOf("upload") = "uploadFileChunks"
      /\ FnOf("delete") = "deleteFiles" /\ FnOf("remove") = "removeMetadataGlobal"
      /\ FnOf("purge") = "purge" /\ FnOf("setOwner") = "setOwner" /\ FnOf("metadata") = "metadata"
  BY DEF FnOf
<1>2. /\ Following("upload") = {} /\ Following("purge") = {} /\ Following("setOwner") = {}
      /\ Following("metadata") = {}
  BY DEF Following
<1>3. \/ command = "upload" /\ phase \in {"deploy", "init", "upload"}
      \/ command = "edit" /\ phase \in {"init", "upload"}
      \/ command = "delete" /\ phase \in {"delete", "remove"}
      \/ command = "purge" /\ phase \in {"delete", "remove", "purge"}
      \/ command = "immutable" /\ phase = "setOwner"
      \/ command = "metadata" /\ phase = "metadata"
  BY DEF PhasesOf
<1>. QED BY <1>1, <1>2, <1>3

-----------------------------------------------------------------------------
(* Each call of an upload brings the website closer to the directory.      *)

LEMMA ConfigKeys == DOMAIN Config \subseteq MetaKeys \ {LastUpdate}
BY CliAssumption DEF Pairs

LEMMA InitEffect ==
  ASSUME IInv, NEW op \in FilesInitOps,
         FilesInit(Publisher, {}, op.deletes, op.metas, op.inits)
  PROVE  /\ \A f \in Files :
              /\ f \in DOMAIN op.inits =>
                   files'[f].location /\ files'[f].count = op.inits[f].totalChunk
              /\ f \notin DOMAIN op.inits /\ f \notin op.deletes => files'[f] = files[f]
              /\ f \notin DOMAIN op.inits /\ f \in op.deletes => ~files'[f].location
         /\ \A m \in MetaKeys :
              /\ m \in DOMAIN op.metas => globalMeta'[m] = op.metas[m]
              /\ m \notin DOMAIN op.metas => globalMeta'[m] = globalMeta[m]
<1>1. files \in [Files -> FileKeys] /\ globalMeta \in Metadata
  BY DEF IInv, TypeOK
<1>2. ASSUME NEW f \in Files
      PROVE  /\ f \in DOMAIN op.inits =>
                  files'[f].location /\ files'[f].count = op.inits[f].totalChunk
             /\ f \notin DOMAIN op.inits /\ f \notin op.deletes => files'[f] = files[f]
             /\ f \notin DOMAIN op.inits /\ f \in op.deletes => ~files'[f].location
  <2>. DEFINE s == IF f \in op.deletes THEN DeletedFile(files[f]) ELSE files[f]
  <2>1. files'[f] = IF f \in DOMAIN op.inits THEN FileInited(s, op.inits[f]) ELSE s
    BY DEF FilesInit
  <2>2. DeletedFile(files[f]) \in FileKeys /\ ~DeletedFile(files[f]).location
    BY DeletedFileOK, FilesAreOK DEF FileOK
  <2>3. s \in FileKeys
    BY <1>1, <2>2
  <2>4. ASSUME f \in DOMAIN op.inits
        PROVE  files'[f].location /\ files'[f].count = op.inits[f].totalChunk
    <3>1. op.inits[f] \in Inited
      BY <2>4 DEF FilesInitOps, Pairs
    <3>2. files'[f] = FileInited(s, op.inits[f])
      BY <2>1, <2>4
    <3>. HIDE DEF s
    <3>3. FileInited(s, op.inits[f]).count = op.inits[f].totalChunk
      BY <2>3, <3>1, CountsAfter
    <3>4. FileInited(s, op.inits[f]).location
      <4>. DEFINE fresh == IF s.location THEN DeletedFile(s) ELSE s
      <4>1. fresh \in [location : BOOLEAN, count : 0 .. MaxChunks \cup {None},
                       chunks : {s.chunks, NoChunks}, meta : {s.meta, NoMetadata}]
        BY <2>3 DEF FileKeys, DeletedFile
      <4>. HIDE DEF fresh
      <4>2. [fresh EXCEPT !.location = TRUE, !.meta = Edited(fresh.meta, op.inits[f].metadata),
                          !.count = op.inits[f].totalChunk].location
        BY <4>1
      <4>. QED BY <4>2 DEF FileInited, fresh
    <3>. QED BY <3>2, <3>3, <3>4
  <2>. QED BY <2>1, <2>2, <2>4
<1>3. ASSUME NEW m \in MetaKeys
      PROVE  /\ m \in DOMAIN op.metas => globalMeta'[m] = op.metas[m]
             /\ m \notin DOMAIN op.metas => globalMeta'[m] = globalMeta[m]
  BY <1>1 DEF FilesInit, Edited, Without, Metadata
<1>. QED BY <1>2, <1>3

LEMMA InitStep ==
  ASSUME IInv, NEW op \in FilesInitOps,
         FilesInit(Publisher, {}, op.deletes, op.metas, op.inits),
         NEW c, NEW d, DOMAIN d \subseteq Files,
         NEW T, NEW U, op \in T, op.fn = "filesInit", U \subseteq T, T \subseteq U \cup {op},
         Uploading(c, d, files, globalMeta, T)
  PROVE  Uploading(c, d, files', globalMeta', U)
<1>1. /\ op.deletes \cap DOMAIN d = {}
      /\ \A f \in DOMAIN op.inits :
           f \in DOMAIN d /\ d[f] # << >> /\ op.inits[f].totalChunk = Len(d[f])
      /\ \A m \in DOMAIN op.metas \cap DOMAIN Config : op.metas[m] = Config[m]
  BY DEF Uploading, InitFits
<1>2. \A p : PostsChunk(T, p) <=> PostsChunk(U, p)
  BY DEF PostsChunk
<1>3. \A f : /\ Declares(U, f) => Declares(T, f)
             /\ Declares(T, f) => Declares(U, f) \/ f \in DOMAIN op.inits
             /\ f \in DOMAIN op.inits => Declares(T, f)
  BY DEF Declares
<1>4. /\ \A f \in DOMAIN op.inits : files'[f].location /\ files'[f].count = Len(d[f])
      /\ \A f \in DOMAIN d : f \notin DOMAIN op.inits => files'[f] = files[f]
      /\ \A f \in Files \ DOMAIN d : /\ f \in op.deletes => ~files'[f].location
                                     /\ f \notin op.deletes => files'[f] = files[f]
  BY <1>1, InitEffect
<1>5. /\ \A q \in U : q.fn = "filesInit" => InitFits(d, q)
      /\ \A q \in T : q.fn = "uploadFileChunks" => PostFits(d, q, files, T)
      /\ \A f \in DOMAIN d : d[f] # << >> => FileComes(c, d, files[f], f, T)
      /\ \A f \in Files \ DOMAIN d :
           files[f].location => \E q \in T : q.fn = "filesInit" /\ f \in q.deletes
      /\ \A m \in DOMAIN Config :
           globalMeta[m] = Config[m] \/ \E q \in T : q.fn = "filesInit" /\ m \in DOMAIN q.metas
  BY DEF Uploading
<1>6. ASSUME NEW q \in U, q.fn = "uploadFileChunks" PROVE PostFits(d, q, files', U)
  <2>1. PostFits(d, q, files, T)
    BY <1>5, <1>6
  <2>2. ASSUME NEW p \in DOMAIN q.posts
        PROVE  files'[p[1]].count = Len(d[p[1]]) \/ Declares(U, p[1])
    <3>1. p[1] \in DOMAIN d /\ (files[p[1]].count = Len(d[p[1]]) \/ Declares(T, p[1]))
      BY <2>1 DEF PostFits
    <3>. QED BY <1>3, <1>4, <3>1
  <2>. QED BY <2>1, <2>2 DEF PostFits
<1>7. ASSUME NEW f \in DOMAIN d, d[f] # << >> PROVE FileComes(c, d, files'[f], f, U)
  <2>1. FileComes(c, d, files[f], f, T)
    BY <1>5, <1>7
  <2>2. CASE f \in DOMAIN op.inits
    <3>1. \A i \in DOMAIN d[f] : PostsChunk(U, <<f, i - 1>>)
      BY <1>2, <1>3, <2>1, <2>2 DEF FileComes
    <3>2. files'[f].location /\ files'[f].count = Len(d[f])
      BY <1>4, <2>2
    <3>. QED BY <3>1, <3>2 DEF FileComes
  <2>3. CASE f \notin DOMAIN op.inits
    <3>1. files'[f] = files[f] /\ (Declares(U, f) <=> Declares(T, f))
      BY <1>3, <1>4, <2>3
    <3>. QED BY <1>2, <2>1, <3>1 DEF FileComes
  <2>. QED BY <2>2, <2>3
<1>8. ASSUME NEW f \in Files \ DOMAIN d, files'[f].location
      PROVE  \E q \in U : q.fn = "filesInit" /\ f \in q.deletes
  <2>1. f \notin op.deletes /\ files[f].location
    BY <1>4, <1>8
  <2>. QED BY <1>5, <2>1
<1>9. ASSUME NEW m \in DOMAIN Config
      PROVE  globalMeta'[m] = Config[m] \/ \E q \in U : q.fn = "filesInit" /\ m \in DOMAIN q.metas
  <2>1. m \in MetaKeys
    BY ConfigKeys
  <2>2. CASE m \in DOMAIN op.metas
    BY <1>1, <2>1, <2>2, InitEffect
  <2>3. CASE m \notin DOMAIN op.metas
    <3>1. globalMeta'[m] = globalMeta[m]
      BY <2>1, <2>3, InitEffect
    <3>. QED BY <1>5, <2>3, <3>1
  <2>. QED BY <2>2, <2>3
<1>. QED BY <1>5, <1>6, <1>7, <1>8, <1>9 DEF Uploading

LEMMA UploadEffect ==
  ASSUME IInv, NEW posts, UploadFileChunks(Publisher, posts), NEW f \in Files
  PROVE  /\ files'[f].location = files[f].location /\ files'[f].count = files[f].count
         /\ \A i \in Indices :
              /\ <<f, i>> \in DOMAIN posts => files'[f].chunks[i] = posts[<<f, i>>]
              /\ <<f, i>> \notin DOMAIN posts => files'[f].chunks[i] = files[f].chunks[i]
         /\ (\A i \in Indices : <<f, i>> \notin DOMAIN posts) => files'[f] = files[f]
<1>1. files[f] \in FileKeys
  BY DEF IInv, TypeOK
<1>. DEFINE chunks == [i \in Indices |-> IF <<f, i>> \in DOMAIN posts THEN posts[<<f, i>>]
                                         ELSE files[f].chunks[i]]
<1>2. files'[f] = [files[f] EXCEPT !.chunks = chunks]
  BY DEF UploadFileChunks, ChunksSet
<1>3. \A i \in Indices : /\ <<f, i>> \in DOMAIN posts => chunks[i] = posts[<<f, i>>]
                         /\ <<f, i>> \notin DOMAIN posts => chunks[i] = files[f].chunks[i]
  OBVIOUS
<1>4. ASSUME \A i \in Indices : <<f, i>> \notin DOMAIN posts PROVE chunks = files[f].chunks
  <2>1. chunks = [i \in Indices |-> files[f].chunks[i]]
    BY <1>4
  <2>2. files[f].chunks \in [Indices -> Data \cup {None}]
    BY <1>1 DEF FileKeys
  <2>. HIDE DEF chunks
  <2>. QED BY <2>1, <2>2
<1>. HIDE DEF chunks
<1>5. /\ files'[f].location = files[f].location /\ files'[f].count = files[f].count
      /\ files'[f].chunks = chunks
      /\ chunks = files[f].chunks => files'[f] = files[f]
  BY <1>1, <1>2 DEF FileKeys
<1>. QED BY <1>3, <1>4, <1>5

LEMMA UploadStep ==
  ASSUME IInv, NEW op, UploadFileChunks(Publisher, op.posts),
         NEW c, NEW d, DOMAIN d \subseteq Files,
         \A f \in DOMAIN d : d[f] \in Seq(Data) /\ Len(d[f]) <= MaxChunks,
         NEW T, NEW U, op \in T, op.fn = "uploadFileChunks", U \subseteq T, T \subseteq U \cup {op},
         \A q \in T : q.fn # "filesInit",
         Uploading(c, d, files, globalMeta, T)
  PROVE  Uploading(c, d, files', globalMeta', U)
<1>1. /\ \A q \in T : q.fn = "uploadFileChunks" => PostFits(d, q, files, T)
      /\ \A f \in DOMAIN d : d[f] # << >> => FileComes(c, d, files[f], f, T)
      /\ \A f \in Files \ DOMAIN d : ~files[f].location
      /\ \A m \in DOMAIN Config : globalMeta[m] = Config[m]
  BY DEF Uploading
<1>2. \A f : ~Declares(T, f) /\ ~Declares(U, f)
  BY DEF Declares
<1>3. \A p : /\ PostsChunk(U, p) => PostsChunk(T, p)
             /\ PostsChunk(T, p) => PostsChunk(U, p) \/ p \in DOMAIN op.posts
             /\ p \in DOMAIN op.posts => PostsChunk(T, p)
  BY DEF PostsChunk
<1>4. globalMeta' = globalMeta
  BY DEF UploadFileChunks
<1>5. ASSUME NEW q \in U, q.fn = "uploadFileChunks" PROVE PostFits(d, q, files', U)
  <2>1. PostFits(d, q, files, T)
    BY <1>1, <1>5
  <2>2. \A p \in DOMAIN q.posts : p[1] \in Files
    BY <2>1 DEF PostFits
  <2>3. \A p \in DOMAIN q.posts : files'[p[1]].count = files[p[1]].count
    BY <2>2, UploadEffect
  <2>. QED BY <1>2, <2>1, <2>3 DEF PostFits
<1>6. ASSUME NEW f \in DOMAIN d, d[f] # << >> PROVE FileComes(c, d, files'[f], f, U)
  <2>0. f \in Files
    OBVIOUS
  <2>1. /\ files'[f].location = files[f].location /\ files'[f].count = files[f].count
        /\ \A i \in Indices :
             /\ <<f, i>> \in DOMAIN op.posts => files'[f].chunks[i] = op.posts[<<f, i>>]
             /\ <<f, i>> \notin DOMAIN op.posts => files'[f].chunks[i] = files[f].chunks[i]
        /\ (\A i \in Indices : <<f, i>> \notin DOMAIN op.posts) => files'[f] = files[f]
    BY <2>0, UploadEffect
  <2>. DEFINE content == d[f]
              len == Len(content)
  <2>2. content \in Seq(Data) /\ len \in Nat /\ len <= MaxChunks /\ DOMAIN content = 1 .. len
        /\ MaxChunks \in Nat
    <3>1. content \in Seq(Data) /\ len <= MaxChunks
      OBVIOUS
    <3>. HIDE DEF content
    <3>. QED BY <3>1, SiteAssumption
  <2>. HIDE DEF len
  <2>3. \A i \in DOMAIN content : i - 1 \in Indices
    BY <2>2 DEF Indices
  <2>4. CASE /\ files[f].location /\ files[f].count = Len(content)
             /\ \A i \in DOMAIN content :
                  PostsChunk(T, <<f, i - 1>>) \/ files[f].chunks[i - 1] = content[i]
    <3>1. ASSUME NEW i \in DOMAIN content
          PROVE  PostsChunk(U, <<f, i - 1>>) \/ files'[f].chunks[i - 1] = content[i]
      <4>1. CASE PostsChunk(U, <<f, i - 1>>)
        BY <4>1
      <4>2. CASE <<f, i - 1>> \in DOMAIN op.posts
        <5>1. PostFits(d, op, files, T)
          BY <1>1
        <5>2. op.posts[<<f, i - 1>>] = DataOf(d, <<f, i - 1>>)
          BY <4>2, <5>1 DEF PostFits
        <5>3. DataOf(d, <<f, i - 1>>) = content[i]
          <6>1. i - 1 + 1 = i
            BY <2>2
          <6>. QED BY <6>1 DEF DataOf
        <5>. QED BY <2>1, <2>3, <4>2, <5>2, <5>3
      <4>3. CASE ~PostsChunk(U, <<f, i - 1>>) /\ <<f, i - 1>> \notin DOMAIN op.posts
        <5>1. files[f].chunks[i - 1] = content[i]
          BY <1>3, <2>4, <4>3
        <5>. QED BY <2>1, <2>3, <4>3, <5>1
      <4>. QED BY <4>1, <4>2, <4>3
    <3>. QED BY <1>2, <2>1, <2>4, <3>1 DEF FileComes, content
  <2>5. CASE /\ c = "edit" /\ files[f].location /\ OnChain(files[f]) = content
             /\ \A i \in Indices : ~PostsChunk(T, <<f, i>>)
    <3>1. files'[f] = files[f]
      BY <1>3, <2>1, <2>5
    <3>2. \A i \in Indices : ~PostsChunk(U, <<f, i>>)
      BY <1>3, <2>5
    <3>. QED BY <1>2, <2>5, <3>1, <3>2 DEF FileComes, content
  <2>6. FileComes(c, d, files[f], f, T)
    BY <1>1, <1>6
  <2>. QED BY <1>2, <2>4, <2>5, <2>6 DEF FileComes, content
<1>7. ASSUME NEW f \in Files \ DOMAIN d PROVE ~files'[f].location
  BY <1>1, UploadEffect
<1>8. \A q \in U : q.fn # "filesInit"
  OBVIOUS
<1>. QED BY <1>1, <1>4, <1>5, <1>6, <1>7, <1>8 DEF Uploading

\* When nothing is left to do the website is the local one, but for the files
\* that an edit takes for the local ones.
LEMMA UploadEnds ==
  ASSUME DirectoryOK, IInv, Uploading(command, directory, files, globalMeta, {})
  PROVE  /\ OthersPublished
         /\ \A f \in Unpublished : command = "edit" /\ Mistakable(f)
<1>1. /\ \A f : ~Declares({}, f)
      /\ \A p : ~PostsChunk({}, p)
  BY DEF Declares, PostsChunk
<1>2. ASSUME NEW f \in Unpublished PROVE command = "edit" /\ Mistakable(f)
  <2>1. /\ f \in DOMAIN directory /\ f \in Files /\ directory[f] # << >>
        /\ ~Whole(files[f], directory[f]) /\ directory[f] \in Seq(Data)
    BY DEF Unpublished, DirectoryOK
  <2>2. FileComes(command, directory, files[f], f, {})
    BY <2>1 DEF Uploading
  <2>3. ~(/\ files[f].location /\ files[f].count = Len(directory[f])
          /\ \A i \in DOMAIN directory[f] : files[f].chunks[i - 1] = directory[f][i])
    BY <2>1 DEF Whole
  <2>4. command = "edit" /\ files[f].location /\ OnChain(files[f]) = directory[f]
    BY <1>1, <2>2, <2>3 DEF FileComes
  <2>5. \E i \in 0 .. TotalChunk(files[f]) - 1 : files[f].chunks[i] = None
    <3>. SUFFICES ASSUME \A i \in 0 .. TotalChunk(files[f]) - 1 : files[f].chunks[i] # None
                  PROVE  FALSE
      OBVIOUS
    <3>. DEFINE n == files[f].count
                content == [k \in 1 .. n |-> files[f].chunks[k - 1]]
    <3>1. /\ n \in 0 .. MaxChunks /\ MaxChunks \in Nat /\ TotalChunk(files[f]) = n
          /\ files[f].chunks \in [0 .. MaxChunks - 1 -> Data \cup {None}]
      BY <2>1, <2>4, SiteAssumption
      DEF IInv, TypeOK, FileKeys, StorageConsistent, TotalChunk, Indices
    <3>. HIDE DEF n
    <3>2. ASSUME NEW k \in 1 .. n PROVE files[f].chunks[k - 1] \in Data
      <4>1. k - 1 \in 0 .. n - 1 /\ k - 1 \in 0 .. MaxChunks - 1
        BY <3>1
      <4>. QED BY <3>1, <4>1
    <3>3. content \in Seq(Data) /\ Len(content) = n /\ DOMAIN content = 1 .. n
      BY <3>1, <3>2
    <3>4. \A i \in DOMAIN content : files[f].chunks[i - 1] = content[i]
      BY <3>3
    <3>. HIDE DEF content
    <3>5. OnChain(files[f]) = content
      BY <3>3, <3>4, OnChainWhole DEF n
    <3>. QED BY <2>3, <2>4, <3>3, <3>4, <3>5 DEF n
  <2>. QED BY <2>4, <2>5 DEF Mistakable
<1>3. OthersPublished
  BY DEF Uploading, OthersPublished
<1>. QED BY <1>2, <1>3

-----------------------------------------------------------------------------
(* What a run plans is what there is to do.                                *)

LEMMA UploadPlansAre ==
  ASSUME TypesOK, pc = "reading", command \in {"upload", "edit"}
  PROVE  /\ PhasesOK(UploadPhases)
         /\ Editing => UploadPhases[1].name # "deploy"
         /\ ~Editing => UploadPhases[1].name = "deploy"
         /\ \A op \in OpsOf(UploadPhases) :
              \/ \E k \in DOMAIN FilesInitCalls : op = FilesInitCalls[k]
              \/ \E k \in DOMAIN UploadCalls : op = UploadCalls[k]
         /\ ~NoChanges => \A k \in DOMAIN FilesInitCalls : FilesInitCalls[k] \in OpsOf(UploadPhases)
         /\ \A k \in DOMAIN UploadCalls : UploadCalls[k] \in OpsOf(UploadPhases)
<1>. DEFINE list == UploadPhases
            a == DeployPhase
            b == InitPhase
            c == UploadPhase
            A == IF Editing THEN << >> ELSE <<a>>
            B == IF NoChanges THEN << >> ELSE <<b>>
            C == <<c>>
<1>1. /\ PhasesOK(list) /\ Joined(list, a, b, c, A, B, C)
      /\ a.name = "deploy" /\ a.ops = << >> /\ b.name = "init" /\ b.ops = FilesInitCalls
      /\ c.name = "upload" /\ c.ops = UploadCalls
  BY UploadPhasesAre
<1>2. /\ Editing => A = << >>
      /\ ~Editing => A = <<a>>
      /\ ~NoChanges => B = <<b>>
      /\ C = <<c>> /\ << >> # <<a>> /\ DOMAIN << >> = {}
  OBVIOUS
<1>. HIDE DEF list, a, b, c, A, B, C
<1>3. list \in Seq(Plans) /\ list # << >>
  BY <1>1 DEF PhasesOK
<1>4. 1 \in DOMAIN list /\ \A n \in DOMAIN list : n \in Nat /\ (n = 1 \/ 1 < n)
  BY <1>3
<1>5. /\ \A n \in DOMAIN list : (list[n] = a /\ A = <<a>>) \/ list[n] = b \/ list[n] = c
      /\ A = <<a>> => \E n \in DOMAIN list : list[n] = a
      /\ B = <<b>> => \E n \in DOMAIN list : list[n] = b
      /\ C = <<c>> => \E n \in DOMAIN list : list[n] = c
      /\ \A m, n \in DOMAIN list : m < n => list[n] \in {b, c}
  BY <1>1 DEF Joined
<1>6. ASSUME Editing PROVE list[1].name # "deploy"
  <2>1. list[1] = b \/ list[1] = c
    BY <1>2, <1>4, <1>5, <1>6
  <2>. QED BY <1>1, <2>1
<1>7. ASSUME ~Editing PROVE list[1].name = "deploy"
  <2>1. PICK n \in DOMAIN list : list[n] = a
    BY <1>2, <1>5, <1>7
  <2>2. a \notin {b, c}
    BY <1>1
  <2>3. n = 1
    BY <1>4, <1>5, <2>1, <2>2
  <2>. QED BY <1>1, <2>1, <2>3
<1>8. ASSUME NEW op \in OpsOf(list)
      PROVE  \/ \E k \in DOMAIN FilesInitCalls : op = FilesInitCalls[k]
             \/ \E k \in DOMAIN UploadCalls : op = UploadCalls[k]
  <2>1. PICK n \in DOMAIN list : \E k \in DOMAIN list[n].ops : list[n].ops[k] = op
    BY OpsOfIs
  <2>. QED BY <1>1, <1>2, <1>5, <2>1
<1>9. ASSUME ~NoChanges, NEW k \in DOMAIN FilesInitCalls PROVE FilesInitCalls[k] \in OpsOf(list)
  <2>1. PICK n \in DOMAIN list : list[n] = b
    BY <1>2, <1>5, <1>9
  <2>. QED BY <1>1, <1>9, <2>1, OpsOfIs
<1>10. ASSUME NEW k \in DOMAIN UploadCalls PROVE UploadCalls[k] \in OpsOf(list)
  <2>1. PICK n \in DOMAIN list : list[n] = c
    BY <1>2, <1>5
  <2>. QED BY <1>1, <1>10, <2>1, OpsOfIs
<1>. QED BY <1>1, <1>6, <1>7, <1>8, <1>9, <1>10 DEF list

LEMMA UploadingStarts ==
  ASSUME Base, pc = "reading", command \in {"upload", "edit"},
         NEW F, NEW G, Editing => F = files /\ G = globalMeta, ~Editing => F = NoFiles
  PROVE  Uploading(command, directory, F, G, OpsOf(UploadPhases))
<1>. DEFINE T == OpsOf(UploadPhases)
<1>0. TypesOK /\ DirectoryOK /\ run \in 1 .. MaxRuns /\ StorageConsistent
  BY DirectoryTyped DEF Base, TypesOK, IInv
<1>1. /\ \A op \in T : \/ \E k \in DOMAIN FilesInitCalls : op = FilesInitCalls[k]
                       \/ \E k \in DOMAIN UploadCalls : op = UploadCalls[k]
      /\ ~NoChanges => \A k \in DOMAIN FilesInitCalls : FilesInitCalls[k] \in T
      /\ \A k \in DOMAIN UploadCalls : UploadCalls[k] \in T
  BY <1>0, UploadPlansAre
<1>. HIDE DEF T
<1>2. \A k \in DOMAIN FilesInitCalls :
        /\ FilesInitCalls[k].fn = "filesInit"
        /\ FilesInitCalls[k].deletes \subseteq Gone /\ DOMAIN FilesInitCalls[k].inits \subseteq Updated
        /\ \A f \in DOMAIN FilesInitCalls[k].inits :
             FilesInitCalls[k].inits[f].totalChunk = Len(directory[f])
        /\ \A m \in DOMAIN FilesInitCalls[k].metas :
             m # LastUpdate => FilesInitCalls[k].metas[m] = Config[m]
  <2>1. \A op \in FilesInitOps : op.fn = "filesInit"
    BY DEF FilesInitOps
  <2>2. FilesInitCalls \in Seq(FilesInitOps)
    BY <1>0, InitCallsAre
  <2>3. \A k \in DOMAIN FilesInitCalls : FilesInitCalls[k].fn = "filesInit"
    BY <2>1, <2>2
  <2>. QED BY <1>0, <2>3, InitCallsAre
<1>3. \A k \in DOMAIN UploadCalls :
        /\ UploadCalls[k].fn = "uploadFileChunks"
        /\ \A p \in DOMAIN UploadCalls[k].posts :
             p \in ToPost /\ UploadCalls[k].posts[p] = DataOf(directory, p)
  <2>1. \A op \in UploadOps : op.fn = "uploadFileChunks"
    BY DEF UploadOps
  <2>2. UploadCalls \in Seq(UploadOps)
    BY <1>0, UploadCallsAre
  <2>3. \A k \in DOMAIN UploadCalls : UploadCalls[k].fn = "uploadFileChunks"
    BY <2>1, <2>2
  <2>. QED BY <1>0, <2>3, UploadCallsAre
<1>4. /\ NoChanges => Updated = {} /\ Gone = {} /\ Differing = {}
      /\ Updated \subseteq DOMAIN directory
      /\ \A f \in Updated : RequiresUpdate(f) /\ directory[f] # << >>
  BY <1>0, ListsType DEF Updated, RequiresUpdate
<1>5. /\ \A p \in ToPost : p[1] \in Updated /\ p[2] \in 0 .. Len(directory[p[1]]) - 1
      /\ \A f \in Updated : \A i \in 0 .. Len(directory[f]) - 1 : <<f, i>> \in ToPost
  BY <1>0, ToPostIs
<1>6. /\ \A f \in Updated : Declares(T, f)
      /\ \A f : Declares(T, f) => f \in Updated
      /\ \A p \in ToPost : PostsChunk(T, p)
      /\ \A p : PostsChunk(T, p) => p \in ToPost
  <2>1. ASSUME NEW f \in Updated PROVE Declares(T, f)
    <3>1. PICK k \in DOMAIN FilesInitCalls : f \in DOMAIN FilesInitCalls[k].inits
      BY <1>0, InitCallsAre
    <3>2. FilesInitCalls[k] \in T
      BY <1>1, <1>4
    <3>. QED BY <1>2, <3>1, <3>2 DEF Declares
  <2>2. ASSUME NEW f, Declares(T, f) PROVE f \in Updated
    <3>1. PICK op \in T : op.fn = "filesInit" /\ f \in DOMAIN op.inits
      BY <2>2 DEF Declares
    <3>. QED BY <1>1, <1>2, <1>3, <3>1
  <2>3. ASSUME NEW p \in ToPost PROVE PostsChunk(T, p)
    <3>1. PICK k \in DOMAIN UploadCalls : p \in DOMAIN UploadCalls[k].posts
      BY <1>0, UploadCallsAre
    <3>. QED BY <1>1, <1>3, <3>1 DEF PostsChunk
  <2>4. ASSUME NEW p, PostsChunk(T, p) PROVE p \in ToPost
    <3>1. PICK op \in T : op.fn = "uploadFileChunks" /\ p \in DOMAIN op.posts
      BY <2>4 DEF PostsChunk
    <3>. QED BY <1>1, <1>2, <1>3, <3>1
  <2>. QED BY <2>1, <2>2, <2>3, <2>4
<1>7. ASSUME NEW op \in T, op.fn = "filesInit" PROVE InitFits(directory, op)
  <2>1. PICK k \in DOMAIN FilesInitCalls : op = FilesInitCalls[k]
    BY <1>1, <1>3, <1>7
  <2>2. op.deletes \cap DOMAIN directory = {}
    BY <1>2, <2>1 DEF Gone
  <2>3. \A f \in DOMAIN op.inits :
          f \in DOMAIN directory /\ directory[f] # << >> /\ op.inits[f].totalChunk = Len(directory[f])
    BY <1>2, <1>4, <2>1
  <2>4. \A m \in DOMAIN op.metas \cap DOMAIN Config : op.metas[m] = Config[m]
    BY <1>2, <2>1, ConfigKeys
  <2>. QED BY <2>2, <2>3, <2>4 DEF InitFits
<1>8. ASSUME NEW op \in T, op.fn = "uploadFileChunks" PROVE PostFits(directory, op, F, T)
  <2>1. PICK k \in DOMAIN UploadCalls : op = UploadCalls[k]
    BY <1>1, <1>2, <1>8
  <2>. QED BY <1>3, <1>4, <1>5, <1>6, <2>1 DEF PostFits
<1>9. ASSUME NEW f \in DOMAIN directory, directory[f] # << >> PROVE FileComes(command, directory, F[f], f, T)
  <2>1. CASE f \in Updated
    <3>. DEFINE len == Len(directory[f])
    <3>1. len \in Nat /\ DOMAIN directory[f] = 1 .. len
      <4>1. directory[f] \in Seq(Data)
        BY <1>0 DEF DirectoryOK
      <4>. QED BY <4>1
    <3>2. \A i \in 0 .. len - 1 : <<f, i>> \in ToPost
      BY <1>5, <2>1
    <3>. HIDE DEF len
    <3>3. ASSUME NEW i \in DOMAIN directory[f] PROVE PostsChunk(T, <<f, i - 1>>)
      <4>1. i - 1 \in 0 .. len - 1
        BY <3>1
      <4>. QED BY <1>6, <3>2, <4>1
    <3>. QED BY <1>6, <2>1, <3>3 DEF FileComes
  <2>2. CASE f \notin Updated
    <3>1. Editing /\ files[f].count # None /\ OnChain(files[f]) = directory[f]
      BY <1>9, <2>2 DEF Updated, RequiresUpdate
    <3>2. f \in Files
      BY <1>0 DEF DirectoryOK
    <3>3. files[f].location
      BY <1>0, <3>1, <3>2 DEF StorageConsistent
    <3>4. ~Declares(T, f)
      BY <1>6, <2>2
    <3>5. \A i \in Indices : ~PostsChunk(T, <<f, i>>)
      <4>1. \A i : <<f, i>>[1] = f
        OBVIOUS
      <4>. QED BY <1>5, <1>6, <2>2, <4>1
    <3>. QED BY <3>1, <3>3, <3>4, <3>5 DEF FileComes, Editing
  <2>. QED BY <2>1, <2>2
<1>10. ASSUME NEW f \in Files \ DOMAIN directory, F[f].location
       PROVE  \E op \in T : op.fn = "filesInit" /\ f \in op.deletes
  <2>1. Editing /\ files[f].location
    <3>1. ~NoFile.location
      BY DEF NoFile
    <3>. QED BY <1>10, <3>1 DEF NoFiles
  <2>2. f \in Gone
    BY <2>1 DEF Gone
  <2>3. PICK k \in DOMAIN FilesInitCalls : f \in FilesInitCalls[k].deletes
    BY <1>0, <2>2, InitCallsAre
  <2>. QED BY <1>1, <1>2, <1>4, <2>2, <2>3
<1>11. ASSUME NEW m \in DOMAIN Config, G[m] # Config[m]
       PROVE  \E op \in T : op.fn = "filesInit" /\ m \in DOMAIN op.metas
  <2>1. m \in Differing
    BY <1>11 DEF Differing
  <2>2. PICK k \in DOMAIN FilesInitCalls : m \in DOMAIN FilesInitCalls[k].metas
    BY <1>0, <2>1, InitCallsAre
  <2>. QED BY <1>1, <1>2, <1>4, <2>1, <2>2
<1>12. Uploading(command, directory, F, G, T)
  BY <1>7, <1>8, <1>9, <1>10, <1>11 DEF Uploading
<1>. QED BY <1>12 DEF T

LEMMA DeletingStarts ==
  ASSUME Base, pc = "reading", NEW purge \in BOOLEAN,
         command = IF purge THEN "purge" ELSE "delete"
  PROVE  /\ DeletePhases(purge) # << >> => PhasesOK(DeletePhases(purge))
         /\ Deleting(files, globalMeta, OpsOf(DeletePhases(purge)))
         /\ purge => \E op \in OpsOf(DeletePhases(purge)) : op.fn = "purge"
<1>. DEFINE list == DeletePhases(purge)
            a == Phase("delete", <<DeleteOp>>)
            b == Phase("remove", <<RemoveOp>>)
            c == Phase("purge", <<PurgeOp>>)
            A == IF Listed = {} THEN << >> ELSE <<a>>
            B == IF Present = {} THEN << >> ELSE <<b>>
            C == IF purge THEN <<c>> ELSE << >>
            T == OpsOf(list)
<1>1. /\ list # << >> => PhasesOK(list)
      /\ Joined(list, a, b, c, A, B, C)
      /\ a.ops = <<DeleteOp>> /\ b.ops = <<RemoveOp>> /\ c.ops = <<PurgeOp>>
  BY DeletePhasesAre DEF Base
<1>2. /\ Listed # {} => A = <<a>>
      /\ Listed = {} => A = << >>
      /\ Present # {} => B = <<b>>
      /\ Present = {} => B = << >>
      /\ purge => C = <<c>>
      /\ << >> # <<a>> /\ << >> # <<b>>
      /\ \A op : DOMAIN <<op>> = {1} /\ <<op>>[1] = op
  OBVIOUS
<1>3. /\ DeleteOp.fn = "deleteFiles" /\ DeleteOp.files = Listed
      /\ RemoveOp.fn = "removeMetadataGlobal" /\ RemoveOp.keys = Present
      /\ PurgeOp.fn = "purge"
  BY DEF DeleteOp, RemoveOp, PurgeOp
<1>. HIDE DEF list, a, b, c, A, B, C
<1>4. /\ \A n \in DOMAIN list : \/ list[n] = a /\ A = <<a>>
                                \/ list[n] = b /\ B = <<b>>
                                \/ list[n] = c
      /\ A = <<a>> => \E n \in DOMAIN list : list[n] = a
      /\ B = <<b>> => \E n \in DOMAIN list : list[n] = b
      /\ C = <<c>> => \E n \in DOMAIN list : list[n] = c
  BY <1>1 DEF Joined
<1>5. ASSUME NEW op \in T
      PROVE  \/ op = DeleteOp /\ Listed # {}
             \/ op = RemoveOp /\ Present # {}
             \/ op = PurgeOp
  <2>1. PICK n \in DOMAIN list : \E k \in DOMAIN list[n].ops : list[n].ops[k] = op
    BY OpsOfIs
  <2>. QED BY <1>1, <1>2, <1>4, <2>1
<1>6. ASSUME Listed # {} PROVE DeleteOp \in T
  <2>1. PICK n \in DOMAIN list : list[n] = a
    BY <1>2, <1>4, <1>6
  <2>. QED BY <1>1, <1>2, <2>1, OpsOfIs
<1>7. ASSUME Present # {} PROVE RemoveOp \in T
  <2>1. PICK n \in DOMAIN list : list[n] = b
    BY <1>2, <1>4, <1>7
  <2>. QED BY <1>1, <1>2, <2>1, OpsOfIs
<1>8. ASSUME purge PROVE PurgeOp \in T
  <2>1. PICK n \in DOMAIN list : list[n] = c
    BY <1>2, <1>4, <1>8
  <2>. QED BY <1>1, <1>2, <2>1, OpsOfIs
<1>. HIDE DEF T
<1>9. Deleting(files, globalMeta, T)
  BY <1>3, <1>5, <1>6, <1>7 DEF Deleting, Listed, Present
<1>. QED BY <1>1, <1>3, <1>8, <1>9 DEF T, list

LEMMA DeletingEnds ==
  ASSUME IInv, Deleting(files, globalMeta, {})
  PROVE  globalMeta = NoMetadata /\ \A f \in Files : ~files[f].location
<1>1. globalMeta \in [MetaKeys -> MetaValues \cup {None}]
  BY DEF IInv, TypeOK, Metadata
<1>2. \A m \in MetaKeys : globalMeta[m] = None
  BY DEF Deleting
<1>3. globalMeta = NoMetadata
  BY <1>1, <1>2 DEF NoMetadata
<1>. QED BY <1>3 DEF Deleting

-----------------------------------------------------------------------------
(* The chain refuses nothing of a run that nothing interferes with.        *)

LEMMA EffectIs ==
  ASSUME NEW op, Effect(op)
  PROVE  /\ op.fn = "filesInit" => FilesInit(Publisher, {}, op.deletes, op.metas, op.inits)
         /\ op.fn = "uploadFileChunks" => UploadFileChunks(Publisher, op.posts)
         /\ op.fn = "deleteFiles" => DeleteFiles(Publisher, op.files)
         /\ op.fn = "removeMetadataGlobal" => RemoveMetadataGlobal(Publisher, op.keys)
         /\ op.fn = "purge" => Purge(Publisher)
         /\ op.fn = "setOwner" => SetOwner(Publisher, Nobody)
<1>1. /\ "filesInit" # "uploadFileChunks" /\ "filesInit" # "deleteFiles"
      /\ "filesInit" # "removeMetadataGlobal" /\ "filesInit" # "purge"
      /\ "filesInit" # "setOwner" /\ "filesInit" # "metadata"
  OBVIOUS
<1>. QED BY <1>1 DEF Effect

\* No call to a website that is gone is executed.
LEMMA EffectNeedsCode ==
  ASSUME NEW op, Effect(op)
  PROVE  code = "website"
BY DEF Effect, FilesInit, UploadFileChunks, DeleteFiles, RemoveMetadataGlobal,
       SetMetadataGlobal, RemoveMetadataFile, SetMetadataFile, Purge, SetOwner, OnlyOwner

\* What is left to do has its turn: the website is owned, unless the metadata
\* command runs, and the phase and the command are those of the operation.
LEMMA CalledIs ==
  ASSUME Base, Undisturbed, Coming, NEW i \in DOMAIN calls, calls[i].chain = "pending"
  PROVE  /\ pc = "calling" /\ calls[i].op \in Todo /\ calls[i].op \in Ops
         /\ code = "website" /\ (phase = "metadata" \/ owner = Publisher)
         /\ calls[i].op.fn = FnOf(phase) /\ phase \in PhasesOf(command) /\ phase # "deploy"
         /\ phase \notin {"init", "upload"} => DOMAIN calls = {1}
<1>1. TypesOK /\ CourseOK
  BY DEF Base
<1>2. pc = "calling"
  <2>1. DOMAIN << >> = {}
    OBVIOUS
  <2>. QED BY <1>1, <2>1 DEF CourseOK
<1>3. calls[i].op \in Open
  BY OpenIs
<1>4. calls[i].op \in Todo /\ calls[i].op \in Ops /\ phase # "deploy" /\ calls[i].op.fn = FnOf(phase)
  BY <1>1, <1>3, TodoIs DEF Todo
<1>5. Owned \/ (command = "metadata" /\ code = "website")
  BY <1>4 DEF Coming
<1>6. phase \in PhasesOf(command) /\ OpsFit(phase, CalledOps)
  BY <1>1, <1>2, <1>4 DEF CourseOK
<1>8. code = "website" /\ (phase = "metadata" \/ owner = Publisher)
  BY <1>5, <1>6 DEF Owned, PhasesOf
<1>7. phase \notin {"init", "upload"} => DOMAIN calls = {1}
  BY <1>6 DEF OpsFit, CalledOps
<1>. QED BY <1>2, <1>4, <1>6, <1>7, <1>8

LEMMA CalledUnderway ==
  ASSUME Base, Undisturbed, NEW i \in DOMAIN calls
  PROVE  pc = "calling" /\ Underway
<1>1. DOMAIN << >> = {}
  OBVIOUS
<1>. QED BY <1>1 DEF Base, CourseOK, Undisturbed

LEMMA NeverRefused ==
  ASSUME Base, Undisturbed, NEW i \in DOMAIN calls, calls[i].chain = "pending"
  PROVE  Refused(calls[i].op) => Overlooked(calls[i].op)
<1>. DEFINE op == calls[i].op
<1>. SUFFICES ASSUME Coming PROVE Refused(op) => Overlooked(op)
  BY CalledUnderway DEF Hopeless, Overlooked, Underway
<1>1. /\ code = "website" /\ (phase = "metadata" \/ owner = Publisher) /\ op \in Todo /\ op \in Ops /\ op.fn = FnOf(phase)
      /\ phase \in PhasesOf(command) /\ phase # "deploy"
  BY CalledIs
<1>2. IInv /\ WebsiteOK /\ DirectoryOK
  BY DirectoryTyped DEF Base
<1>. HIDE DEF op
<1>3. ~OnlyOwner(Publisher) => op.fn = "metadata" /\ owner = Nobody
  <2>1. owner \in {Publisher, Nobody}
    BY <1>1, <1>2 DEF WebsiteOK
  <2>2. owner # Publisher => phase = "metadata" /\ op.fn = "metadata"
    BY <1>1, PhaseTells
  <2>. QED BY <1>1, <2>1, <2>2 DEF OnlyOwner
<1>4. ASSUME op.fn = "uploadFileChunks" PROVE ChunksFit(op.posts)
  <2>1. phase = "upload" /\ command \in {"upload", "edit"}
    BY <1>1, <1>4, PhaseTells
  <2>2. Uploading(command, directory, files, globalMeta, Todo)
    BY <1>1, <2>1 DEF Coming
  <2>3. PostFits(directory, op, files, Todo)
    BY <1>1, <1>4, <2>2 DEF Uploading
  <2>4. \A q \in Todo : q.fn # "filesInit"
    <3>1. \A q \in Todo : q.fn = FnOf(phase)
      BY <2>1, TodoIs, PhaseTells, <1>1 DEF Base, Todo
    <3>. QED BY <1>4, <1>1, <3>1
  <2>5. ASSUME NEW p \in DOMAIN op.posts PROVE p[2] < TotalChunk(files[p[1]])
    <3>. DEFINE len == Len(directory[p[1]])
    <3>1. p[1] \in DOMAIN directory /\ p[2] \in 0 .. len - 1 /\ files[p[1]].count = len
      BY <2>3, <2>4 DEF PostFits, Declares
    <3>2. len \in Nat
      <4>1. directory[p[1]] \in Seq(Data)
        BY <1>2, <3>1 DEF DirectoryOK
      <4>. QED BY <4>1
    <3>. HIDE DEF len
    <3>3. TotalChunk(files[p[1]]) = len
      BY <3>1, <3>2, SiteAssumption DEF TotalChunk
    <3>. QED BY <3>1, <3>2, <3>3
  <2>. QED BY <2>5 DEF ChunksFit
<1>5. ASSUME op.fn = "deleteFiles" PROVE \A f \in op.files : TotalChunk(files[f]) # 0
  <2>1. phase = "delete" /\ command \in {"delete", "purge"}
    BY <1>1, <1>5, PhaseTells
  <2>2. Deleting(files, globalMeta, Todo)
    BY <1>1, <2>1 DEF Coming
  <2>3. op \in DeleteOps
    BY <1>1, <1>5, OpFields
  <2>4. ASSUME NEW f \in op.files PROVE TotalChunk(files[f]) # 0
    <3>1. f \in Files
      BY <2>3 DEF DeleteOps
    <3>2. files[f].location
      BY <1>1, <1>5, <2>2, Zenon DEF Deleting
    <3>3. files[f].count # None /\ files[f].count # 0
      BY <1>2, <3>1, <3>2 DEF IInv, StorageConsistent, WebsiteOK
    <3>. QED BY <3>3 DEF TotalChunk
  <2>. QED BY <2>4, Zenon
<1>6. ASSUME op.fn = "removeMetadataGlobal" PROVE \A m \in op.keys : globalMeta[m] # None
  <2>1. phase = "remove" /\ command \in {"delete", "purge"}
    BY <1>1, <1>6, PhaseTells
  <2>2. Deleting(files, globalMeta, Todo)
    BY <1>1, <2>1 DEF Coming
  <2>. QED BY <1>1, <1>6, <2>2 DEF Deleting
<1>7. ASSUME op.fn = "metadata", op.value = None
      PROVE  \/ (IF op.file = None THEN globalMeta ELSE files[op.file].meta)[op.key] # None
             \/ op.file # None /\ files[op.file].meta = NoMetadata
  <2>1. command = "metadata"
    BY <1>1, <1>7, PhaseTells
  <2>. QED BY <1>1, <1>7, <2>1 DEF Coming
<1>8. Refused(op) => Overlooked(op)
  BY <1>3, <1>4, <1>5, <1>6, <1>7 DEF Refused, Overlooked
<1>. QED BY <1>8 DEF op

\* An operation that is executed leaves the website as far from the end of the
\* run as the operations that are left to do.
LEMMA ExecutesUnderway ==
  ASSUME Base, Undisturbed, NEW i \in DOMAIN calls, calls[i].chain = "pending",
         Effect(calls[i].op), NEW status, Marked(i, status, "ok"),
         UNCHANGED <<command, directory, phase, plan>>
  PROVE  Underway'
<1>. DEFINE op == calls[i].op
<1>0. Coming
  BY EffectNeedsCode, CalledUnderway DEF Hopeless, Underway
<1>. SUFFICES Coming'
  BY DEF Underway
<1>1. /\ Coming /\ code = "website" /\ (phase = "metadata" \/ owner = Publisher)
      /\ op \in Todo /\ op \in Ops /\ op.fn = FnOf(phase)
      /\ phase \in PhasesOf(command) /\ phase # "deploy"
      /\ phase \notin {"init", "upload"} => DOMAIN calls = {1}
  BY <1>0, CalledIs
<1>2. IInv /\ WebsiteOK /\ DirectoryOK /\ IInv'
  <2>1. IInv /\ WebsiteOK /\ DirectoryOK
    BY DirectoryTyped DEF Base
  <2>. QED BY <1>1, <2>1, EffectOK
<1>3. /\ Todo' \subseteq Todo /\ Todo \subseteq Todo' \cup {op}
      /\ DOMAIN calls = {1} => Todo' = OpsOf(plan)
  BY ExecutedTodo
<1>4. /\ \A q \in Open : q.fn = FnOf(phase)
      /\ \A q \in OpsOf(plan) :
           \E name \in PhasesOf(command) \cap Following(phase) : q.fn = FnOf(name)
  BY TodoIs DEF Base
<1>. HIDE DEF op
<1>5. CASE phase = "init"
  <2>1. /\ command \in {"upload", "edit"} /\ op.fn = "filesInit"
        /\ command \notin {"delete", "purge", "immutable", "metadata"}
    BY <1>1, <1>5, PhaseTells
  <2>2. FilesInit(Publisher, {}, op.deletes, op.metas, op.inits)
    BY <2>1, EffectIs DEF op
  <2>3. op \in FilesInitOps /\ DOMAIN directory \subseteq Files
    BY <1>1, <1>2, <2>1, OpFields DEF DirectoryOK
  <2>4. Uploading(command, directory, files, globalMeta, Todo)
    BY <1>1, <2>1 DEF Coming
  <2>5. Uploading(command, directory, files', globalMeta', Todo')
    BY <1>1, <1>2, <1>3, <2>1, <2>2, <2>3, <2>4, InitStep
  <2>6. UNCHANGED <<code, owner>>
    BY <2>2 DEF FilesInit
  <2>. QED BY <1>1, <2>1, <2>5, <2>6 DEF Coming, Owned
<1>6. CASE phase = "upload"
  <2>1. /\ command \in {"upload", "edit"} /\ op.fn = "uploadFileChunks" /\ Following(phase) = {}
        /\ command \notin {"delete", "purge", "immutable", "metadata"}
    BY <1>1, <1>6, PhaseTells
  <2>2. UploadFileChunks(Publisher, op.posts)
    BY <2>1, EffectIs DEF op
  <2>3. /\ DOMAIN directory \subseteq Files
        /\ \A f \in DOMAIN directory : directory[f] \in Seq(Data) /\ Len(directory[f]) <= MaxChunks
    BY <1>2 DEF DirectoryOK
  <2>4. Uploading(command, directory, files, globalMeta, Todo)
    BY <1>1, <2>1 DEF Coming
  <2>5. \A q \in Todo : q.fn # "filesInit"
    BY <1>1, <1>4, <2>1 DEF Todo
  <2>6. Uploading(command, directory, files', globalMeta', Todo')
    BY <1>1, <1>2, <1>3, <2>1, <2>2, <2>3, <2>4, <2>5, UploadStep
  <2>7. UNCHANGED <<code, owner>>
    BY <2>2 DEF UploadFileChunks
  <2>. QED BY <1>1, <2>1, <2>6, <2>7 DEF Coming, Owned
<1>7. CASE phase = "delete"
  <2>1. /\ command \in {"delete", "purge"} /\ op.fn = "deleteFiles"
        /\ command \notin {"upload", "edit", "immutable", "metadata"}
    BY <1>1, <1>7, PhaseTells
  <2>2. DeleteFiles(Publisher, op.files)
    BY <2>1, EffectIs DEF op
  <2>3. Deleting(files, globalMeta, Todo)
    BY <1>1, <2>1 DEF Coming
  <2>4. \A q \in Todo' : q.fn # "deleteFiles"
    <3>1. Following("delete") = {"remove", "purge"}
      BY DEF Following
    <3>2. FnOf("remove") = "removeMetadataGlobal" /\ FnOf("purge") = "purge"
      BY DEF FnOf
    <3>3. Todo' = OpsOf(plan)
      BY <1>1, <1>3, <1>7
    <3>. QED BY <1>4, <1>7, <3>1, <3>2, <3>3
  <2>5. ASSUME NEW f \in Files PROVE ~files'[f].location
    <3>1. files'[f] = IF f \in op.files THEN DeletedFile(files[f]) ELSE files[f]
      BY <2>2 DEF DeleteFiles
    <3>2. ~DeletedFile(files[f]).location
      BY <1>2, DeletedFileOK, FilesAreOK
    <3>3. f \notin op.files => ~files[f].location
      BY <1>3, <2>3, <2>4 DEF Deleting
    <3>. QED BY <3>1, <3>2, <3>3
  <2>6. UNCHANGED <<code, owner, globalMeta>>
    BY <2>2 DEF DeleteFiles
  <2>7. Deleting(files', globalMeta', Todo')
    <3>1. /\ \A m \in MetaKeys :
               globalMeta[m] # None => \E q \in Todo : q.fn = "removeMetadataGlobal" /\ m \in q.keys
          /\ \A q \in Todo : q.fn = "removeMetadataGlobal" => \A m \in q.keys : globalMeta[m] # None
      BY <2>3 DEF Deleting
    <3>. QED BY <1>3, <2>1, <2>4, <2>5, <2>6, <3>1 DEF Deleting
  <2>8. command = "purge" => (\E q \in Todo' : q.fn = "purge") \/ code' = "none"
    BY <1>1, <1>3, <2>1, <2>6 DEF Coming
  <2>. QED BY <1>1, <2>1, <2>6, <2>7, <2>8 DEF Coming, Owned
<1>8. CASE phase = "remove"
  <2>1. /\ command \in {"delete", "purge"} /\ op.fn = "removeMetadataGlobal"
        /\ command \notin {"upload", "edit", "immutable", "metadata"}
    BY <1>1, <1>8, PhaseTells
  <2>2. RemoveMetadataGlobal(Publisher, op.keys)
    BY <2>1, EffectIs DEF op
  <2>3. Deleting(files, globalMeta, Todo)
    BY <1>1, <2>1 DEF Coming
  <2>4. \A q \in Todo' : q.fn # "removeMetadataGlobal" /\ q.fn # "deleteFiles"
    <3>1. Following("remove") = {"purge"}
      BY DEF Following
    <3>2. FnOf("purge") = "purge"
      BY DEF FnOf
    <3>3. Todo' = OpsOf(plan)
      BY <1>1, <1>3, <1>8
    <3>. QED BY <1>4, <1>8, <3>1, <3>2, <3>3
  <2>5. ASSUME NEW m \in MetaKeys PROVE globalMeta'[m] = None
    <3>1. globalMeta \in [MetaKeys -> MetaValues \cup {None}]
      BY <1>2 DEF IInv, TypeOK, Metadata
    <3>2. globalMeta'[m] = IF m \in op.keys THEN None ELSE globalMeta[m]
      BY <2>2, <3>1 DEF RemoveMetadataGlobal, Without
    <3>3. m \notin op.keys => globalMeta[m] = None
      BY <1>3, <2>3, <2>4 DEF Deleting
    <3>. QED BY <3>2, <3>3
  <2>6. UNCHANGED <<code, owner, files>>
    BY <2>2 DEF RemoveMetadataGlobal
  <2>7. Deleting(files', globalMeta', Todo')
    <3>1. \A f \in Files : ~files[f].location
      BY <1>3, <2>1, <2>3, <2>4 DEF Deleting
    <3>. QED BY <2>4, <2>5, <2>6, <3>1 DEF Deleting
  <2>8. command = "purge" => (\E q \in Todo' : q.fn = "purge") \/ code' = "none"
    BY <1>1, <1>3, <2>1, <2>6 DEF Coming
  <2>. QED BY <1>1, <2>1, <2>6, <2>7, <2>8 DEF Coming, Owned
<1>9. CASE phase \in {"purge", "setOwner", "metadata"}
  <2>1. Todo' = {}
    <3>1. Following(phase) = {} /\ DOMAIN calls = {1}
      BY <1>1, <1>9, PhaseTells
    <3>. QED BY <1>3, <1>4, <3>1
  <2>2. /\ phase = "purge" => command = "purge" /\ op.fn = "purge"
        /\ phase = "setOwner" => command = "immutable" /\ op.fn = "setOwner"
        /\ phase = "metadata" => command = "metadata"
    BY <1>1, <1>9, PhaseTells
  <2>3. CASE phase = "purge"
    <3>1. Purge(Publisher) /\ command = "purge"
      BY <2>2, <2>3, EffectIs DEF op
    <3>2. /\ code' = "none" /\ \A f \in Files : ~files'[f].location
          /\ \A m \in MetaKeys : globalMeta'[m] = None
      BY <3>1 DEF Purge, NoFile, NoMetadata
    <3>3. Deleting(files', globalMeta', {})
      BY <3>2 DEF Deleting
    <3>. QED BY <2>1, <3>1, <3>2, <3>3 DEF Coming
  <2>4. CASE phase = "setOwner"
    <3>1. SetOwner(Publisher, Nobody) /\ command = "immutable"
      BY <2>2, <2>4, EffectIs DEF op
    <3>. QED BY <2>1, <3>1 DEF Coming, SetOwner
  <2>5. CASE phase = "metadata"
    BY <2>1, <2>2, <2>5 DEF Coming
  <2>. QED BY <1>9, <2>3, <2>4, <2>5
<1>. QED BY <1>1, <1>5, <1>6, <1>7, <1>8, <1>9, PhaseTells

\* What the steps of the interface leave as it is.
LEMMA SameUnderway ==
  ASSUME Underway, Todo' = Todo, UNCHANGED <<vars, command, directory, phase>>,
         (\A i \in DOMAIN calls : calls[i].chain # "ok") =>
           \A i \in DOMAIN calls' : calls'[i].chain # "ok"
  PROVE  Underway'
<1>1. UNCHANGED <<code, owner, files, globalMeta>>
  BY DEF vars
<1>2. Coming => Coming'
  BY <1>1 DEF Coming, Owned
<1>3. Hopeless => Hopeless'
  BY <1>1 DEF Hopeless
<1>. QED BY <1>2, <1>3 DEF Underway

\* A refused call to a website that is there is one that the metadata command should
\* not have made, and its only one.
LEMMA OverlookedAlone ==
  ASSUME Base, Coming, NEW i \in DOMAIN calls, CallOverlooked(calls[i])
  PROVE  command = "metadata" /\ phase = "metadata" /\ plan = << >> /\ DOMAIN calls = {1}
<1>1. TypesOK /\ CourseOK
  BY DEF Base
<1>2. calls[i].op \in Open
  BY OpenIs DEF CallOverlooked
<1>0. phase # "deploy" /\ calls[i].op.fn = FnOf(phase) /\ pc = "calling" /\ calls[i].op \in Todo
  BY <1>1, <1>2, TodoIs DEF Todo
<1>8. code = "website"
  BY <1>0 DEF Coming, Owned
<1>3. phase # "deploy" /\ "metadata" = FnOf(phase) /\ pc = "calling"
  BY <1>0, <1>8 DEF CallOverlooked, Overlooked
<1>4. phase \in PhasesOf(command) /\ OpsFit(phase, CalledOps)
  BY <1>1, <1>3 DEF CourseOK
<1>5. phase = "metadata" /\ command = "metadata" /\ Following(phase) = {}
  BY <1>3, <1>4, PhaseTells
<1>6. DOMAIN calls = {1}
  BY <1>4, <1>5 DEF OpsFit, CalledOps
<1>7. plan = << >>
  <2>1. DOMAIN plan = {}
    BY <1>1, <1>5 DEF CourseOK
  <2>2. plan \in Seq(Plans)
    BY <1>1 DEF TypesOK
  <2>. QED BY <2>1, <2>2
<1>. QED BY <1>5, <1>6, <1>7

LEMMA FineMarked ==
  ASSUME Base, Undisturbed, NEW i \in DOMAIN calls, NEW status, NEW chain,
         Marked(i, status, chain), code # "none" \/ code' = "none",
         \/ status = "waiting" /\ chain = "none"
         \/ status = "sent" /\ chain \in {"pending", "ok"}
         \/ status = "success" /\ chain = "ok"
         \/ status \in {"sent", "error"} /\ chain = "refused" /\ Overlooked(calls[i].op)'
  PROVE  \A j \in DOMAIN calls' : CallFine(calls'[j]) \/ CallOverlooked(calls[j])'
<1>1. \A j \in DOMAIN calls : CallFine(calls[j]) \/ CallOverlooked(calls[j])
  BY DEF Undisturbed
<1>2. /\ DOMAIN calls' = DOMAIN calls /\ calls'[i].op = calls[i].op
      /\ calls'[i].status = status /\ calls'[i].chain = chain
      /\ \A j \in DOMAIN calls \ {i} : calls'[j] = calls[j]
  BY DEF Marked
<1>3. CallFine(calls'[i]) \/ CallOverlooked(calls[i])'
  BY <1>2 DEF CallFine, CallOverlooked
<1>4. ASSUME NEW j \in DOMAIN calls, j # i PROVE CallFine(calls'[j]) \/ CallOverlooked(calls[j])'
  <2>1. Underway
    BY CalledUnderway
  <2>2. CASE Coming
    <3>1. ~CallOverlooked(calls[j])
      BY <1>4, <2>2, OverlookedAlone
    <3>. QED BY <1>1, <1>2, <1>4, <3>1
  <2>3. CASE Hopeless
    <3>1. code' = "none"
      BY <2>3 DEF Hopeless
    <3>. QED BY <1>1, <1>2, <1>4, <3>1 DEF CallOverlooked, Overlooked
  <2>. QED BY <2>1, <2>2, <2>3 DEF Underway
<1>. QED BY <1>2, <1>3, <1>4

LEMMA WordSame ==
  ASSUME WordKept, UNCHANGED <<command, directory>>, UNCHANGED <<code, owner, files, globalMeta>>
  PROVE  WordKept'
BY DEF WordKept, Published, Unpublished, OthersPublished, Mistakable

LEMMA QuitUndisturbed ==
  ASSUME NEW how \in {"done", "aborted"}, Quits(how), how = "done" => WordKept'
  PROVE  Undisturbed'
<1>1. DOMAIN << >> = {}
  OBVIOUS
<1>. QED BY <1>1 DEF Quits, Undisturbed

\* A run that reads a website that is not immutable may change it, or it is gone.
LEMMA ReadsOwned ==
  ASSUME Base, command # "upload", ~Immutable
  PROVE  Owned \/ code = "none"
BY DEF Base, WebsiteOK, Immutable, Owned

\* All the phases of a run are left, to a website that is gone.
LEMMA HopelessStarts ==
  ASSUME code' = "none", command' \notin {"upload", "delete"},
         \A i \in DOMAIN calls' : CallFine(calls'[i]) /\ calls'[i].chain = "none",
         command' = "edit" =>
           \A f \in DOMAIN directory' :
             directory'[f] # << >> => \E op \in Todo' : op.fn = "uploadFileChunks"
  PROVE  Underway'
BY DEF Underway, Hopeless

\* Of a website that is gone nothing is listed, and each chunk is to be sent.
LEMMA NothingLeft ==
  ASSUME Base, code = "none"
  PROVE  /\ Listed = {} /\ Present = {} /\ globalMeta = NoMetadata
         /\ \A f \in Files : ~files[f].location
<1>1. globalMeta = NoMetadata /\ \A f \in Files : files[f] = NoFile
  BY DEF Base, IInv, PurgedIsEmpty
<1>. QED BY <1>1 DEF Listed, Present, NoFile, NoMetadata

LEMMA ChunksAreSent ==
  ASSUME Base, code = "none", NEW T, Uploading("edit", directory, files, globalMeta, T),
         NEW f \in DOMAIN directory, directory[f] # << >>
  PROVE  \E op \in T : op.fn = "uploadFileChunks"
<1>1. DirectoryOK
  BY DirectoryTyped DEF Base
<1>2. ~files[f].location
  BY <1>1, NothingLeft DEF DirectoryOK
<1>3. FileComes("edit", directory, files[f], f, T)
  BY DEF Uploading
<1>4. \A i \in DOMAIN directory[f] : PostsChunk(T, <<f, i - 1>>)
  BY <1>2, <1>3 DEF FileComes
<1>5. 1 \in DOMAIN directory[f]
  <2>1. directory[f] \in Seq(Data)
    BY <1>1 DEF DirectoryOK
  <2>. QED BY <2>1
<1>. QED BY <1>4, <1>5 DEF PostsChunk

LEMMA ReadsUndisturbed ==
  ASSUME Base, UndisturbedInv,
         \/ ReadStops \/ UploadReads \/ ImmutableReads \/ MetadataReads
         \/ \E purge \in BOOLEAN : DeleteReads(purge)
  PROVE  UndisturbedInv'
<1>. SUFFICES ASSUME ~disturbed' PROVE Undisturbed'
  BY DEF UndisturbedInv
<1>0. /\ Undisturbed /\ pc = "reading" /\ UNCHANGED <<command, directory, run>>
      /\ UNCHANGED <<code, owner, files, globalMeta>>
      /\ TypesOK /\ run # 0 /\ run \in 1 .. MaxRuns
  <2>1. /\ UNCHANGED <<vars, run, command, directory, disturbed>> /\ pc = "reading"
    BY DEF ReadStops, UploadReads, ImmutableReads, MetadataReads, DeleteReads
  <2>2. Undisturbed
    BY <2>1 DEF UndisturbedInv
  <2>3. TypesOK /\ run # 0 /\ run \in 1 .. MaxRuns
    BY <2>1 DEF Base, TypesOK
  <2>. QED BY <2>1, <2>2, <2>3 DEF vars
<1>1. ASSUME NEW phases \in Seq(Plans), phases # << >>, Enter(phases), Underway' PROVE Undisturbed'
  BY <1>1, EnteredTodo DEF Undisturbed
<1>2. CASE ReadStops
  BY <1>2, QuitUndisturbed DEF ReadStops, Ends
<1>3. CASE UploadReads
  <2>1. command \in {"upload", "edit"} /\ ~Immutable /\ Enter(UploadPhases)
    BY <1>3 DEF UploadReads
  <2>2. /\ UploadPhases \in Seq(Plans) /\ UploadPhases # << >>
        /\ Editing => UploadPhases[1].name # "deploy"
        /\ ~Editing => UploadPhases[1].name = "deploy"
    BY <1>0, <2>1, UploadPlansAre DEF PhasesOK
  <2>3. phase' = UploadPhases[1].name /\ Todo' = OpsOf(UploadPhases)
    BY <2>1, <2>2, EnteredTodo
  <2>4. CASE Editing
    <3>1. command = "edit" /\ (Owned \/ code = "none")
      BY <1>0, <2>1, <2>4, ReadsOwned DEF Editing
    <3>2. Uploading(command, directory, files, globalMeta, OpsOf(UploadPhases))
      BY <1>0, <2>1, <2>4, UploadingStarts
    <3>4. ASSUME Owned PROVE Underway'
      <4>1. Coming'
        BY <1>0, <2>1, <2>2, <2>3, <2>4, <3>1, <3>2, <3>4 DEF Coming, Owned
      <4>. QED BY <4>1 DEF Underway
    <3>5. ASSUME code = "none" PROVE Underway'
      <4>1. \A f \in DOMAIN directory :
              directory[f] # << >> => \E op \in Todo' : op.fn = "uploadFileChunks"
        BY <2>3, <3>1, <3>2, <3>5, ChunksAreSent
      <4>. QED BY <1>0, <2>1, <2>2, <3>1, <3>5, <4>1, EnteredTodo, HopelessStarts
    <3>3. Underway'
      BY <3>1, <3>4, <3>5
    <3>. QED BY <1>1, <2>1, <2>2, <3>3
  <2>5. CASE ~Editing
    <3>1. Uploading(command, directory, NoFiles, NoMetadata, OpsOf(UploadPhases))
      BY <1>0, <2>1, <2>5, UploadingStarts
    <3>3. Coming'
      BY <1>0, <2>1, <2>2, <2>3, <2>5, <3>1 DEF Coming, Editing
    <3>2. Underway'
      BY <3>3 DEF Underway
    <3>. QED BY <1>1, <2>1, <2>2, <3>2
  <2>. QED BY <2>4, <2>5
<1>4. ASSUME NEW name \in {"setOwner", "metadata"}, NEW op \in Ops, op.fn = name, op.run = run,
             name \in PhasesOf(command), Enter(<<Phase(name, <<op>>)>>)
      PROVE  /\ Todo' = {op} /\ phase' = name /\ (Underway' => Undisturbed')
             /\ code = "none" => Underway'
  <2>. DEFINE phases == <<Phase(name, <<op>>)>>
  <2>1. /\ phases \in Seq(Plans) /\ DOMAIN phases = {1}
        /\ phases[1].name = name /\ phases[1].ops = <<op>>
    BY <1>0, <1>4, OnePhase
  <2>. HIDE DEF phases
  <2>2. phases # << >> /\ DOMAIN <<op>> = {1} /\ <<op>>[1] = op
    <3>1. DOMAIN << >> = {} /\ DOMAIN <<op>> = {1} /\ <<op>>[1] = op
      OBVIOUS
    <3>. QED BY <2>1, <3>1
  <2>3. OpsOf(phases) = {op}
    BY <2>1, <2>2 DEF OpsOf
  <2>4. Enter(phases)
    BY <1>4 DEF phases
  <2>5. /\ phase' = name /\ Todo' = {op}
        /\ \A i \in DOMAIN calls' : CallFine(calls'[i]) /\ calls'[i].chain = "none"
    BY <2>1, <2>2, <2>3, <2>4, EnteredTodo
  <2>6. command \notin {"upload", "delete", "edit"}
    BY <1>4 DEF PhasesOf
  <2>7. code = "none" => Underway'
    BY <1>0, <2>5, <2>6, HopelessStarts
  <2>. QED BY <1>1, <2>1, <2>2, <2>4, <2>5, <2>7
<1>5. CASE ImmutableReads
  <2>. DEFINE op == [fn |-> "setOwner", run |-> run]
  <2>1. op \in Ops /\ op.fn = "setOwner" /\ op.run = run
    <3>1. op \in PlainOps /\ op.fn = "setOwner" /\ op.run = run
      BY <1>0 DEF PlainOps
    <3>. QED BY <3>1 DEF Ops
  <2>2. /\ "setOwner" \in PhasesOf(command) /\ command = "immutable" /\ ~Immutable
        /\ Enter(<<Phase("setOwner", <<op>>)>>)
    BY <1>5 DEF PhasesOf, ImmutableReads
  <2>3. Owned \/ code = "none"
    BY <2>2, ReadsOwned
  <2>. HIDE DEF op
  <2>4. /\ Todo' = {op} /\ phase' = "setOwner" /\ (Underway' => Undisturbed')
        /\ code = "none" => Underway'
    BY <1>4, <2>1, <2>2
  <2>5. Owned => Coming'
    BY <1>0, <2>2, <2>4 DEF Coming, Owned
  <2>. QED BY <2>3, <2>4, <2>5 DEF Underway
<1>6. CASE MetadataReads
  <2>1. PICK key \in MetaKeys, value \in {run, None}, f \in Files \cup {None} :
          /\ \/ value # (IF f = None THEN globalMeta[key] ELSE files[f].meta[key])
             \/ f # None /\ files[f].meta = NoMetadata
          /\ Enter(<<Phase("metadata", <<[fn |-> "metadata", run |-> run, file |-> f, key |-> key,
                                         value |-> value]>>)>>)
    BY <1>6 DEF MetadataReads
  <2>. DEFINE op == [fn |-> "metadata", run |-> run, file |-> f, key |-> key, value |-> value]
  <2>2. /\ op \in Ops /\ op.fn = "metadata" /\ op.run = run
        /\ op.file = f /\ op.key = key /\ op.value = value
    <3>1. run \in MetaValues
      BY <1>0, CliAssumption
    <3>2. op \in MetadataOps
      BY <1>0, <3>1 DEF MetadataOps
    <3>. QED BY <3>2 DEF Ops
  <2>3. Enter(<<Phase("metadata", <<op>>)>>)
    BY <2>1
  <2>4. "metadata" \in PhasesOf(command) /\ command = "metadata"
    BY <1>6 DEF MetadataReads, PhasesOf
  <2>5. code \in {"website", "none"}
    BY DEF Base, WebsiteOK
  <2>. HIDE DEF op
  <2>6. /\ Todo' = {op} /\ phase' = "metadata" /\ (Underway' => Undisturbed')
        /\ code = "none" => Underway'
    BY <1>4, <2>2, <2>3, <2>4
  <2>7. \/ op.value # None
        \/ (IF op.file = None THEN globalMeta ELSE files[op.file].meta)[op.key] # None
        \/ op.file # None /\ files[op.file].meta = NoMetadata
    BY <2>1, <2>2
  <2>8. code = "website" => Coming'
    BY <1>0, <2>4, <2>6, <2>7 DEF Coming
  <2>. QED BY <2>5, <2>6, <2>8 DEF Underway
<1>7. CASE \E purge \in BOOLEAN : DeleteReads(purge)
  <2>1. PICK purge \in BOOLEAN : DeleteReads(purge)
    BY <1>7
  <2>. DEFINE phases == DeletePhases(purge)
  <2>2. /\ command = IF purge THEN "purge" ELSE "delete"
        /\ ~Immutable
        /\ \/ phases # << >> /\ Enter(phases)
           \/ phases = << >> /\ Ends("done", calls)
    BY <2>1 DEF DeleteReads
  <2>3. /\ phases # << >> => PhasesOK(phases)
        /\ Deleting(files, globalMeta, OpsOf(phases))
        /\ purge => \E op \in OpsOf(phases) : op.fn = "purge"
    BY <1>0, <2>2, DeletingStarts
  <2>4. command \in {"delete", "purge"} /\ (command = "purge" => purge)
    BY <2>2
  <2>. HIDE DEF phases
  <2>5. CASE phases # << >> /\ Enter(phases)
    <3>1. phases \in Seq(Plans)
      BY <2>3, <2>5 DEF PhasesOK
    <3>2. /\ Todo' = OpsOf(phases)
          /\ \A i \in DOMAIN calls' : CallFine(calls'[i]) /\ calls'[i].chain = "none"
      BY <2>5, <3>1, EnteredTodo
    <3>3. Owned \/ code = "none"
      BY <2>2, <2>4, ReadsOwned
    <3>5. ASSUME Owned PROVE Underway'
      <4>1. Coming'
        BY <1>0, <2>3, <2>4, <3>2, <3>5 DEF Coming, Owned
      <4>. QED BY <4>1 DEF Underway
    <3>6. ASSUME code = "none" PROVE Underway'
      <4>1. command = "purge"
        <5>1. Listed = {} /\ Present = {}
          BY <3>6, NothingLeft
        <5>2. ~purge => phases = << >>
          BY <5>1 DEF phases, DeletePhases
        <5>. QED BY <2>2, <2>5, <5>2
      <4>. QED BY <1>0, <3>2, <3>6, <4>1, HopelessStarts
    <3>4. Underway'
      BY <3>3, <3>5, <3>6
    <3>. QED BY <1>1, <2>5, <3>1, <3>4
  <2>6. CASE phases = << >> /\ Ends("done", calls)
    <3>1. OpsOf(phases) = {}
      BY <2>6 DEF OpsOf
    <3>2. command = "delete" /\ globalMeta = NoMetadata /\ \A f \in Files : ~files[f].location
      BY <2>3, <2>4, <3>1, DeletingEnds DEF Base
    <3>3. WordKept'
      BY <1>0, <3>2 DEF WordKept
    <3>. QED BY <2>6, <3>3, QuitUndisturbed DEF Ends
  <2>. QED BY <2>2, <2>5, <2>6
<1>. QED BY <1>2, <1>3, <1>5, <1>6, <1>7

\* The end of a phase of a run that may change the website.
LEMMA PhaseComing ==
  ASSUME Base, Undisturbed, Coming, PhaseEnds
  PROVE  Undisturbed'
<1>0. /\ pc = "calling" /\ phase # "deploy"
      /\ \A i \in DOMAIN calls : CallFine(calls[i]) \/ CallOverlooked(calls[i])
      /\ \A i \in DOMAIN calls : calls[i].status \notin {"waiting", "sent"}
      /\ UNCHANGED <<command, directory>> /\ UNCHANGED <<code, owner, files, globalMeta>>
      /\ TypesOK /\ CourseOK /\ DirectoryOK /\ IInv
  BY DirectoryTyped DEF Base, Undisturbed, PhaseEnds, Settled, vars
<1>1. CASE \E i \in DOMAIN calls : CallOverlooked(calls[i])
  <2>1. /\ command = "metadata" /\ phase = "metadata" /\ plan = << >>
    BY <1>1, OverlookedAlone
  <2>2. \A i \in DOMAIN calls : calls[i].status # "thrown"
    BY <1>0 DEF CallFine, CallOverlooked
  <2>3. PhaseOK
    BY <2>1, <2>2 DEF PhaseOK
  <2>4. WordKept'
    BY <1>0, <2>1 DEF WordKept
  <2>5. Ends("done", calls)
    BY <2>1, <2>3 DEF PhaseEnds
  <2>. QED BY <2>4, <2>5, QuitUndisturbed DEF Ends
<1>. SUFFICES ASSUME \A i \in DOMAIN calls : ~CallOverlooked(calls[i]) PROVE Undisturbed'
  BY <1>1
<1>6. \A i \in DOMAIN calls : calls[i].status = "success" /\ calls[i].chain = "ok"
  BY <1>0 DEF CallFine
<1>2. PhaseOK
  BY <1>6 DEF PhaseOK
<1>3. Todo = OpsOf(plan)
  BY <1>6 DEF Todo, Open
<1>4. CASE plan # << >> /\ Enter(plan)
  <2>1. plan \in Seq(Plans)
    BY <1>0 DEF TypesOK
  <2>2. /\ pc' = "calling" /\ phase' = plan[1].name /\ Todo' = Todo
        /\ \A i \in DOMAIN calls' : CallFine(calls'[i])
    BY <1>3, <1>4, <2>1, EnteredTodo
  <2>3. phase' # "deploy"
    <3>1. 1 \in DOMAIN plan
      BY <1>4, <2>1
    <3>2. plan[1].name \in Following(phase)
      BY <1>0, <3>1 DEF CourseOK
    <3>. QED BY <2>2, <3>2, DeployIsFirst
  <2>4. Coming'
    BY <1>0, <2>2, <2>3 DEF Coming, Owned
  <2>. QED BY <2>2, <2>4 DEF Undisturbed, Underway
<1>5. CASE plan = << >> /\ Ends("done", calls)
  <2>1. Todo = {}
    BY <1>3, <1>5 DEF OpsOf
  <2>2. command \in {"upload", "edit"} =>
          OthersPublished /\ \A f \in Unpublished : command = "edit" /\ Mistakable(f)
    BY <1>0, <2>1, UploadEnds DEF Coming
  <2>3. command \in {"delete", "purge"} =>
          globalMeta = NoMetadata /\ \A f \in Files : ~files[f].location
    BY <1>0, <2>1, DeletingEnds DEF Coming
  <2>4. /\ command = "purge" => code = "none"
        /\ command = "immutable" => owner = Nobody
    BY <1>0, <2>1 DEF Coming
  <2>7. command = "upload" => Published
    BY <2>2 DEF Published
  <2>8. command = "edit" /\ code = "none" => \A f \in DOMAIN directory : directory[f] = << >>
    <3>. SUFFICES ASSUME command = "edit", code = "none", NEW f \in DOMAIN directory,
                         directory[f] # << >>
                  PROVE  FALSE
      OBVIOUS
    <3>1. Uploading("edit", directory, files, globalMeta, {})
      BY <1>0, <2>1 DEF Coming
    <3>. QED BY <3>1, ChunksAreSent
  <2>5. WordKept
    BY <2>2, <2>3, <2>4, <2>7, <2>8 DEF WordKept
  <2>6. WordKept'
    BY <1>0, <2>5, WordSame
  <2>. QED BY <1>5, <2>6, QuitUndisturbed DEF Ends
<1>. QED BY <1>2, <1>4, <1>5 DEF PhaseEnds

\* The end of a phase, all of whose calls the chain refused.
LEMMA PhaseHopeless ==
  ASSUME Base, Undisturbed, Hopeless, PhaseEnds
  PROVE  Undisturbed'
<1>0. /\ pc = "calling" /\ phase # "deploy" /\ phase \in PhasesOf(command)
      /\ code = "none" /\ command \notin {"upload", "delete"}
      /\ UNCHANGED <<command, directory>> /\ UNCHANGED <<code, owner, files, globalMeta>>
      /\ TypesOK /\ CourseOK /\ OpsFit(phase, CalledOps)
  BY DEF Base, PhaseEnds, Hopeless, CourseOK, vars
<1>1. \A i \in DOMAIN calls : calls[i].status = "error"
  BY DEF Undisturbed, PhaseEnds, Settled, Hopeless, CallFine, CallOverlooked
<1>2. CASE ~PhaseOK /\ Ends("failed", calls)
  <2>1. phase # "metadata"
    BY <1>1, <1>2 DEF PhaseOK
  <2>2. command \in {"edit", "purge", "immutable"}
    BY <1>0, <2>1 DEF PhasesOf
  <2>3. DOMAIN << >> = {}
    OBVIOUS
  <2>. QED BY <1>0, <1>2, <2>2, <2>3 DEF Ends, Quits, Undisturbed
<1>3. CASE plan # << >> /\ Enter(plan)
  <2>1. plan \in Seq(Plans)
    BY <1>0 DEF TypesOK
  <2>2. /\ pc' = "calling" /\ phase' = plan[1].name /\ Todo' = OpsOf(plan)
        /\ \A i \in DOMAIN calls' : CallFine(calls'[i]) /\ calls'[i].chain = "none"
    BY <1>3, <2>1, EnteredTodo
  <2>3. ASSUME command = "edit", NEW op \in Todo, op.fn = "uploadFileChunks"
        PROVE  op \in OpsOf(plan)
    <3>1. 1 \in DOMAIN plan
      BY <1>3, <2>1
    <3>2. phase # "upload"
      BY <1>0, <3>1, PhaseTells DEF CourseOK
    <3>3. phase = "init"
      BY <1>0, <2>3, <3>2 DEF PhasesOf
    <3>4. op \notin Open
      BY <1>0, <2>3, <3>3, TodoIs, PhaseTells
    <3>. QED BY <3>4 DEF Todo
  <2>4. command = "edit" => \A f \in DOMAIN directory :
          directory[f] # << >> => \E op \in Todo' : op.fn = "uploadFileChunks"
    BY <2>2, <2>3 DEF Hopeless
  <2>5. Underway'
    BY <1>0, <2>2, <2>4, HopelessStarts
  <2>. QED BY <2>2, <2>5 DEF Undisturbed
<1>4. CASE PhaseOK /\ plan = << >> /\ Ends("done", calls)
  <2>1. DOMAIN calls # {} => phase \in {"init", "metadata"}
    BY <1>0, <1>1, <1>4 DEF PhaseOK
  <2>2. command # "immutable"
    <3>. SUFFICES ASSUME command = "immutable" PROVE FALSE
      OBVIOUS
    <3>1. phase = "setOwner"
      BY <1>0 DEF PhasesOf
    <3>2. DOMAIN calls = {1}
      BY <1>0, <3>1 DEF OpsFit, CalledOps
    <3>. QED BY <2>1, <3>1, <3>2
  <2>3. ASSUME command = "edit", NEW f \in DOMAIN directory PROVE directory[f] = << >>
    <3>. SUFFICES ASSUME directory[f] # << >> PROVE FALSE
      OBVIOUS
    <3>1. PICK op \in Todo : op.fn = "uploadFileChunks"
      BY <2>3 DEF Hopeless
    <3>2. op \in Open
      BY <1>4, <3>1 DEF Todo, OpsOf
    <3>3. DOMAIN calls # {} /\ FnOf(phase) = "uploadFileChunks"
      BY <1>0, <3>1, <3>2, OpenIs, TodoIs
    <3>. QED BY <1>0, <2>1, <3>3, PhaseTells
  <2>4. globalMeta = NoMetadata /\ \A f \in Files : ~files[f].location
    BY <1>0, NothingLeft
  <2>5. WordKept
    BY <1>0, <2>2, <2>3, <2>4 DEF WordKept
  <2>6. WordKept'
    BY <1>0, <2>5, WordSame
  <2>. QED BY <1>4, <2>6, QuitUndisturbed DEF Ends
<1>. QED BY <1>2, <1>3, <1>4 DEF PhaseEnds

LEMMA PhaseUndisturbed ==
  ASSUME Base, Undisturbed, PhaseEnds
  PROVE  Undisturbed'
<1>1. Underway
  BY DEF Undisturbed, PhaseEnds
<1>. QED BY <1>1, PhaseComing, PhaseHopeless DEF Underway

LEMMA DeployUndisturbed ==
  ASSUME Base, Undisturbed, Deploys, Enter(plan)
  PROVE  Undisturbed'
<1>0. /\ pc = "calling" /\ phase = "deploy" /\ Underway /\ TypesOK /\ CourseOK
      /\ UNCHANGED <<command, directory>>
      /\ code' = "website" /\ owner' = Publisher /\ files' = NoFiles /\ globalMeta' = NoMetadata
  BY DEF Base, Undisturbed, Deploys, NoFiles
<1>1. calls = << >> /\ plan # << >> /\ plan \in Seq(Plans) /\ command = "upload"
  BY <1>0, PhaseTells DEF CourseOK, TypesOK
<1>2. Todo = OpsOf(plan)
  <2>1. DOMAIN << >> = {}
    OBVIOUS
  <2>. QED BY <1>1, <2>1 DEF Todo, Open
<1>3. /\ pc' = "calling" /\ phase' = plan[1].name /\ Todo' = Todo
      /\ \A i \in DOMAIN calls' : CallFine(calls'[i])
  BY <1>1, <1>2, EnteredTodo
<1>4. phase' # "deploy"
  <2>1. 1 \in DOMAIN plan
    BY <1>1
  <2>2. plan[1].name \in Following(phase)
    BY <1>0, <2>1 DEF CourseOK
  <2>. QED BY <1>3, <2>2, DeployIsFirst
<1>5. Uploading(command, directory, NoFiles, NoMetadata, Todo)
  BY <1>0, <1>1 DEF Coming, Hopeless, Underway
<1>6. Coming'
  BY <1>0, <1>1, <1>3, <1>4, <1>5 DEF Coming, Owned
<1>. QED BY <1>3, <1>6 DEF Undisturbed, Underway

LEMMA CallsUndisturbed ==
  ASSUME Base, Undisturbed, NEW i \in DOMAIN calls, Send(i) \/ Answered(i) \/ Executes(i)
  PROVE  Undisturbed'
<1>0. /\ pc = "calling" /\ Underway /\ TypesOK
      /\ CallFine(calls[i]) \/ CallOverlooked(calls[i])
      /\ calls[i].status \in Statuses
  <2>1. DOMAIN << >> = {}
    OBVIOUS
  <2>2. pc = "calling" /\ TypesOK
    BY <2>1 DEF Base, CourseOK
  <2>. QED BY <2>2, CallsMarked DEF Undisturbed
<1>1. ASSUME NEW status, NEW chain, Marked(i, status, chain),
             \/ status = "waiting" /\ chain = "none"
             \/ status = "sent" /\ chain \in {"pending", "ok"}
             \/ status = "success" /\ chain = "ok"
             \/ status \in {"sent", "error"} /\ chain = "refused" /\ Overlooked(calls[i].op)',
             pc' = pc, Underway', code # "none" \/ code' = "none"
      PROVE  Undisturbed'
  <2>1. \A j \in DOMAIN calls' : CallFine(calls'[j]) \/ CallOverlooked(calls[j])'
    BY <1>1, FineMarked
  <2>. QED BY <1>0, <1>1, <2>1 DEF Undisturbed
<1>2. ASSUME NEW status, NEW chain, Marked(i, status, chain),
             chain = "ok" <=> calls[i].chain = "ok",
             UNCHANGED <<vars, command, directory, phase, plan>>
      PROVE  Underway'
  <2>1. /\ Todo' = Todo
        /\ (\A j \in DOMAIN calls : calls[j].chain # "ok") =>
             \A j \in DOMAIN calls' : calls'[j].chain # "ok"
    BY <1>2, MarkedTodo
  <2>. QED BY <1>0, <1>2, <2>1, SameUnderway
<1>3. CASE Send(i)
  <2>1. /\ UNCHANGED <<vars, pc, command, directory, phase, plan>> /\ calls[i].status = "waiting"
        /\ code' = code
    BY <1>3 DEF Send, MaySend, vars
  <2>2. Marked(i, "sent", "pending")
    BY <1>0, <1>3, CallsMarked
  <2>3. calls[i].chain # "ok"
    BY <1>0, <2>1 DEF CallFine, CallOverlooked
  <2>. HIDE <1>3
  <2>4. Underway'
    BY <1>2, <2>1, <2>2, <2>3
  <2>. QED BY <1>1, <2>1, <2>2, <2>4
<1>4. CASE Answered(i)
  <2>1. /\ UNCHANGED <<vars, pc, command, directory, phase, plan>>
        /\ calls[i].status = "sent" /\ calls[i].chain \in {"ok", "refused"} /\ code' = code
    BY <1>4 DEF Answered, vars
  <2>2. \/ calls[i].chain = "ok" /\ Marked(i, "success", "ok")
        \/ calls[i].chain = "refused" /\ Marked(i, "error", "refused")
    BY <1>0, <1>4, <2>1, CallsMarked
  <2>. HIDE <1>4
  <2>3. CASE calls[i].chain = "ok" /\ Marked(i, "success", "ok")
    <3>1. Underway'
      BY <1>2, <2>1, <2>3
    <3>. QED BY <1>1, <2>1, <2>3, <3>1
  <2>4. CASE calls[i].chain = "refused" /\ Marked(i, "error", "refused")
    <3>1. Underway'
      BY <1>2, <2>1, <2>4
    <3>2. Overlooked(calls[i].op)
      BY <1>0, <2>4 DEF CallFine, CallOverlooked
    <3>3. Overlooked(calls[i].op)'
      BY <2>1, <2>4, <3>2 DEF Overlooked, Marked, vars
    <3>. QED BY <1>1, <2>1, <2>4, <3>1, <3>3
  <2>. QED BY <2>2, <2>3, <2>4
<1>5. CASE Executes(i)
  <2>1. /\ UNCHANGED <<pc, command, directory, phase, plan>>
        /\ calls[i].chain = "pending"
    BY <1>5 DEF Executes
  <2>2. calls[i].status = "sent"
    BY <1>0, <2>1 DEF CallFine, CallOverlooked
  <2>3. \/ Effect(calls[i].op) /\ Marked(i, calls[i].status, "ok")
        \/ Refused(calls[i].op) /\ Marked(i, calls[i].status, "refused") /\ UNCHANGED vars
    BY <1>5, ExecutesBase
  <2>. HIDE <1>5
  <2>4. CASE Effect(calls[i].op) /\ Marked(i, calls[i].status, "ok")
    <3>1. Underway'
      BY <2>1, <2>4, ExecutesUnderway
    <3>2. code = "website"
      BY <2>4, EffectNeedsCode
    <3>. QED BY <1>1, <2>1, <2>2, <2>4, <3>1, <3>2
  <2>5. CASE Refused(calls[i].op) /\ Marked(i, calls[i].status, "refused") /\ UNCHANGED vars
    <3>1. Overlooked(calls[i].op)
      BY <2>1, <2>5, NeverRefused
    <3>2. Overlooked(calls[i].op)'
      BY <2>5, <3>1 DEF Overlooked, Marked, vars
    <3>3. Underway'
      BY <1>2, <2>1, <2>5
    <3>4. code' = code
      BY <2>5 DEF vars
    <3>. QED BY <1>1, <2>1, <2>2, <2>5, <3>2, <3>3, <3>4
  <2>. QED BY <2>3, <2>4, <2>5
<1>. QED BY <1>3, <1>4, <1>5

LEMMA UndisturbedStep ==
  ASSUME Base, UndisturbedInv, [CliNext]_allVars
  PROVE  UndisturbedInv'
<1>. SUFFICES ASSUME ~disturbed' PROVE UndisturbedInv'
  BY DEF UndisturbedInv
<1>1. CASE UNCHANGED allVars
  <2>1. UNCHANGED <<code, owner, files, globalMeta>> /\ UNCHANGED <<pc, command, directory, phase>>
        /\ UNCHANGED <<calls, plan, disturbed>>
    BY <1>1 DEF allVars
  <2>2. UNCHANGED vars /\ Todo' = Todo
    BY <2>1 DEF vars, Todo, Open
  <2>3. Undisturbed
    BY <2>1 DEF UndisturbedInv
  <2>4. Underway => Underway'
    BY <2>1, <2>2, SameUnderway
  <2>5. WordKept => WordKept'
    BY <2>1, WordSame
  <2>6. \A i \in DOMAIN calls : CallOverlooked(calls[i]) => CallOverlooked(calls[i])'
    BY <2>1 DEF CallOverlooked, Overlooked
  <2>7. \A i \in DOMAIN calls' : CallFine(calls'[i]) \/ CallOverlooked(calls[i])'
    BY <2>1, <2>3, <2>6 DEF Undisturbed
  <2>. QED BY <2>1, <2>3, <2>4, <2>5, <2>7 DEF UndisturbedInv, Undisturbed
<1>2. CASE \E c \in Commands, d \in Directories : Start(c, d)
  <2>1. PICK c \in Commands, d \in Directories : Start(c, d)
    BY <1>2
  <2>2. pc' = "reading" /\ UNCHANGED calls /\ pc # "calling"
    BY <2>1 DEF Start
  <2>3. calls' = << >> /\ DOMAIN << >> = {}
    BY <2>2 DEF Base, CourseOK
  <2>. QED BY <2>2, <2>3 DEF UndisturbedInv, Undisturbed
<1>3. CASE \/ ReadStops \/ UploadReads \/ ImmutableReads \/ MetadataReads
           \/ \E purge \in BOOLEAN : DeleteReads(purge)
  BY <1>3, ReadsUndisturbed
<1>4. CASE Deploys
  <2>1. Enter(plan) /\ disturbed' = disturbed
    BY <1>4 DEF Deploys
  <2>. QED BY <1>4, <2>1, DeployUndisturbed DEF UndisturbedInv
<1>5. CASE DeployFails
  BY <1>5 DEF DeployFails
<1>6. CASE PhaseEnds
  <2>1. disturbed' = disturbed
    BY <1>6 DEF PhaseEnds
  <2>. QED BY <1>6, <2>1, PhaseUndisturbed DEF UndisturbedInv
<1>7. CASE Declined
  BY <1>7, QuitUndisturbed DEF Declined, Ends, UndisturbedInv
<1>8. ASSUME NEW i \in DOMAIN calls, Send(i) \/ Answered(i) \/ Executes(i) PROVE UndisturbedInv'
  <2>1. disturbed' = disturbed
    BY <1>8 DEF Send, Answered, Executes
  <2>2. Undisturbed
    BY <2>1 DEF UndisturbedInv
  <2>3. Undisturbed'
    BY <1>8, <2>2, CallsUndisturbed
  <2>. QED BY <2>3 DEF UndisturbedInv
<1>9. ASSUME NEW i \in DOMAIN calls, SendFails(i) \/ TimesOut(i) \/ AnswerFails(i)
      PROVE  UndisturbedInv'
  <2>1. disturbed' = TRUE
    BY <1>9 DEF SendFails, TimesOut, AnswerFails, Thrown
  <2>. QED BY <2>1
<1>10. CASE \E op \in loose : ExecutesLoose(op)
  <2>1. disturbed' = TRUE
    BY <1>10 DEF ExecutesLoose
  <2>. QED BY <2>1
<1>. QED BY <1>1, <1>2, <1>3, <1>4, <1>5, <1>6, <1>7, <1>8, <1>9, <1>10, Zenon
     DEF CliNext, RunStep

LEMMA UndisturbedHolds == CliSpec => []UndisturbedInv
<1>1. CliInit => UndisturbedInv
  <2>1. DOMAIN << >> = {}
    OBVIOUS
  <2>. QED BY <2>1 DEF CliInit, UndisturbedInv, Undisturbed
<1>2. Base /\ UndisturbedInv /\ [CliNext]_allVars => UndisturbedInv'
  BY UndisturbedStep
<1>. QED BY <1>1, <1>2, BaseHolds, PTL DEF CliSpec

\* However the calls of a phase are ordered, and whatever earlier runs left half
\* done, the chain refuses none of the calls of a run that neither the network
\* nor an operation of an earlier run interferes with, and the run does not fail;
\* the exceptions are a website that is gone, for which no command looks, and what
\* the metadata command does not look at.
THEOREM UndisturbedRunsSucceed == CliSpec => []UndisturbedSucceeds
<1>1. ASSUME Base, UndisturbedInv PROVE UndisturbedSucceeds
  <2>. SUFFICES ASSUME ~disturbed PROVE UndisturbedSucceeds
    BY DEF UndisturbedSucceeds
  <2>1. Undisturbed
    BY <1>1 DEF UndisturbedInv
  <2>2. \A i \in DOMAIN calls : calls[i].chain = "refused" => Overlooked(calls[i].op)
    BY <2>1 DEF Undisturbed, CallFine, CallOverlooked
  <2>3. ASSUME phase # "deploy", Settled, \A i \in DOMAIN calls : calls[i].chain # "refused"
        PROVE  PhaseOK
    <3>1. \A i \in DOMAIN calls : calls[i].status = "success"
      BY <2>1, <2>3 DEF Undisturbed, CallFine, CallOverlooked, Settled
    <3>. QED BY <3>1 DEF PhaseOK
  <2>. QED BY <2>1, <2>2, <2>3 DEF UndisturbedSucceeds, Undisturbed
<1>. QED BY <1>1, BaseHolds, UndisturbedHolds, PTL

\* When such a run says that it is done, it is: after an upload the website that is
\* served is the local one, after an edit too but for a file that is mistaken for
\* the local one, nothing is left after a deletion, and nobody owns the website
\* after it was made immutable.
THEOREM UndisturbedRunsKeepTheirWord == CliSpec => []UndisturbedKeepsItsWord
<1>1. UndisturbedInv => UndisturbedKeepsItsWord
  BY DEF UndisturbedInv, Undisturbed, UndisturbedKeepsItsWord, WordKept
<1>. QED BY <1>1, UndisturbedHolds, PTL

-----------------------------------------------------------------------------
(* The website and the index on the same chain.  The chain implements the  *)
(* index contract, so that what DewebIndexProofs shows of the index alone  *)
(* holds on the chain.                                                     *)

IndexProofs == INSTANCE DewebIndexProofs WITH
  Addresses <- {Address},
  Accounts <- Callers,
  Owners <- Callers \cup {Nobody},
  Listable <- Callers,
  siteOwner <- [a \in {Address} |-> owner],
  siteVersion <- [a \in {Address} |-> code # "none"]

\* What the index assumes of its constants holds on the chain.
LEMMA IndexAssumed == IndexProofs!IndexAssumption
BY SiteAssumption DEF IndexProofs!IndexAssumption

\* The owner of the website is an account, no account, or absent.
OwnerOK == owner \in Callers \cup {Nobody, None} /\ code \in {"website", "upgraded", "none"}

\* No call of the website gives it another kind of owner.
LEMMA OwnerStep ==
  ASSUME OwnerOK, [Next]_vars
  PROVE  OwnerOK'
<1>1. CASE UNCHANGED vars
  BY <1>1 DEF OwnerOK, vars
<1>2. CASE Next
  BY <1>2 DEF OwnerOK, Next, FilesInit, UploadFileChunks, RemoveFileChunkRange, DeleteFiles,
              SetMetadataGlobal, RemoveMetadataGlobal, SetMetadataFile, RemoveMetadataFile,
              SetOwner, UpgradeSC, Purge
<1>. QED BY <1>1, <1>2

\* A step of the chain is a call of the index, a change of the website that the
\* index sees as a change of its keys, or nothing.
LEMMA ChainStep ==
  ASSUME OwnerOK, OwnerOK', [ChainNext]_chainVars
  PROVE  [IndexProofs!Next]_(IndexProofs!vars)
<1>1. CASE UNCHANGED vars /\ Index!IndexNext
  <2>1. UNCHANGED IndexProofs!siteKeys
    BY <1>1 DEF vars, IndexProofs!siteKeys
  <2>2. IndexProofs!IndexNext
    BY <1>1 DEF Index!IndexNext, IndexProofs!IndexNext, Index!UpdateWebsite,
                IndexProofs!UpdateWebsite, Index!RemoveWebsite, IndexProofs!RemoveWebsite,
                Index!TransferOwnership, IndexProofs!TransferOwnership, Index!UpgradeIndex,
                IndexProofs!UpgradeIndex, Index!OnlyIndexOwner, IndexProofs!OnlyIndexOwner,
                Index!AddressesLeft, IndexProofs!AddressesLeft, Index!OwnersLeft,
                IndexProofs!OwnersLeft, Index!OwnersListed, IndexProofs!OwnersListed,
                Index!GetOwnerOf, IndexProofs!GetOwnerOf, Index!listings, IndexProofs!listings
  <2>. QED BY <2>1, <2>2 DEF IndexProofs!Next
<1>2. CASE Next /\ UNCHANGED indexVars
  BY <1>2 DEF IndexProofs!Next, IndexProofs!SitesChange, IndexProofs!indexVars, indexVars, OwnerOK
<1>3. CASE UNCHANGED chainVars
  BY <1>3 DEF chainVars, IndexProofs!vars
<1>. QED BY <1>1, <1>2, <1>3 DEF ChainNext

\* The chain implements the index contract among websites that change freely.
THEOREM ChainImplementsIndex == ChainSpec => IndexProofs!Spec
<1>1. ChainInit => OwnerOK /\ IndexProofs!Init
  BY DEF ChainInit, Init, OwnerOK, IndexProofs!Init, Index!IndexInit, IndexProofs!IndexInit
<1>2. OwnerOK /\ [ChainNext]_chainVars => OwnerOK'
  BY OwnerStep DEF ChainNext, chainVars, vars
<1>3. OwnerOK /\ OwnerOK' /\ [ChainNext]_chainVars => [IndexProofs!Next]_(IndexProofs!vars)
  BY ChainStep
<1>. QED BY <1>1, <1>2, <1>3, PTL DEF ChainSpec, IndexProofs!Spec

\* On the chain the list by address and the list by owner always agree.
THEOREM ListingsStayAgree == ChainSpec => []ListingsAgree
<1>1. IndexProofs!Spec => []IndexProofs!ListingsAgree
  BY IndexProofs!ListingsStayAgree, IndexAssumed
<1>2. IndexProofs!ListingsAgree => ListingsAgree
  BY DEF ListingsAgree, Index!ListingsAgree, IndexProofs!ListingsAgree, Index!OwnersListed,
         IndexProofs!OwnersListed
<1>. QED BY <1>1, <1>2, ChainImplementsIndex, PTL

\* A website that no account owns and that is listed under none stays so.
THEOREM StaysUnlisted == ChainSpec => DisownedStaysUnlisted
<1>1. ASSUME owner \notin Callers, byOwner = {}, [ChainNext]_chainVars
      PROVE  byOwner' = {}
  <2>1. CASE UNCHANGED indexVars
    BY <1>1, <2>1 DEF indexVars
  <2>2. CASE UNCHANGED vars /\ Index!IndexNext
    <3>1. ASSUME NEW a \in {Address}
          PROVE  Index!GetOwnerOf(a) = None /\ Index!OwnersLeft(a) = {}
      BY <1>1 DEF Index!GetOwnerOf, Index!OwnersLeft
    <3>. QED BY <1>1, <2>2, <3>1 DEF Index!IndexNext, Index!UpdateWebsite, Index!RemoveWebsite,
                                    Index!TransferOwnership, Index!UpgradeIndex, Index!listings
  <2>. QED BY <1>1, <2>1, <2>2 DEF ChainNext, chainVars, indexVars
<1>. QED BY <1>1, PTL DEF ChainSpec, DisownedStaysUnlisted
==============================================================================
