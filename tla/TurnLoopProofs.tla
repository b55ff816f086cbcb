--------------------------- MODULE TurnLoopProofs ---------------------------
(***************************************************************************)
(* Proofs about Transcript and TurnLoop, for any transcript, any budget,   *)
(* caps, endpoints and rounds: the type invariant, that pairs and rows are *)
(* kept, that a request is paired, and that the rows of a failed attempt   *)
(* are cut.                                                                *)
(*                                                                         *)
(* cap_transcript and trim_to_budget both keep a part of the transcript,   *)
(* in order (Picks).  Neither keeps pairs of an arbitrary transcript: they *)
(* cut where a run of tool results begins, which is the right place only   *)
(* because results stand right behind their call row (Sound).  What they   *)
(* have in common is that the part is safe (SafePart): its results lose    *)
(* their call only behind a pinned row.  Safe parts compose, so append,    *)
(* cap and trim are dealt with one by one.                                 *)
(*                                                                         *)
(* Nothing here is proved by induction over the data: that a set of        *)
(* positions has a least or a greatest element takes its place.            *)
(***************************************************************************)
EXTENDS TurnLoop, FiniteSetTheorems, FunctionTheorems, NaturalsInduction, TLAPS

(* A non-empty set of naturals has a least element.                        *)
LEMMA Least ==
    ASSUME NEW S \in SUBSET Nat, S # {}
    PROVE  \E j \in S : \A k \in S : j <= k
<1> DEFINE R == OpToRel(<, Nat)
<1>1. IsWellFoundedOn(R, Nat)
      BY NatLessThanWellFounded
<1>2. \A x, y \in Nat : x < y => <<x, y>> \in R
      BY DEF OpToRel
<1> HIDE DEF R
<1>3. PICK j \in S : \A k \in S : ~(<<k, j>> \in R)
      BY <1>1, WFMin
<1>4. ASSUME NEW k \in S PROVE j <= k
  <2>1. k \in Nat /\ j \in Nat /\ <<k, j>> \notin R
        BY <1>3
  <2>2. ~(k < j)
        BY <1>2, <2>1
  <2> QED BY <2>1, <2>2
<1> QED BY <1>4

(* Min of a non-empty set of naturals.                                     *)
LEMMA MinIsLeast ==
    ASSUME NEW S \in SUBSET Nat, S # {}
    PROVE  Min(S) \in S /\ \A k \in S : Min(S) <= k
BY Least DEF Min

(* Max of a bounded one.                                                   *)
LEMMA MaxIsGreatest ==
    ASSUME NEW S \in SUBSET Nat, S # {}, NEW n \in Nat, \A k \in S : k <= n
    PROVE  Max(S) \in S /\ \A k \in S : k <= Max(S)
<1> DEFINE U == {k \in Nat : \A j \in S : j <= k}
<1>1. n \in U
      OBVIOUS
<1>2. PICK u \in U : \A k \in U : u <= k
      BY <1>1, Least
<1>3. u \in S
  <2> SUFFICES ASSUME u \notin S PROVE FALSE
      OBVIOUS
  <2>1. \A j \in S : j \in Nat /\ j < u
        BY <1>2
  <2>2. PICK j \in S : TRUE
        OBVIOUS
  <2>3. u - 1 \in Nat /\ \A i \in S : i <= u - 1
        BY <1>2, <2>1, <2>2
  <2> QED BY <1>2, <2>3
<1> QED BY <1>2, <1>3 DEF Max

(* Running totals exist.                                                   *)
LEMMA Totals ==
    ASSUME NEW n \in Nat, NEW s \in [1 .. n -> Nat]
    PROVE  \E f \in [0 .. n -> Nat] :
              \A k \in 0 .. n : f[k] = IF k = 0 THEN 0 ELSE f[k - 1] + s[k]
<1> DEFINE Up(f, m) == \A k \in 0 .. m : f[k] = IF k = 0 THEN 0 ELSE f[k - 1] + s[k]
           Has(m) == \E f \in [0 .. m -> Nat] : Up(f, m)
           Bad == {m \in 0 .. n : ~Has(m)}
<1>1. Has(0)
  <2>1. [k \in 0 .. 0 |-> 0] \in [0 .. 0 -> Nat] /\ Up([k \in 0 .. 0 |-> 0], 0)
        OBVIOUS
  <2> QED BY <2>1
<1>2. ASSUME NEW m \in 1 .. n, Has(m - 1) PROVE Has(m)
  <2>1. PICK f \in [0 .. m - 1 -> Nat] : Up(f, m - 1)
        BY <1>2
  <2> DEFINE g == [k \in 0 .. m |-> IF k = m THEN f[m - 1] + s[m] ELSE f[k]]
  <2>a. f[m - 1] + s[m] \in Nat
    <3>1. m \in Nat /\ m - 1 \in 0 .. m - 1
          OBVIOUS
    <3>2. f[m - 1] \in Nat /\ s[m] \in Nat
          BY <2>1, <3>1
    <3> QED BY <3>2
  <2>b. ASSUME NEW k \in 0 .. m, k # m PROVE f[k] \in Nat
    <3>1. k \in 0 .. m - 1
          BY <2>b
    <3> QED BY <2>1, <3>1
  <2>2. g \in [0 .. m -> Nat]
    <3> HIDE DEF Has, Bad, Up
    <3> QED BY <2>a, <2>b
  <2>3. ASSUME NEW k \in 0 .. m PROVE g[k] = IF k = 0 THEN 0 ELSE g[k - 1] + s[k]
        BY <2>1
  <2> QED BY <2>2, <2>3
<1> HIDE DEF Has
<1>3. Bad = {}
  <2> SUFFICES ASSUME Bad # {} PROVE FALSE
      OBVIOUS
  <2>1. Bad \in SUBSET Nat
        OBVIOUS
  <2>2. PICK m \in Bad : \A k \in Bad : m <= k
        BY <2>1, Least
  <2>3. m \in 1 .. n /\ m - 1 \in 0 .. n /\ m - 1 \notin Bad
        BY <1>1, <2>2
  <2> QED BY <1>2, <2>2, <2>3
<1>4. Has(n)
      BY <1>3
<1> QED BY <1>4 DEF Has

(* What SizeOfLast says of no row and of the newest.                       *)
LEMMA Sizes ==
    ASSUME NEW turns \in Seq(ChatMessage)
    PROVE  /\ SizeOfLast(turns, 0) = 0
           /\ turns # <<>> => SizeOfLast(turns, 1) = turns[Len(turns)].size
<1> DEFINE n == Len(turns)
           size(k) == turns[n + 1 - k].size
           s == [k \in 1 .. n |-> size(k)]
           Is(f) == f = [k \in 0 .. n |-> IF k = 0 THEN 0 ELSE f[k - 1] + size(k)]
           total == CHOOSE f : Is(f)
<1>1. n \in Nat /\ \A k \in 1 .. n : size(k) \in Nat
  <2>1. n \in Nat /\ \A i \in 1 .. n : turns[i] \in ChatMessage
        OBVIOUS
  <2>2. \A k \in 1 .. n : n + 1 - k \in 1 .. n
        BY <2>1
  <2> QED BY <2>1, <2>2 DEF ChatMessage
<1>2. \A m : SizeOfLast(turns, m) = total[m]
      BY DEF SizeOfLast
<1> HIDE DEF n, size
<1>3. \E f : Is(f)
  <2>1. s \in [1 .. n -> Nat]
        BY <1>1
  <2>2. PICK f \in [0 .. n -> Nat] :
              \A k \in 0 .. n : f[k] = IF k = 0 THEN 0 ELSE f[k - 1] + s[k]
        BY <1>1, <2>1, Totals
  <2>a. \A k \in 0 .. n : k # 0 => k \in 1 .. n /\ s[k] = size(k)
        BY <1>1
  <2>3. \A k \in 0 .. n : f[k] = IF k = 0 THEN 0 ELSE f[k - 1] + size(k)
        BY <2>2, <2>a
  <2>4. Is(f)
        BY <2>2, <2>3
  <2> QED BY <2>4
<1>4. Is(total)
      BY <1>3
<1> HIDE DEF total
<1>e. \A k \in 0 .. n : total[k] = IF k = 0 THEN 0 ELSE total[k - 1] + size(k)
      BY <1>4, Zenon
<1>5. total[0] = 0
      BY <1>1, <1>e
<1>6. n >= 1 => total[1] = size(1)
  <2> SUFFICES ASSUME n >= 1 PROVE total[1] = size(1)
      OBVIOUS
  <2>1. 1 \in 0 .. n /\ 1 \in 1 .. n
        BY <1>1
  <2>2. total[1] = total[1 - 1] + size(1)
        BY <1>e, <2>1
  <2> QED BY <1>1, <1>5, <2>1, <2>2
<1>7. turns # <<>> => n >= 1 /\ size(1) = turns[Len(turns)].size
      BY DEF n, size
<1> QED BY <1>2, <1>5, <1>6, <1>7

-----------------------------------------------------------------------------
(* s is the rows of `turns' at the indices I, in order, and f says where   *)
(* each was.                                                               *)
Picks(f, I, s, turns) ==
    /\ turns \in Seq(ChatMessage) /\ I \in SUBSET DOMAIN turns /\ s \in Seq(ChatMessage)
    /\ f \in [1 .. Len(s) -> I]
    /\ \A k, l \in 1 .. Len(s) : k < l => f[k] < f[l]
    /\ \A i \in I : \E k \in 1 .. Len(s) : f[k] = i
    /\ \A k \in 1 .. Len(s) : s[k] = turns[f[k]]

(* Ranks number the elements of a finite set of naturals in their order.   *)
LEMMA Ranks ==
    ASSUME NEW n \in Nat, NEW I \in SUBSET (1 .. n)
    PROVE  /\ IsFiniteSet(I) /\ Cardinality(I) \in Nat
           /\ \A i \in I : Rank(I, i) \in 1 .. Cardinality(I)
           /\ \A i, j \in I : i < j => Rank(I, i) < Rank(I, j)
           /\ \A k \in 1 .. Cardinality(I) : \E i \in I : Rank(I, i) = k
<1> DEFINE Upto(i) == {j \in I : j <= i}
           c == Cardinality(I)
<1>1. IsFiniteSet(I) /\ c \in Nat
  <2>1. IsFiniteSet(1 .. n)
        BY FS_Interval
  <2> QED BY <2>1, FS_Subset, FS_CardinalityType
<1>2. ASSUME NEW i \in I
      PROVE  /\ IsFiniteSet(Upto(i)) /\ Rank(I, i) = Cardinality(Upto(i))
             /\ Rank(I, i) \in 1 .. c
  <2>1. Upto(i) \in SUBSET I /\ i \in Upto(i)
        OBVIOUS
  <2>2. IsFiniteSet(Upto(i)) /\ Cardinality(Upto(i)) <= c
        BY <1>1, <2>1, FS_Subset
  <2>3. Cardinality(Upto(i)) \in Nat /\ Cardinality(Upto(i)) # 0
        BY <2>1, <2>2, FS_CardinalityType, FS_EmptySet
  <2>4. Rank(I, i) = Cardinality(Upto(i))
        BY DEF Rank
  <2> HIDE DEF Upto
  <2> QED BY <1>1, <2>2, <2>3, <2>4
<1>3. ASSUME NEW i \in I, NEW j \in I, i < j PROVE Rank(I, i) < Rank(I, j)
  <2>a. \A k \in I : k \in Nat
        OBVIOUS
  <2>b. \A k \in Upto(i) : k \in I /\ k <= j
        BY <1>3, <2>a
  <2>1. Upto(i) \subseteq Upto(j) /\ j \in Upto(j) /\ j \notin Upto(i)
    <3>1. Upto(i) \subseteq Upto(j)
          BY <2>b
    <3>2. j \in Upto(j) /\ j \notin Upto(i)
          BY <1>3, <2>a
    <3> QED BY <3>1, <3>2
  <2>2. /\ Cardinality(Upto(i)) <= Cardinality(Upto(j))
        /\ Cardinality(Upto(i)) # Cardinality(Upto(j))
        BY <1>2, <2>1, FS_Subset
  <2> HIDE DEF Upto
  <2> QED BY <1>1, <1>2, <2>2
<1> DEFINE r == [i \in I |-> Rank(I, i)]
<1>4. r \in Injection(I, 1 .. c)
  <2>1. r \in [I -> 1 .. c]
        BY <1>2
  <2>2. \A i, j \in I : r[i] = r[j] => i = j
    <3> SUFFICES ASSUME NEW i \in I, NEW j \in I, r[i] = r[j] PROVE i = j
        OBVIOUS
    <3>1. i \in Nat /\ j \in Nat
          OBVIOUS
    <3>2. Rank(I, i) = Rank(I, j) /\ Rank(I, i) \in 1 .. c
          BY <1>2
    <3> QED BY <1>1, <1>3, <3>1, <3>2
  <2> QED BY <2>1, <2>2, Zenon DEF Injection, IsInjective
<1>5. r \in Surjection(I, 1 .. c)
  <2>1. IsFiniteSet(1 .. c) /\ Cardinality(1 .. c) = c
        BY <1>1, FS_Interval
  <2> HIDE DEF r
  <2> QED BY <1>4, <2>1, FS_Injection
<1>6. \A k \in 1 .. c : \E i \in I : Rank(I, i) = k
      BY <1>5 DEF Surjection
<1> QED BY <1>1, <1>2, <1>3, <1>6

(* Retain keeps exactly the rows at I, in their order.                     *)
LEMMA RetainPicks ==
    ASSUME NEW turns \in Seq(ChatMessage), NEW I \in SUBSET DOMAIN turns
    PROVE  \E f : Picks(f, I, Retain(turns, I), turns)
<1> DEFINE c == Cardinality(I)
           f == [k \in 1 .. c |-> CHOOSE i \in I : Rank(I, i) = k]
           s == Retain(turns, I)
<1>1. Len(turns) \in Nat /\ I \in SUBSET (1 .. Len(turns))
      OBVIOUS
<1>2. /\ c \in Nat
      /\ \A i \in I : Rank(I, i) \in 1 .. c
      /\ \A i, j \in I : i < j => Rank(I, i) < Rank(I, j)
      /\ \A k \in 1 .. c : \E i \in I : Rank(I, i) = k
      BY <1>1, Ranks
<1> HIDE DEF c
<1>3. \A k \in 1 .. c : f[k] \in I /\ Rank(I, f[k]) = k
      BY <1>2
<1>4. s = [k \in 1 .. c |-> turns[f[k]]]
      BY <1>3 DEF Retain, c
<1> HIDE DEF f
<1>5. s \in Seq(ChatMessage) /\ Len(s) = c
      BY <1>1, <1>2, <1>3, <1>4
<1>6. f \in [1 .. c -> I]
      BY <1>3 DEF f
<1>7. ASSUME NEW k \in 1 .. c, NEW l \in 1 .. c, k < l PROVE f[k] < f[l]
  <2>1. f[k] \in Nat /\ f[l] \in Nat
        BY <1>1, <1>3
  <2>2. ~(f[l] < f[k]) /\ f[l] # f[k]
        BY <1>2, <1>3, <1>7
  <2> QED BY <2>1, <2>2
<1>8. ASSUME NEW i \in I PROVE \E k \in 1 .. c : f[k] = i
  <2>1. Rank(I, i) \in 1 .. c /\ f[Rank(I, i)] \in I /\ Rank(I, f[Rank(I, i)]) = Rank(I, i)
        BY <1>2, <1>3
  <2>2. i \in Nat /\ f[Rank(I, i)] \in Nat
        BY <1>1, <2>1
  <2>3. ~(f[Rank(I, i)] < i) /\ ~(i < f[Rank(I, i)])
        BY <1>2, <2>1
  <2> QED BY <2>1, <2>2, <2>3
<1>9. Picks(f, I, s, turns)
      BY <1>4, <1>5, <1>6, <1>7, <1>8 DEF Picks
<1> QED BY <1>9

-----------------------------------------------------------------------------
(* No two rows have the same id.                                           *)
Unique(turns) == \A i, j \in DOMAIN turns : turns[i].id = turns[j].id => i = j
(* Tool results are never pinned.                                          *)
PinsAreTurns(turns) == \A i \in DOMAIN turns : turns[i].pinned => turns[i].role # "tool"
(* A result follows its call row, with nothing but results in between.     *)
Contiguous(turns) ==
    \A i, j \in DOMAIN turns :
        j < i /\ turns[i].role = "tool" /\ turns[j].id = turns[i].of =>
            /\ turns[j].role = "calls"
            /\ \A k \in j + 1 .. i : turns[k].role = "tool"
(* Ids are those of the rows made so far.                                  *)
Named(turns, n) == \A i \in DOMAIN turns : turns[i].id \in 1 .. n /\ turns[i].of \in 0 .. n

(* A transcript whose rows were made with the ids 1 to n.                  *)
Sound(turns, n) == /\ turns \in Seq(ChatMessage)
                   /\ Named(turns, n) /\ Unique(turns)
                   /\ PinsAreTurns(turns) /\ Contiguous(turns)

(* A part of a transcript is one.                                          *)
LEMMA PartIsSound ==
    ASSUME NEW n \in Nat, NEW turns, Sound(turns, n),
           NEW I, NEW f, NEW s, Picks(f, I, s, turns)
    PROVE  Sound(s, n)
<1>1. /\ turns \in Seq(ChatMessage) /\ s \in Seq(ChatMessage)
      /\ DOMAIN turns = 1 .. Len(turns) /\ DOMAIN s = 1 .. Len(s)
      /\ Len(s) \in Nat /\ Len(turns) \in Nat
      BY DEF Sound, Picks
<1>2. /\ \A k \in DOMAIN s : f[k] \in DOMAIN turns /\ s[k] = turns[f[k]] /\ f[k] \in Nat
      /\ \A k, l \in DOMAIN s : k < l => f[k] < f[l]
      BY <1>1 DEF Picks
<1>3. Named(s, n) /\ PinsAreTurns(s)
      BY <1>2 DEF Sound, Named, PinsAreTurns
<1>4. Unique(s)
  <2> SUFFICES ASSUME NEW i \in DOMAIN s, NEW j \in DOMAIN s, s[i].id = s[j].id PROVE i = j
      BY DEF Unique
  <2>1. f[i] = f[j]
        BY <1>2 DEF Sound, Unique
  <2>2. ~(i < j) /\ ~(j < i) /\ i \in Nat /\ j \in Nat
        BY <1>1, <1>2, <2>1
  <2> QED BY <2>2
<1>5. Contiguous(s)
  <2> SUFFICES ASSUME NEW i \in DOMAIN s, NEW j \in DOMAIN s,
                      j < i, s[i].role = "tool", s[j].id = s[i].of
               PROVE  s[j].role = "calls" /\ \A k \in j + 1 .. i : s[k].role = "tool"
      BY DEF Contiguous
  <2>1. /\ f[j] < f[i]
        /\ turns[f[j]].role = "calls"
        /\ \A k \in f[j] + 1 .. f[i] : turns[k].role = "tool"
        BY <1>2 DEF Sound, Contiguous
  <2>2. ASSUME NEW k \in j + 1 .. i PROVE s[k].role = "tool"
    <3>1. k \in DOMAIN s /\ j < k /\ (k < i \/ k = i)
          BY <1>1
    <3>2. f[k] \in f[j] + 1 .. f[i]
          BY <1>2, <3>1
    <3> QED BY <1>2, <2>1, <3>1, <3>2
  <2> QED BY <1>2, <2>1, <2>2
<1> QED BY <1>1, <1>3, <1>4, <1>5 DEF Sound

(* The rows at I may stay: the pinned ones are among them, and a result    *)
(* loses its call only behind one.                                         *)
Safe(I, turns) ==
    /\ \A i \in DOMAIN turns : turns[i].pinned => i \in I
    /\ \A i \in I, j \in DOMAIN turns \ I :
           j < i /\ turns[i].role = "tool" /\ turns[j].id = turns[i].of =>
               \E p \in 1 .. i - 1 : turns[p].pinned

(* Then no result of the part is an orphan that was none, unless there is  *)
(* a pinned row before it.                                                 *)
OrphansKept(f, s, turns) ==
    \A k \in DOMAIN s : Orphan(s, k) =>
        Orphan(turns, f[k]) \/ \E l \in 1 .. k - 1 : s[l].pinned

(* Where a row of the whole is in the part.                                *)
LEMMA PartOrder ==
    ASSUME NEW turns, NEW I, NEW f, NEW s, Picks(f, I, s, turns)
    PROVE  \A k \in DOMAIN s : \A i \in I : i < f[k] =>
              \E l \in 1 .. k - 1 : f[l] = i /\ s[l] = turns[i] /\ l \in DOMAIN s
<1> SUFFICES ASSUME NEW k \in DOMAIN s, NEW i \in I, i < f[k]
             PROVE  \E l \in 1 .. k - 1 : f[l] = i /\ s[l] = turns[i] /\ l \in DOMAIN s
    OBVIOUS
<1>1. /\ DOMAIN s = 1 .. Len(s) /\ Len(s) \in Nat /\ f[k] \in Nat /\ i \in Nat
      BY DEF Picks
<1>2. PICK l \in 1 .. Len(s) : f[l] = i
      BY DEF Picks
<1>3. ~(k < l) /\ l # k
      BY <1>1, <1>2 DEF Picks
<1> QED BY <1>1, <1>2, <1>3 DEF Picks

(* A safe part keeps pairs.                                                *)
LEMMA SafePartKeepsPairs ==
    ASSUME NEW turns, NEW I, NEW f, NEW s, Picks(f, I, s, turns), Safe(I, turns)
    PROVE  OrphansKept(f, s, turns)
<1>a. \A k \in DOMAIN s : \A i \in I : i < f[k] =>
         \E l \in 1 .. k - 1 : f[l] = i /\ s[l] = turns[i] /\ l \in DOMAIN s
      BY PartOrder
<1> SUFFICES ASSUME NEW k \in DOMAIN s, Orphan(s, k), ~Orphan(turns, f[k])
             PROVE  \E l \in 1 .. k - 1 : s[l].pinned
    BY DEF OrphansKept
<1>1. /\ DOMAIN s = 1 .. Len(s) /\ Len(s) \in Nat /\ k \in Nat
      /\ f[k] \in I /\ f[k] \in 1 .. Len(turns) /\ s[k] = turns[f[k]]
      /\ Len(turns) \in Nat /\ DOMAIN turns = 1 .. Len(turns)
      BY DEF Picks
<1>2. PICK j \in 1 .. f[k] - 1 : turns[j].id = turns[f[k]].of
      BY <1>1 DEF Orphan
<1>3. j \in DOMAIN turns /\ j < f[k] /\ s[k].role = "tool"
      BY <1>1 DEF Orphan
<1>4. j \notin I
  <2> SUFFICES ASSUME j \in I PROVE FALSE
      OBVIOUS
  <2>1. PICK l \in 1 .. k - 1 : f[l] = j /\ s[l] = turns[j] /\ l \in DOMAIN s
        BY <1>3, <1>a
  <2> QED BY <1>1, <1>2, <2>1 DEF Orphan
<1>5. PICK p \in 1 .. f[k] - 1 : turns[p].pinned
      BY <1>1, <1>2, <1>3, <1>4 DEF Safe
<1>6. p \in DOMAIN turns /\ p < f[k]
      BY <1>1
<1>7. p \in I
      BY <1>5, <1>6 DEF Safe
<1>8. PICK l \in 1 .. k - 1 : f[l] = p /\ s[l] = turns[p] /\ l \in DOMAIN s
      BY <1>6, <1>7, <1>a
<1> QED BY <1>5, <1>8

-----------------------------------------------------------------------------
(* s is a safe part of `turns'.                                            *)
SafePart(s, turns) == \E f, I : Picks(f, I, s, turns) /\ Safe(I, turns)

(* What safe parts promise: soundness, every pinned row, the pairs.        *)
LEMMA SafeParts ==
    ASSUME NEW n \in Nat, NEW turns, NEW s, Sound(turns, n), SafePart(s, turns)
    PROVE  /\ Sound(s, n)
           /\ \A i \in DOMAIN turns : turns[i].pinned =>
                 \E k \in DOMAIN s : s[k] = turns[i]
           /\ \A k \in DOMAIN s : Orphan(s, k) =>
                 \/ s[k].id \in OrphanIds(turns)
                 \/ \E l \in 1 .. k - 1 : s[l].pinned
<1>1. PICK f, I : Picks(f, I, s, turns) /\ Safe(I, turns)
      BY DEF SafePart
<1>2. Sound(s, n)
      BY <1>1, PartIsSound
<1>a. DOMAIN s = 1 .. Len(s) /\ I \subseteq DOMAIN turns
      BY <1>1 DEF Picks
<1>b. /\ \A k \in DOMAIN s : s[k] = turns[f[k]]
      /\ \A i \in I : \E k \in DOMAIN s : f[k] = i
      BY <1>1, <1>a DEF Picks
<1>c. f \in [1 .. Len(s) -> I]
      BY <1>1 DEF Picks
<1>d. \A k \in DOMAIN s : f[k] \in DOMAIN turns
      BY <1>a, <1>c
<1>3. \A i \in DOMAIN turns : turns[i].pinned => \E k \in DOMAIN s : s[k] = turns[i]
      BY <1>1, <1>b DEF Safe
<1>4. OrphansKept(f, s, turns)
      BY <1>1, SafePartKeepsPairs
<1>5. ASSUME NEW k \in DOMAIN s, Orphan(s, k)
      PROVE  s[k].id \in OrphanIds(turns) \/ \E l \in 1 .. k - 1 : s[l].pinned
      BY <1>4, <1>5, <1>b, <1>d DEF OrphansKept, OrphanIds
<1> QED BY <1>2, <1>3, <1>5

(* A safe part of a safe part is one.                                      *)
LEMMA PartOfPart ==
    ASSUME NEW turns, NEW s, NEW t, SafePart(s, turns), SafePart(t, s)
    PROVE  SafePart(t, turns)
<1>1. PICK f, I : Picks(f, I, s, turns) /\ Safe(I, turns)
      BY DEF SafePart
<1>2. PICK g, J : Picks(g, J, t, s) /\ Safe(J, s)
      BY DEF SafePart
<1> DEFINE h == [k \in 1 .. Len(t) |-> f[g[k]]]
           H == {f[j] : j \in J}
<1>3. /\ DOMAIN turns = 1 .. Len(turns) /\ Len(turns) \in Nat
      /\ DOMAIN s = 1 .. Len(s) /\ Len(s) \in Nat
      /\ Len(t) \in Nat
      BY <1>1, <1>2 DEF Picks
<1>4. /\ \A k \in 1 .. Len(s) : f[k] \in I /\ s[k] = turns[f[k]]
      /\ \A i \in I : i \in 1 .. Len(turns) /\ \E k \in 1 .. Len(s) : f[k] = i
      /\ \A k, l \in 1 .. Len(s) : k < l => f[k] < f[l]
      BY <1>1, <1>3 DEF Picks
<1>5. /\ \A k \in 1 .. Len(t) : g[k] \in J /\ t[k] = s[g[k]]
      /\ \A i \in J : i \in 1 .. Len(s) /\ \E k \in 1 .. Len(t) : g[k] = i
      /\ \A k, l \in 1 .. Len(t) : k < l => g[k] < g[l]
      BY <1>2, <1>3 DEF Picks
<1>6. Picks(h, H, t, turns)
  <2>1. turns \in Seq(ChatMessage) /\ t \in Seq(ChatMessage) /\ H \in SUBSET DOMAIN turns
        BY <1>1, <1>2, <1>3, <1>4, <1>5 DEF Picks
  <2>2. h \in [1 .. Len(t) -> H]
        BY <1>5
  <2>3. \A k, l \in 1 .. Len(t) : k < l => h[k] < h[l]
        BY <1>4, <1>5
  <2>4. \A i \in H : \E k \in 1 .. Len(t) : h[k] = i
        BY <1>5
  <2>5. \A k \in 1 .. Len(t) : t[k] = turns[h[k]]
        BY <1>4, <1>5
  <2> QED BY <2>1, <2>2, <2>3, <2>4, <2>5 DEF Picks
<1>7. ASSUME NEW i \in DOMAIN turns, turns[i].pinned PROVE i \in H
  <2>1. PICK k \in 1 .. Len(s) : f[k] = i
        BY <1>1, <1>4, <1>7 DEF Safe
  <2>2. k \in J
        BY <1>2, <1>3, <1>4, <1>7, <2>1 DEF Safe
  <2> QED BY <2>1, <2>2
<1>8. ASSUME NEW i \in H, NEW j \in DOMAIN turns \ H,
             j < i, turns[i].role = "tool", turns[j].id = turns[i].of
      PROVE  \E p \in 1 .. i - 1 : turns[p].pinned
  <2>1. PICK k \in J : f[k] = i
        OBVIOUS
  <2>2. k \in 1 .. Len(s) /\ i \in I /\ i \in 1 .. Len(turns) /\ s[k] = turns[i]
        BY <1>4, <1>5, <2>1
  <2>3. CASE j \notin I
        BY <1>1, <1>8, <2>2, <2>3 DEF Safe
  <2>4. CASE j \in I
    <3>1. PICK l \in 1 .. Len(s) : f[l] = j
          BY <1>4, <2>4
    <3>2. l \notin J /\ s[l] = turns[j]
          BY <1>4, <3>1
    <3>3. l < k
      <4>1. ~(k < l) /\ k # l
            BY <1>3, <1>4, <1>8, <2>1, <2>2, <3>1
      <4> QED BY <1>3, <2>2, <4>1
    <3>4. PICK p \in 1 .. k - 1 : s[p].pinned
          BY <1>2, <1>3, <1>8, <2>1, <2>2, <3>1, <3>2, <3>3 DEF Safe
    <3>5. p \in 1 .. Len(s) /\ p < k
          BY <1>3, <2>2, <3>4
    <3>6. f[p] < i /\ f[p] \in 1 .. Len(turns) /\ turns[f[p]].pinned
          BY <1>4, <2>1, <2>2, <3>4, <3>5
    <3> QED BY <1>3, <2>2, <3>6
  <2> QED BY <2>3, <2>4
<1>9. Safe(H, turns)
  <2> HIDE DEF H
  <2> QED BY <1>7, <1>8 DEF Safe
<1> QED BY <1>6, <1>9 DEF SafePart

(* The whole is a safe part of itself.                                     *)
LEMMA WholeIsSafe ==
    ASSUME NEW turns \in Seq(ChatMessage)
    PROVE  SafePart(turns, turns)
<1> DEFINE f == [k \in 1 .. Len(turns) |-> k]
<1>1. Len(turns) \in Nat /\ DOMAIN turns = 1 .. Len(turns)
      OBVIOUS
<1>2. Picks(f, DOMAIN turns, turns, turns)
      BY <1>1 DEF Picks
<1>3. Safe(DOMAIN turns, turns)
      BY DEF Safe
<1> QED BY <1>2, <1>3 DEF SafePart

(* The rows of a suffix.                                                   *)
LEMMA SuffixRows ==
    ASSUME NEW turns \in Seq(ChatMessage), NEW c \in 1 .. Len(turns) + 1
    PROVE  /\ From(turns, c) \in Seq(ChatMessage) /\ Len(From(turns, c)) = Len(turns) + 1 - c
           /\ \A k \in 1 .. Len(From(turns, c)) : From(turns, c)[k] = turns[c - 1 + k]
<1> DEFINE L == Len(turns)
           s == From(turns, c)
<1>1. L \in Nat /\ DOMAIN turns = 1 .. L /\ c \in 1 .. L + 1
      OBVIOUS
<1>2. s = [k \in 1 .. L + 1 - c |-> turns[c - 1 + k]]
      BY <1>1 DEF From
<1>3. L + 1 - c \in Nat /\ \A k \in 1 .. L + 1 - c : turns[c - 1 + k] \in ChatMessage
  <2>1. L + 1 - c \in Nat /\ \A k \in 1 .. L + 1 - c : c - 1 + k \in DOMAIN turns
        BY <1>1
  <2> QED BY <2>1
<1> HIDE DEF s, L
<1>4. s \in Seq(ChatMessage) /\ Len(s) = L + 1 - c
      BY <1>2, <1>3
<1>5. \A k \in 1 .. Len(s) : s[k] = turns[c - 1 + k]
      BY <1>2, <1>4
<1> QED BY <1>4, <1>5 DEF s, L

(* A suffix as a part.                                                     *)
LEMMA SuffixPicks ==
    ASSUME NEW turns \in Seq(ChatMessage), NEW c \in 1 .. Len(turns) + 1
    PROVE  \E f : Picks(f, c .. Len(turns), From(turns, c), turns)
<1> DEFINE L == Len(turns)
           s == From(turns, c)
           f == [k \in 1 .. L + 1 - c |-> c - 1 + k]
<1>1. L \in Nat /\ DOMAIN turns = 1 .. L /\ c \in 1 .. L + 1
      OBVIOUS
<1>2. /\ s \in Seq(ChatMessage) /\ Len(s) = L + 1 - c
      /\ \A k \in 1 .. Len(s) : s[k] = turns[c - 1 + k]
      BY SuffixRows
<1>3. \A k \in 1 .. L + 1 - c : c - 1 + k \in c .. L /\ c - 1 + k \in DOMAIN turns
      BY <1>1
<1>4. s \in Seq(ChatMessage) /\ Len(s) = L + 1 - c
      BY <1>2
<1> HIDE DEF s
<1>5. f \in [1 .. Len(s) -> c .. L]
      BY <1>3, <1>4
<1>6. \A k, l \in 1 .. Len(s) : k < l => f[k] < f[l]
      BY <1>1, <1>4
<1>7. ASSUME NEW i \in c .. L PROVE \E k \in 1 .. Len(s) : f[k] = i
  <2>1. i + 1 - c \in 1 .. Len(s) /\ c - 1 + (i + 1 - c) = i
        BY <1>1, <1>4
  <2> QED BY <1>4, <2>1
<1>8. \A k \in 1 .. Len(s) : s[k] = turns[f[k]]
      BY <1>2, <1>4
<1>9. (c .. L) \in SUBSET DOMAIN turns
      BY <1>1
<1> HIDE DEF f
<1>10. Picks(f, c .. L, s, turns)
       BY <1>4, <1>5, <1>6, <1>7, <1>8, <1>9 DEF Picks
<1> QED BY <1>10 DEF s

-----------------------------------------------------------------------------
(* OldestUnpinned takes unpinned rows from the front.                      *)
LEMMA OldestIsDownClosed ==
    ASSUME NEW turns \in Seq(ChatMessage), NEW n \in Nat,
           NEW j \in OldestUnpinned(turns, n),
           NEW i \in DOMAIN turns, i < j, ~turns[i].pinned
    PROVE  i \in OldestUnpinned(turns, n)
<1> DEFINE U == {k \in DOMAIN turns : ~turns[k].pinned}
           B(k) == {l \in U : l < k}
<1>1. OldestUnpinned(turns, n) = {k \in U : Cardinality(B(k)) < n}
      BY DEF OldestUnpinned
<1>2. IsFiniteSet(U) /\ \A k \in U : k \in Nat
  <2>1. DOMAIN turns = 1 .. Len(turns) /\ Len(turns) \in Nat
        OBVIOUS
  <2>2. IsFiniteSet(1 .. Len(turns))
        BY <2>1, FS_Interval
  <2> QED BY <2>1, <2>2, FS_Subset
<1>3. i \in U /\ j \in U /\ Cardinality(B(j)) < n
      BY <1>1
<1> HIDE DEF U
<1>4. B(i) \in SUBSET B(j) /\ B(j) \in SUBSET U
      BY <1>2, <1>3
<1>5. IsFiniteSet(B(j)) /\ IsFiniteSet(B(i)) /\ Cardinality(B(i)) <= Cardinality(B(j))
      BY <1>2, <1>4, FS_Subset
<1>6. Cardinality(B(i)) \in Nat /\ Cardinality(B(j)) \in Nat
      BY <1>5, FS_CardinalityType
<1>7. Cardinality(B(i)) < n
  <2> HIDE DEF B
  <2> QED BY <1>3, <1>5, <1>6
<1> QED BY <1>1, <1>3, <1>7

(* The rows a cap keeps.                                                   *)
LEMMA KeepIsSafe ==
    ASSUME NEW n \in Nat, NEW turns, Sound(turns, n), Len(turns) > MaxTurns
    PROVE  keep(turns) \in SUBSET DOMAIN turns /\ Safe(keep(turns), turns)
<1> DEFINE O == OldestUnpinned(turns, Len(turns) - MaxTurns)
           K == DOMAIN turns \ O
           m == Min(K)
           lead == LeadingTools(turns, m)
           I == keep(turns)
<1>1. /\ turns \in Seq(ChatMessage) /\ Len(turns) \in Nat
      /\ DOMAIN turns = 1 .. Len(turns) /\ Len(turns) - MaxTurns \in Nat
      BY BoundsAssumption DEF Sound
<1>2. I = K \ (IF K = {} THEN {} ELSE lead)
      BY DEF keep
<1>3. I \in SUBSET DOMAIN turns /\ \A i \in O : i \in DOMAIN turns /\ ~turns[i].pinned
      BY <1>2 DEF OldestUnpinned
<1>4. CASE K = {}
  <2>1. I = {}
        BY <1>2, <1>4
  <2> QED BY <1>3, <1>4, <2>1 DEF Safe
<1>5. CASE K # {}
  <2>1. m \in K /\ m \in Nat /\ \A k \in K : m <= k
    <3>1. K \in SUBSET Nat
          BY <1>1
    <3> HIDE DEF K
    <3> QED BY <1>5, <3>1, MinIsLeast
  <2>2. I = K \ lead
        BY <1>2, <1>5
  <2>3. \A i \in m .. Len(turns) :
           i \in lead <=> \A k \in m .. i : turns[k].role = "tool"
        BY DEF LeadingTools
  <2>4. \A i \in lead : turns[i].role = "tool"
    <3> SUFFICES ASSUME NEW i \in lead PROVE turns[i].role = "tool"
        OBVIOUS
    <3>1. i \in m .. Len(turns) /\ \A k \in m .. i : turns[k].role = "tool"
          BY DEF LeadingTools
    <3>2. i \in m .. i
          BY <1>1, <2>1, <3>1
    <3> QED BY <3>1, <3>2
  <2> HIDE DEF m, lead, I
  <2>5. ASSUME NEW i \in DOMAIN turns, turns[i].pinned PROVE i \in I
        BY <1>3, <2>2, <2>4, <2>5 DEF Sound, PinsAreTurns
  <2>6. ASSUME NEW i \in I, NEW j \in DOMAIN turns \ I,
               j < i, turns[i].role = "tool", turns[j].id = turns[i].of
        PROVE  \E p \in 1 .. i - 1 : turns[p].pinned
    <3> SUFFICES ASSUME \A p \in 1 .. i - 1 : ~turns[p].pinned PROVE FALSE
        OBVIOUS
    <3>1. i \in K /\ i \in 1 .. Len(turns) /\ m <= i /\ j \in 1 .. Len(turns)
          BY <1>1, <1>3, <2>1, <2>2
    <3>2. turns[j].role = "calls" /\ \A k \in j + 1 .. i : turns[k].role = "tool"
          BY <1>1, <2>6, <3>1 DEF Sound, Contiguous
    <3>3. j \in O
          BY <2>2, <2>4, <3>2
    <3>4. ~(m < j)
      <4> SUFFICES ASSUME m < j PROVE FALSE
          OBVIOUS
      <4>1. m \in 1 .. i - 1 /\ m \in DOMAIN turns
            BY <1>1, <2>1, <2>6, <3>1
      <4>2. m \in O
            BY <1>1, <3>3, <4>1, OldestIsDownClosed
      <4> QED BY <2>1, <4>2
    <3>5. m # j
          BY <2>1, <3>3
    <3>6. \A k \in m .. i : k \in j + 1 .. i
          BY <1>1, <2>1, <3>1, <3>4, <3>5
    <3>7. i \in lead
          BY <1>1, <2>1, <2>3, <3>1, <3>2, <3>6
    <3> QED BY <2>2, <3>7
  <2>7. Safe(I, turns)
        BY <2>5, <2>6 DEF Safe
  <2> QED BY <1>3, <2>7 DEF I
<1> QED BY <1>4, <1>5

(* cap_transcript                                                          *)
LEMMA CapIsSafe ==
    ASSUME NEW n \in Nat, NEW turns, Sound(turns, n)
    PROVE  SafePart(cap_transcript(turns), turns)
<1>1. turns \in Seq(ChatMessage) /\ Len(turns) \in Nat
      BY DEF Sound
<1>2. CASE Len(turns) <= MaxTurns
      BY <1>1, <1>2, WholeIsSafe DEF cap_transcript
<1>3. CASE Len(turns) > MaxTurns
  <2>1. keep(turns) \in SUBSET DOMAIN turns /\ Safe(keep(turns), turns)
        BY <1>3, KeepIsSafe
  <2>2. cap_transcript(turns) = Retain(turns, keep(turns))
        BY <1>1, <1>3, BoundsAssumption DEF cap_transcript
  <2>3. PICK f : Picks(f, keep(turns), Retain(turns, keep(turns)), turns)
        BY <1>1, <2>1, RetainPicks
  <2> QED BY <2>1, <2>2, <2>3 DEF SafePart
<1> QED BY <1>1, <1>2, <1>3, BoundsAssumption

(* LeadingTools is a run from its start, which nothing extends.            *)
LEMMA LeadingIsRun ==
    ASSUME NEW turns \in Seq(ChatMessage), NEW c \in 1 .. Len(turns) + 1
    PROVE  \E e \in c .. Len(turns) + 1 :
              /\ c + Cardinality(LeadingTools(turns, c)) = e
              /\ \A k \in c .. e - 1 : turns[k].role = "tool"
              /\ e <= Len(turns) => turns[e].role # "tool"
<1> DEFINE L == Len(turns)
           S == {i \in c .. L + 1 : i <= L => turns[i].role # "tool"}
<1>1. L \in Nat /\ c \in 1 .. L + 1
      OBVIOUS
<1>2. S \in SUBSET Nat /\ L + 1 \in S
      BY <1>1
<1>3. PICK e \in S : \A k \in S : e <= k
      BY <1>2, Least
<1>4. e \in c .. L + 1 /\ (e <= L => turns[e].role # "tool")
      BY <1>3
<1>5. ASSUME NEW k \in c .. e - 1 PROVE turns[k].role = "tool"
  <2>1. k \in c .. L + 1 /\ k <= L /\ ~(e <= k)
        BY <1>1, <1>4
  <2> QED BY <1>3, <2>1
<1> HIDE DEF S, L
<1>6. LeadingTools(turns, c) = c .. e - 1
  <2>1. ASSUME NEW i \in c .. e - 1 PROVE i \in LeadingTools(turns, c)
    <3>1. i \in c .. L /\ \A j \in c .. i : j \in c .. e - 1
          BY <1>1, <1>4
    <3> QED BY <1>5, <3>1 DEF LeadingTools, L
  <2>2. ASSUME NEW i \in LeadingTools(turns, c) PROVE i \in c .. e - 1
    <3>1. i \in c .. L /\ \A j \in c .. i : turns[j].role = "tool"
          BY DEF LeadingTools, L
    <3>2. ~(e <= i)
      <4> SUFFICES ASSUME e <= i PROVE FALSE
          OBVIOUS
      <4>1. e \in c .. i /\ e <= L
            BY <1>1, <1>4, <3>1
      <4> QED BY <1>4, <3>1, <4>1
    <3> QED BY <1>1, <1>4, <3>1, <3>2
  <2> QED BY <2>1, <2>2
<1>7. Cardinality(LeadingTools(turns, c)) = e - c
  <2>1. c \in Int /\ e - 1 \in Int
        BY <1>1, <1>4
  <2>2. Cardinality(c .. e - 1) = IF c > e - 1 THEN 0 ELSE (e - 1) - c + 1
        BY <2>1, FS_Interval
  <2> QED BY <1>1, <1>4, <1>6, <2>2
<1> QED BY <1>1, <1>4, <1>5, <1>7 DEF L

(* The cutoff of the budget: at or before every pinned row.                *)
LEMMA CutoffPlace ==
    ASSUME NEW turns \in Seq(ChatMessage)
    PROVE  /\ cutoff(turns) \in 1 .. Len(turns) + 1
           /\ \A i \in DOMAIN turns : turns[i].pinned => cutoff(turns) <= i
           /\ turns # <<>> /\ turns[Len(turns)].size <= Budget =>
                 cutoff(turns) <= Len(turns)
<1> DEFINE L == Len(turns)
           end == L + 1
           F == {i \in 1 .. end : SizeOfLast(turns, end - i) <= Budget}
           fits == Min(F)
           P == {i \in 1 .. fits - 1 : turns[i].pinned}
<1>1. L \in Nat /\ DOMAIN turns = 1 .. L /\ F \in SUBSET Nat
      OBVIOUS
<1>2. SizeOfLast(turns, 0) = 0 /\ (turns # <<>> => SizeOfLast(turns, 1) = turns[L].size)
      BY Sizes
<1>3. end \in F
  <2>1. end - end = 0 /\ end \in 1 .. end
        BY <1>1
  <2> QED BY <1>2, <2>1, BoundsAssumption
<1>4. fits \in F /\ \A k \in F : fits <= k
  <2> HIDE DEF F
  <2> QED BY <1>1, <1>3, MinIsLeast
<1>5. fits \in 1 .. L + 1
      BY <1>4
<1>6. turns # <<>> /\ turns[L].size <= Budget => fits <= L
  <2> SUFFICES ASSUME turns # <<>>, turns[L].size <= Budget PROVE fits <= L
      OBVIOUS
  <2>1. L \in 1 .. end /\ end - L = 1
        BY <1>1
  <2>2. L \in F
        BY <1>2, <2>1
  <2> QED BY <1>4, <2>2
<1>7. cutoff(turns) = Min({fits} \cup P)
      BY DEF cutoff
<1> HIDE DEF fits
<1>8. ({fits} \cup P) \in SUBSET Nat /\ fits \in {fits} \cup P
      BY <1>1, <1>5
<1>9. cutoff(turns) \in {fits} \cup P /\ \A k \in {fits} \cup P : cutoff(turns) <= k
  <2> HIDE DEF P
  <2> QED BY <1>7, <1>8, MinIsLeast
<1>10. cutoff(turns) \in 1 .. fits
       BY <1>5, <1>9
<1>11. ASSUME NEW i \in DOMAIN turns, turns[i].pinned PROVE cutoff(turns) <= i
  <2>1. CASE i < fits
        BY <1>1, <1>5, <1>9, <1>11, <2>1
  <2>2. CASE i >= fits
        BY <1>1, <1>5, <1>10, <2>2
  <2> QED BY <1>1, <1>5, <2>1, <2>2
<1> HIDE DEF P
<1> QED BY <1>1, <1>5, <1>6, <1>10, <1>11

(* trim_to_budget                                                          *)
LEMMA TrimIsSafe ==
    ASSUME NEW n \in Nat, NEW turns, Sound(turns, n)
    PROVE  SafePart(trim_to_budget(turns), turns)
<1> DEFINE L == Len(turns)
           cut == cutoff(turns)
<1>1. turns \in Seq(ChatMessage) /\ L \in Nat /\ DOMAIN turns = 1 .. L
      BY DEF Sound
<1>2. CASE cut = 1
      BY <1>1, <1>2, WholeIsSafe DEF trim_to_budget
<1>3. CASE cut # 1
  <2>1. cut \in 1 .. L + 1 /\ \A i \in DOMAIN turns : turns[i].pinned => cut <= i
        BY <1>1, CutoffPlace
  <2> HIDE DEF cut
  <2>2. PICK c \in cut .. L + 1 :
              /\ cut + Cardinality(LeadingTools(turns, cut)) = c
              /\ \A k \in cut .. c - 1 : turns[k].role = "tool"
              /\ c <= L => turns[c].role # "tool"
        BY <1>1, <2>1, LeadingIsRun
  <2>3. trim_to_budget(turns) = From(turns, c)
        BY <1>3, <2>2 DEF trim_to_budget, cut
  <2>4. c \in 1 .. L + 1
        BY <1>1, <2>1, <2>2
  <2>5. PICK f : Picks(f, c .. L, From(turns, c), turns)
        BY <1>1, <2>4, SuffixPicks
  <2>6. ASSUME NEW i \in DOMAIN turns, turns[i].pinned PROVE i \in c .. L
    <3>1. turns[i].role # "tool" /\ cut <= i
          BY <2>1, <2>6 DEF Sound, PinsAreTurns
    <3> QED BY <1>1, <2>1, <2>2, <2>4, <3>1
  <2>7. ASSUME NEW i \in c .. L, NEW j \in DOMAIN turns \ (c .. L),
               j < i, turns[i].role = "tool", turns[j].id = turns[i].of
        PROVE  FALSE
    <3>1. i \in DOMAIN turns /\ j \in DOMAIN turns /\ j < c
          BY <1>1, <2>4
    <3>2. \A k \in j + 1 .. i : turns[k].role = "tool"
          BY <2>7, <3>1 DEF Sound, Contiguous
    <3>3. c \in j + 1 .. i /\ c <= L
          BY <1>1, <2>4, <3>1
    <3> QED BY <2>2, <3>2, <3>3
  <2>8. Safe(c .. L, turns)
        BY <2>6, <2>7 DEF Safe
  <2> QED BY <2>3, <2>5, <2>8 DEF SafePart
<1> QED BY <1>2, <1>3

-----------------------------------------------------------------------------
(* The newest row stays the newest.                                        *)
LastKept(s, turns) == s # <<>> /\ s[Len(s)] = turns[Len(turns)]

(* A part that contains the newest row ends with it.                       *)
LEMMA LastPicked ==
    ASSUME NEW turns, NEW I, NEW f, NEW s, Picks(f, I, s, turns), Len(turns) \in I
    PROVE  LastKept(s, turns)
<1>1. /\ Len(s) \in Nat /\ Len(turns) \in Nat /\ s \in Seq(ChatMessage)
      /\ DOMAIN turns = 1 .. Len(turns)
      BY DEF Picks
<1>2. PICK k \in 1 .. Len(s) : f[k] = Len(turns)
      BY DEF Picks
<1>3. Len(s) \in 1 .. Len(s)
      BY <1>1, <1>2
<1>4. f[Len(s)] \in DOMAIN turns
      BY <1>3 DEF Picks
<1>5. ~(k < Len(s))
  <2> SUFFICES ASSUME k < Len(s) PROVE FALSE
      OBVIOUS
  <2>1. f[k] < f[Len(s)]
        BY <1>3 DEF Picks
  <2> QED BY <1>1, <1>2, <1>4, <2>1
<1>6. k = Len(s)
      BY <1>1, <1>2, <1>5
<1>7. s[k] = turns[f[k]]
      BY DEF Picks
<1>8. s # <<>>
      BY <1>1, <1>3
<1> QED BY <1>2, <1>6, <1>7, <1>8 DEF LastKept

(* The pinned rows of a transcript.                                        *)
PinnedIn(turns) == {i \in DOMAIN turns : turns[i].pinned}

(* Rows that few unpinned rows follow are not the oldest.                  *)
LEMMA YoungIsKept ==
    ASSUME NEW turns \in Seq(ChatMessage), Len(turns) > MaxTurns,
           NEW i \in DOMAIN turns, \A p \in PinnedIn(turns) : p < i,
           Len(turns) - i + Cardinality(PinnedIn(turns)) < MaxTurns
    PROVE  i \notin OldestUnpinned(turns, Len(turns) - MaxTurns)
<1> DEFINE L == Len(turns)
           P == PinnedIn(turns)
           U == {k \in DOMAIN turns : ~turns[k].pinned}
           B == {k \in U : k < i}
<1>1. L \in Nat /\ DOMAIN turns = 1 .. L /\ i \in 1 .. L /\ MaxTurns \in Nat
      BY BoundsAssumption
<1>2. P \subseteq 1 .. i - 1
      BY <1>1 DEF PinnedIn
<1>3. B = (1 .. i - 1) \ P
  <2>1. \A k \in 1 .. i - 1 : k \in DOMAIN turns /\ k < i
        BY <1>1
  <2>2. \A k \in DOMAIN turns : k < i => k \in 1 .. i - 1
        BY <1>1
  <2> QED BY <2>1, <2>2 DEF PinnedIn
<1>4. /\ IsFiniteSet(1 .. i - 1) /\ Cardinality(1 .. i - 1) = i - 1
      /\ IsFiniteSet(P) /\ Cardinality(P) \in Nat
  <2>a. 1 \in Int /\ i - 1 \in Int
        BY <1>1
  <2>b. /\ IsFiniteSet(1 .. i - 1)
        /\ Cardinality(1 .. i - 1) = IF 1 > i - 1 THEN 0 ELSE (i - 1) - 1 + 1
        BY <2>a, FS_Interval, Zenon
  <2>1. IsFiniteSet(1 .. i - 1) /\ Cardinality(1 .. i - 1) = i - 1
        BY <1>1, <2>b
  <2>2. IsFiniteSet(P) /\ Cardinality(P) \in Nat
        BY <1>2, <2>1, FS_Subset, FS_CardinalityType
  <2> HIDE DEF P
  <2> QED BY <1>1, <2>1, <2>2
<1>5. Cardinality(B) = i - 1 - Cardinality(P)
  <2>1. (1 .. i - 1) \cap P = P
        BY <1>2
  <2>2. Cardinality((1 .. i - 1) \ P) = Cardinality(1 .. i - 1) - Cardinality((1 .. i - 1) \cap P)
        BY <1>4, FS_Difference
  <2> HIDE DEF P, B
  <2> QED BY <1>3, <1>4, <2>1, <2>2
<1>6. ~(Cardinality(B) < L - MaxTurns)
  <2> HIDE DEF P, B
  <2>1. L - i + Cardinality(P) < MaxTurns
        BY DEF P
  <2> QED BY <1>1, <1>4, <1>5, <2>1
<1> QED BY <1>6 DEF OldestUnpinned

(* A cap keeps the row it was run for: pins do not fill the transcript,    *)
(* and the newest rows are results of one round or a single row.           *)
LEMMA CapKeepsLast ==
    ASSUME NEW n \in Nat, NEW turns, Sound(turns, n),
           NEW d \in DOMAIN turns, turns[d].role # "tool",
           \A p \in PinnedIn(turns) : p < d,
           Len(turns) - d < MaxTurns, Cardinality(PinnedIn(turns)) < MaxTurns
    PROVE  LastKept(cap_transcript(turns), turns)
<1> DEFINE L == Len(turns)
           O == OldestUnpinned(turns, L - MaxTurns)
           K == DOMAIN turns \ O
           m == Min(K)
<1>1. /\ turns \in Seq(ChatMessage) /\ L \in Nat /\ DOMAIN turns = 1 .. L
      /\ MaxTurns \in Nat /\ d \in 1 .. L /\ L \in DOMAIN turns /\ turns # <<>>
      BY BoundsAssumption DEF Sound
<1>2. CASE L <= MaxTurns
      BY <1>1, <1>2 DEF cap_transcript, LastKept
<1>3. CASE L > MaxTurns
  <2>1. \A p \in PinnedIn(turns) : p \in 1 .. L /\ p < L
        BY <1>1 DEF PinnedIn
  <2>2. IsFiniteSet(PinnedIn(turns)) /\ Cardinality(PinnedIn(turns)) \in Nat
    <3>1. IsFiniteSet(1 .. L)
          BY <1>1, FS_Interval
    <3>2. PinnedIn(turns) \subseteq 1 .. L
          BY <2>1
    <3> QED BY <3>1, <3>2, FS_Subset, FS_CardinalityType
  <2>3. L \in K
    <3>1. L - L + Cardinality(PinnedIn(turns)) < MaxTurns
          BY <1>1, <2>2
    <3> QED BY <1>1, <1>3, <2>1, <3>1, YoungIsKept
  <2>4. PICK e \in K : turns[e].role # "tool"
    <3>1. CASE PinnedIn(turns) = {}
      <4>1. Cardinality(PinnedIn(turns)) = 0
            BY <3>1, FS_EmptySet
      <4>2. L - d + Cardinality(PinnedIn(turns)) < MaxTurns
            BY <1>1, <4>1
      <4>3. d \in K
            BY <1>1, <1>3, <4>2, YoungIsKept
      <4> QED BY <4>3
    <3>2. CASE PinnedIn(turns) # {}
      <4>1. PICK p \in PinnedIn(turns) : TRUE
            BY <3>2
      <4>2. p \in DOMAIN turns /\ turns[p].pinned
            BY DEF PinnedIn
      <4>3. p \in K
            BY <4>2 DEF OldestUnpinned
      <4> QED BY <4>2, <4>3 DEF Sound, PinsAreTurns
    <3> QED BY <3>1, <3>2
  <2>5. m \in Nat /\ m <= e /\ e \in 1 .. L
    <3>1. K \in SUBSET Nat /\ K # {} /\ e \in 1 .. L
          BY <1>1, <2>3
    <3> HIDE DEF K
    <3>2. m \in K /\ m <= e
          BY <3>1, MinIsLeast
    <3> QED BY <3>1, <3>2
  <2>6. L \notin LeadingTools(turns, m)
    <3> HIDE DEF m
    <3>1. e \in m .. L
          BY <1>1, <2>5
    <3> QED BY <2>4, <3>1 DEF LeadingTools
  <2>7. L \in keep(turns)
        BY <2>3, <2>6 DEF keep
  <2>8. keep(turns) \in SUBSET DOMAIN turns
        BY <1>3, KeepIsSafe
  <2>9. cap_transcript(turns) = Retain(turns, keep(turns))
        BY <1>1, <1>3 DEF cap_transcript
  <2>10. PICK f : Picks(f, keep(turns), Retain(turns, keep(turns)), turns)
        BY <1>1, <2>8, RetainPicks
  <2> QED BY <2>7, <2>9, <2>10, LastPicked
<1> QED BY <1>1, <1>2, <1>3

(* trim_to_budget keeps a turn that fits.                                  *)
LEMMA TrimKeepsLast ==
    ASSUME NEW turns \in Seq(ChatMessage), turns # <<>>,
           turns[Len(turns)].role # "tool", turns[Len(turns)].size <= Budget
    PROVE  LastKept(trim_to_budget(turns), turns)
<1> DEFINE L == Len(turns)
           cut == cutoff(turns)
<1>1. L \in Nat /\ L \in 1 .. L
      OBVIOUS
<1>2. cut \in 1 .. L + 1 /\ cut <= L
      BY CutoffPlace
<1>3. CASE cut = 1
      BY <1>3 DEF trim_to_budget, LastKept
<1>4. CASE cut # 1
  <2> HIDE DEF cut
  <2>1. PICK c \in cut .. L + 1 :
              /\ cut + Cardinality(LeadingTools(turns, cut)) = c
              /\ \A k \in cut .. c - 1 : turns[k].role = "tool"
        BY <1>2, LeadingIsRun
  <2>2. trim_to_budget(turns) = From(turns, c)
        BY <1>4, <2>1 DEF trim_to_budget, cut
  <2>3. c \in 1 .. L + 1 /\ L \in c .. L
    <3>1. L \notin cut .. c - 1
          BY <2>1
    <3> QED BY <1>1, <1>2, <2>1, <3>1
  <2>4. PICK f : Picks(f, c .. L, From(turns, c), turns)
        BY <2>3, SuffixPicks
  <2> QED BY <2>2, <2>3, <2>4, LastPicked
<1> QED BY <1>3, <1>4

-----------------------------------------------------------------------------
(* s is `turns' with m rows of the ids n + 1 .. n + m at its end, none     *)
(* pinned; its tool results answer a call row that comes first.            *)
Grown(s, turns, n, m) ==
    /\ s \in Seq(ChatMessage) /\ Len(s) = Len(turns) + m
    /\ \A i \in DOMAIN turns : s[i] = turns[i]
    /\ \A k \in 1 .. m :
          /\ s[Len(turns) + k].id = n + k /\ s[Len(turns) + k].of \in 0 .. n + m
          /\ ~s[Len(turns) + k].pinned
          /\ s[Len(turns) + k].role = "tool" =>
                /\ k > 1 /\ s[Len(turns) + k].of = n + 1
                /\ s[Len(turns) + 1].role = "calls"
                /\ \A l \in 2 .. k : s[Len(turns) + l].role = "tool"

(* Growth keeps soundness, orphans none, and leaves the pins where they    *)
(* were.                                                                   *)
LEMMA GrownIsSound ==
    ASSUME NEW n \in Nat, NEW m \in Nat, NEW turns, NEW s,
           Sound(turns, n), Grown(s, turns, n, m)
    PROVE  /\ Sound(s, n + m)
           /\ PinnedIn(s) = PinnedIn(turns)
           /\ OrphanIds(s) \subseteq OrphanIds(turns)
<1> DEFINE L == Len(turns)
<1>1. /\ L \in Nat /\ DOMAIN turns = 1 .. L /\ turns \in Seq(ChatMessage)
      /\ s \in Seq(ChatMessage) /\ DOMAIN s = 1 .. L + m
      BY DEF Sound, Grown
<1>2. ASSUME NEW i \in DOMAIN s
      PROVE  \/ i \in DOMAIN turns /\ s[i] = turns[i]
             \/ i > L /\ i - L \in 1 .. m /\ L + (i - L) = i
      BY <1>1 DEF Grown
<1>3. ASSUME NEW i \in DOMAIN s, i > L
      PROVE  /\ s[i].id = n + (i - L) /\ s[i].of \in 0 .. n + m /\ ~s[i].pinned
             /\ s[i].role = "tool" =>
                   /\ i > L + 1 /\ s[i].of = n + 1 /\ s[L + 1].role = "calls"
                   /\ \A k \in L + 2 .. i : s[k].role = "tool"
  <2> DEFINE k == i - L
  <2>1. k \in 1 .. m /\ L + k = i
        BY <1>1, <1>3
  <2>2. /\ s[i].id = n + k /\ s[i].of \in 0 .. n + m /\ ~s[i].pinned
        /\ s[i].role = "tool" =>
              /\ k > 1 /\ s[i].of = n + 1 /\ s[L + 1].role = "calls"
              /\ \A l \in 2 .. k : s[L + l].role = "tool"
        BY <2>1 DEF Grown
  <2>3. ASSUME s[i].role = "tool", NEW l \in L + 2 .. i PROVE s[l].role = "tool"
    <3>1. l - L \in 2 .. k /\ L + (l - L) = l
          BY <1>1, <2>1
    <3> QED BY <2>2, <2>3, <3>1
  <2> QED BY <1>1, <2>1, <2>2, <2>3
<1>4. \A i \in DOMAIN turns : /\ i \in DOMAIN s /\ s[i] = turns[i]
                              /\ turns[i].id \in 1 .. n /\ turns[i].of \in 0 .. n
      BY <1>1 DEF Grown, Sound, Named
<1>5. Named(s, n + m)
  <2> SUFFICES ASSUME NEW i \in DOMAIN s
               PROVE  s[i].id \in 1 .. n + m /\ s[i].of \in 0 .. n + m
      BY DEF Named
  <2>1. CASE i \in DOMAIN turns
        BY <1>4, <2>1
  <2>2. CASE i > L
        BY <1>1, <1>3, <2>2
  <2> QED BY <1>2, <2>1, <2>2
<1>6. Unique(s)
  <2> SUFFICES ASSUME NEW i \in DOMAIN s, NEW j \in DOMAIN s, s[i].id = s[j].id
               PROVE  i = j
      BY DEF Unique
  <2>1. CASE i \in DOMAIN turns /\ j \in DOMAIN turns
        BY <1>4, <2>1 DEF Sound, Unique
  <2>2. CASE i \in DOMAIN turns /\ j > L
        BY <1>1, <1>3, <1>4, <2>2
  <2>3. CASE i > L /\ j \in DOMAIN turns
        BY <1>1, <1>3, <1>4, <2>3
  <2>4. CASE i > L /\ j > L
        BY <1>1, <1>3, <2>4
  <2> QED BY <1>2, <2>1, <2>2, <2>3, <2>4
<1>7. \A i \in DOMAIN s : s[i].pinned => i \in DOMAIN turns
      BY <1>2, <1>3
<1>8. PinnedIn(s) = PinnedIn(turns)
      BY <1>4, <1>7 DEF PinnedIn
<1>9. PinsAreTurns(s)
      BY <1>4, <1>7 DEF PinsAreTurns, Sound
<1>10. Contiguous(s)
  <2> SUFFICES ASSUME NEW i \in DOMAIN s, NEW j \in DOMAIN s,
                      j < i, s[i].role = "tool", s[j].id = s[i].of
               PROVE  s[j].role = "calls" /\ \A k \in j + 1 .. i : s[k].role = "tool"
      BY DEF Contiguous
  <2>1. CASE i \in DOMAIN turns
    <3>1. j \in DOMAIN turns
          BY <1>1, <2>1
    <3>2. turns[j].role = "calls" /\ \A k \in j + 1 .. i : turns[k].role = "tool"
          BY <1>4, <2>1, <3>1 DEF Sound, Contiguous
    <3>3. \A k \in j + 1 .. i : k \in DOMAIN turns
          BY <1>1, <2>1, <3>1
    <3> QED BY <1>4, <3>1, <3>2, <3>3
  <2>2. CASE i > L
    <3>1. /\ i > L + 1 /\ s[i].of = n + 1 /\ s[L + 1].role = "calls"
          /\ \A k \in L + 2 .. i : s[k].role = "tool"
          BY <1>3, <2>2
    <3>2. j = L + 1
      <4>1. j \notin DOMAIN turns
        <5> SUFFICES ASSUME j \in DOMAIN turns PROVE FALSE
            OBVIOUS
        <5>1. s[j].id \in 1 .. n /\ s[j].id = n + 1
              BY <1>4, <3>1
        <5> QED BY <5>1
      <4>2. j > L /\ s[j].id = n + (j - L)
            BY <1>2, <1>3, <4>1
      <4> QED BY <1>1, <3>1, <4>2
    <3>3. j + 1 = L + 2
          BY <1>1, <3>2
    <3> QED BY <3>1, <3>2, <3>3
  <2> QED BY <1>2, <2>1, <2>2
<1>11. ASSUME NEW i \in DOMAIN s, Orphan(s, i)
       PROVE  i \in DOMAIN turns /\ Orphan(turns, i) /\ s[i] = turns[i]
  <2>1. ~(i > L)
    <3> SUFFICES ASSUME i > L PROVE FALSE
        OBVIOUS
    <3>1. i > L + 1 /\ s[i].of = n + 1
          BY <1>3, <1>11 DEF Orphan
    <3>2. L + 1 \in 1 .. i - 1 /\ L + 1 \in DOMAIN s /\ L + 1 > L
          BY <1>1, <3>1
    <3>3. s[L + 1].id = n + ((L + 1) - L)
          BY <1>3, <3>2
    <3>4. s[L + 1].id = n + 1
          BY <1>1, <3>3
    <3> QED BY <1>11, <3>1, <3>2, <3>4 DEF Orphan
  <2>2. i \in DOMAIN turns
        BY <1>2, <2>1
  <2>3. \A j \in 1 .. i - 1 : j \in DOMAIN turns
        BY <1>1, <2>2
  <2> QED BY <1>4, <1>11, <2>2, <2>3 DEF Orphan
<1>12. OrphanIds(s) \subseteq OrphanIds(turns)
       BY <1>11 DEF OrphanIds
<1> HIDE DEF L
<1> QED BY <1>1, <1>5, <1>6, <1>8, <1>9, <1>10, <1>12 DEF Sound

(* A turn, a text or a notice is appended.                                 *)
LEMMA RowGrows ==
    ASSUME NEW n \in Nat, NEW turns \in Seq(ChatMessage), NEW size \in Nat,
           NEW role \in {"user", "text", "note"}
    PROVE  LET s == Append(turns, Row(n + 1, role, 0, size))
           IN  /\ Grown(s, turns, n, 1) /\ Len(s) = Len(turns) + 1
               /\ s[Len(s)] = Row(n + 1, role, 0, size)
<1> DEFINE r == Row(n + 1, role, 0, size)
           s == Append(turns, r)
<1>1. /\ r \in ChatMessage /\ r.id = n + 1 /\ r.of = 0 /\ r.role = role
      /\ ~r.pinned /\ r.role # "tool"
      BY DEF Row, ChatMessage, Roles
<1> HIDE DEF r
<1>2. /\ s \in Seq(ChatMessage) /\ Len(s) = Len(turns) + 1 /\ Len(turns) \in Nat
      /\ \A i \in DOMAIN turns : s[i] = turns[i]
      /\ s[Len(turns) + 1] = r
      BY <1>1
<1> HIDE DEF s
<1>3. \A k \in 1 .. 1 : k = 1
      OBVIOUS
<1>4. Grown(s, turns, n, 1)
      BY <1>1, <1>2, <1>3 DEF Grown
<1> QED BY <1>2, <1>4 DEF s, r

(* Where the rows of a concatenation are.                                  *)
LEMMA Concatenation ==
    ASSUME NEW S, NEW a \in Seq(S), NEW b \in Seq(S)
    PROVE  /\ a \o b \in Seq(S) /\ Len(a \o b) = Len(a) + Len(b)
           /\ \A i \in 1 .. Len(a) : (a \o b)[i] = a[i]
           /\ \A i \in 1 .. Len(b) : (a \o b)[Len(a) + i] = b[i]
OBVIOUS

(* A tool round is appended.                                               *)
LEMMA RoundGrows ==
    ASSUME NEW n \in Nat, NEW turns \in Seq(ChatMessage), NEW m \in Nat
    PROVE  LET s == turns \o Round(n + 1, m)
           IN  /\ Grown(s, turns, n, m + 1)
               /\ s[Len(turns) + 1].role = "calls" /\ s[Len(s)].id = n + m + 1
<1> DEFINE L == Len(turns)
           a == <<Row(n + 1, "calls", 0, RowSize)>>
           b == [k \in 1 .. m |-> Row(n + 1 + k, "tool", n + 1, RowSize)]
           r == Round(n + 1, m)
           s == turns \o r
<1>1. RowSize \in Nat /\ L \in Nat
      BY BoundsAssumption
<1>2. a \in Seq(ChatMessage) /\ Len(a) = 1 /\ a[1] = Row(n + 1, "calls", 0, RowSize)
      BY <1>1 DEF Row, ChatMessage, Roles
<1>3. b \in Seq(ChatMessage) /\ Len(b) = m
  <2>1. \A k \in 1 .. m : Row(n + 1 + k, "tool", n + 1, RowSize) \in ChatMessage
        BY <1>1 DEF Row, ChatMessage, Roles
  <2> QED BY <2>1
<1>4. \A k \in 1 .. m : b[k] = Row(n + 1 + k, "tool", n + 1, RowSize)
      OBVIOUS
<1>5. r = a \o b
      BY DEF Round
<1> HIDE DEF a, b, r
<1>6. /\ r \in Seq(ChatMessage) /\ Len(r) = 1 + m /\ r[1] = a[1]
      /\ \A k \in 2 .. m + 1 : r[k] = b[k - 1]
  <2>a. a \in Seq(ChatMessage) /\ b \in Seq(ChatMessage)
        BY <1>2, <1>3
  <2>b. /\ a \o b \in Seq(ChatMessage) /\ Len(a \o b) = Len(a) + Len(b)
        /\ \A i \in 1 .. Len(a) : (a \o b)[i] = a[i]
        /\ \A i \in 1 .. Len(b) : (a \o b)[Len(a) + i] = b[i]
        BY <2>a, Concatenation
  <2>1. /\ r \in Seq(ChatMessage) /\ Len(r) = Len(a) + Len(b)
        /\ \A i \in 1 .. Len(a) : r[i] = a[i]
        /\ \A i \in 1 .. Len(b) : r[Len(a) + i] = b[i]
        BY <1>5, <2>b, Zenon
  <2>2. ASSUME NEW k \in 2 .. m + 1 PROVE r[k] = b[k - 1]
    <3>1. k - 1 \in 1 .. Len(b) /\ Len(a) + (k - 1) = k
          BY <1>2, <1>3
    <3> QED BY <2>1, <3>1
  <2>3. r[1] = a[1] /\ Len(r) = 1 + m
        BY <1>2, <1>3, <2>1
  <2> QED BY <2>1, <2>2, <2>3
<1>7. /\ s \in Seq(ChatMessage) /\ Len(s) = L + (m + 1)
      /\ \A i \in DOMAIN turns : s[i] = turns[i]
      /\ \A k \in 1 .. m + 1 : s[L + k] = r[k]
  <2>1. /\ s \in Seq(ChatMessage) /\ Len(s) = Len(turns) + Len(r)
        /\ \A i \in 1 .. Len(turns) : s[i] = turns[i]
        /\ \A k \in 1 .. Len(r) : s[Len(turns) + k] = r[k]
    <3>a. r \in Seq(ChatMessage) /\ turns \in Seq(ChatMessage)
          BY <1>6
    <3>1. /\ turns \o r \in Seq(ChatMessage) /\ Len(turns \o r) = Len(turns) + Len(r)
          /\ \A i \in 1 .. Len(turns) : (turns \o r)[i] = turns[i]
          /\ \A i \in 1 .. Len(r) : (turns \o r)[Len(turns) + i] = r[i]
          BY <3>a, Concatenation
    <3> QED BY <3>1
  <2>2. Len(r) = m + 1 /\ DOMAIN turns = 1 .. Len(turns)
        BY <1>6
  <2> QED BY <2>1, <2>2
<1> HIDE DEF s
<1>8. /\ r[1].id = n + 1 /\ r[1].of = 0 /\ r[1].role = "calls" /\ ~r[1].pinned
      BY <1>2, <1>6 DEF Row
<1>9. ASSUME NEW k \in 2 .. m + 1
      PROVE  r[k].id = n + k /\ r[k].of = n + 1 /\ r[k].role = "tool" /\ ~r[k].pinned
  <2>1. k - 1 \in 1 .. m /\ n + 1 + (k - 1) = n + k
        OBVIOUS
  <2>2. r[k] = Row(n + k, "tool", n + 1, RowSize)
        BY <1>4, <1>6, <2>1
  <2> QED BY <2>2 DEF Row
<1>10. ASSUME NEW k \in 1 .. m + 1
       PROVE  /\ s[L + k].id = n + k /\ s[L + k].of \in 0 .. n + (m + 1)
              /\ ~s[L + k].pinned
              /\ s[L + k].role = "tool" =>
                    /\ k > 1 /\ s[L + k].of = n + 1 /\ s[L + 1].role = "calls"
                    /\ \A l \in 2 .. k : s[L + l].role = "tool"
  <2>1. 1 \in 1 .. m + 1 /\ s[L + 1] = r[1] /\ s[L + k] = r[k]
        BY <1>7
  <2>2. CASE k = 1
        BY <1>8, <2>1, <2>2
  <2>3. CASE k # 1
    <3>1. k \in 2 .. m + 1 /\ \A l \in 2 .. k : l \in 2 .. m + 1 /\ l \in 1 .. m + 1
          BY <2>3
    <3>2. \A l \in 2 .. k : s[L + l].role = "tool"
          BY <1>7, <1>9, <3>1
    <3>3. n + 1 \in 0 .. n + (m + 1)
          OBVIOUS
    <3> QED BY <1>8, <1>9, <2>1, <3>1, <3>2, <3>3
  <2> QED BY <2>2, <2>3
<1>11. Grown(s, turns, n, m + 1)
       BY <1>7, <1>10 DEF Grown, L
<1>12. s[L + 1].role = "calls"
  <2>1. 1 \in 1 .. m + 1
        OBVIOUS
  <2> QED BY <1>7, <1>8, <2>1
<1>13. s[Len(s)].id = n + m + 1
  <2>1. m + 1 \in 1 .. m + 1 /\ n + (m + 1) = n + m + 1
        OBVIOUS
  <2> QED BY <1>7, <1>10, <2>1
<1> QED BY <1>11, <1>12, <1>13 DEF s, r

-----------------------------------------------------------------------------
(* A transcript h became t: results lost their calls only behind a pinned  *)
(* row ...                                                                 *)
PairsFrom(h, t) ==
    \A i \in DOMAIN t : Orphan(t, i) =>
        t[i].id \in OrphanIds(h) \/ \E j \in 1 .. i - 1 : t[j].pinned
(* ... and the pinned rows of h are still in t.                            *)
PinsFrom(h, t) == \A i \in PinnedIn(h) : \E j \in DOMAIN t : t[j].id = h[i].id

(* The rows of t that are not newer than n are rows of h, in their roles,  *)
(* and the engine's own ones with their pins.                              *)
OldRows(h, t, n) ==
    \A j \in DOMAIN t : \/ t[j].id > n
                       \/ \E i \in DOMAIN h : /\ h[i].id = t[j].id /\ h[i].role = t[j].role
                                              /\ h[i].role = "note" => h[i].pinned = t[j].pinned

(* Rows were added and a safe part of that kept.                           *)
LEMMA AddAndShorten ==
    ASSUME NEW n \in Nat, NEW m \in Nat, NEW h, NEW s, NEW t,
           Sound(h, n), Grown(s, h, n, m), SafePart(t, s)
    PROVE  Sound(t, n + m) /\ PairsFrom(h, t) /\ PinsFrom(h, t) /\ OldRows(h, t, n)
<1>1. /\ Sound(s, n + m) /\ PinnedIn(s) = PinnedIn(h)
      /\ OrphanIds(s) \subseteq OrphanIds(h)
      BY GrownIsSound
<1>2. n + m \in Nat
      OBVIOUS
<1>3. /\ Sound(t, n + m)
      /\ \A i \in DOMAIN s : s[i].pinned => \E k \in DOMAIN t : t[k] = s[i]
      /\ \A k \in DOMAIN t : Orphan(t, k) =>
            t[k].id \in OrphanIds(s) \/ \E l \in 1 .. k - 1 : t[l].pinned
      BY <1>1, <1>2, SafeParts
<1>4. PairsFrom(h, t)
      BY <1>1, <1>3 DEF PairsFrom
<1>5. ASSUME NEW i \in PinnedIn(h) PROVE \E j \in DOMAIN t : t[j].id = h[i].id
  <2>1. i \in DOMAIN h /\ i \in DOMAIN s /\ s[i].pinned
        BY <1>1 DEF PinnedIn
  <2>2. s[i] = h[i]
        BY <2>1 DEF Grown
  <2> QED BY <1>3, <2>1, <2>2
<1>6. ASSUME NEW j \in DOMAIN t PROVE t[j].id > n \/ \E i \in DOMAIN h : h[i] = t[j]
  <2>1. PICK f, I : Picks(f, I, t, s)
        BY DEF SafePart
  <2>2. f[j] \in DOMAIN s /\ t[j] = s[f[j]]
    <3>1. DOMAIN t = 1 .. Len(t)
          BY <2>1 DEF Picks
    <3> QED BY <2>1, <3>1 DEF Picks
  <2>3. /\ DOMAIN s = 1 .. Len(h) + m /\ DOMAIN h = 1 .. Len(h) /\ Len(h) \in Nat
        BY DEF Grown, Sound
  <2>4. CASE f[j] \in DOMAIN h
        BY <2>2, <2>4 DEF Grown
  <2>5. CASE f[j] \notin DOMAIN h
    <3>1. f[j] - Len(h) \in 1 .. m /\ Len(h) + (f[j] - Len(h)) = f[j]
          BY <2>2, <2>3, <2>5
    <3>2. s[f[j]].id = n + (f[j] - Len(h))
          BY <3>1 DEF Grown
    <3> QED BY <2>2, <3>1, <3>2
  <2> QED BY <2>4, <2>5
<1>7. OldRows(h, t, n)
      BY <1>6 DEF OldRows
<1> QED BY <1>3, <1>4, <1>5, <1>7 DEF PinsFrom

(* What Summarise makes of a transcript.                                   *)
Summarised(h, n, cut) == <<Summary(n + 1)>> \o From(h, cut + 1)

(* A summary is a pinned row and answers no call.                          *)
LEMMA SummaryRow ==
    ASSUME NEW n \in Nat
    PROVE  /\ Summary(n + 1) \in ChatMessage /\ Summary(n + 1).pinned
           /\ Summary(n + 1).id = n + 1 /\ Summary(n + 1).of = 0
           /\ Summary(n + 1).role = "summary"
<1>1. Summary(n + 1) \in ChatMessage
      BY BoundsAssumption DEF ChatMessage, Roles, Summary
<1>2. /\ Summary(n + 1).pinned /\ Summary(n + 1).id = n + 1
      /\ Summary(n + 1).of = 0 /\ Summary(n + 1).role = "summary"
      BY DEF Summary
<1> QED BY <1>1, <1>2

(* A transcript whose first rows a summary replaced is sound, and every    *)
(* row but the summary is one that was behind the cut.                     *)
LEMMA SummaryFirst ==
    ASSUME NEW n \in Nat, NEW h, Sound(h, n), NEW cut \in 1 .. Len(h),
           NEW t, t = Summarised(h, n, cut)
    PROVE  /\ Sound(t, n + 1) /\ Len(t) = Len(h) - cut + 1
           /\ t[1] = Summary(n + 1) /\ t[1].pinned /\ t[1].id = n + 1
           /\ t[1].role = "summary"
           /\ \A k \in 2 .. Len(t) : k + cut - 1 \in DOMAIN h /\ t[k] = h[k + cut - 1]
<1> DEFINE a == <<Summary(n + 1)>>
           s == From(h, cut + 1)
           L == Len(h)
<1>1. /\ h \in Seq(ChatMessage) /\ L \in Nat /\ DOMAIN h = 1 .. L
      /\ cut \in Nat /\ cut + 1 \in 1 .. L + 1
      BY DEF Sound
<1>2. /\ a \in Seq(ChatMessage) /\ Len(a) = 1 /\ a[1] = Summary(n + 1)
      /\ a[1].pinned /\ a[1].id = n + 1 /\ a[1].of = 0 /\ a[1].role = "summary"
  <2>1. /\ Summary(n + 1) \in ChatMessage /\ Summary(n + 1).pinned
        /\ Summary(n + 1).id = n + 1 /\ Summary(n + 1).of = 0
        /\ Summary(n + 1).role = "summary"
        BY SummaryRow
  <2> QED BY <2>1
<1>3. PICK f : Picks(f, cut + 1 .. L, s, h)
      BY <1>1, SuffixPicks
<1>4. Sound(s, n)
      BY <1>3, PartIsSound
<1>5. /\ s \in Seq(ChatMessage) /\ Len(s) = L - cut
      /\ \A k \in 1 .. Len(s) : s[k] = h[cut + k]
  <2>a. h \in Seq(ChatMessage) /\ cut + 1 \in 1 .. Len(h) + 1
        BY <1>1
  <2>1. /\ s \in Seq(ChatMessage) /\ Len(s) = Len(h) + 1 - (cut + 1)
        /\ \A k \in 1 .. Len(s) : s[k] = h[cut + 1 - 1 + k]
        BY <2>a, SuffixRows
  <2>b. Len(s) = Len(h) + 1 - (cut + 1)
        BY <2>1
  <2>2. \A k \in 1 .. Len(s) : cut + 1 - 1 + k = cut + k
        BY <1>1
  <2> HIDE DEF s
  <2>c. Len(h) \in Nat /\ cut \in Nat
        BY <1>1
  <2>3. Len(s) = L - cut
    <3>1. \A x, y \in Nat : x + 1 - (y + 1) = x - y
          OBVIOUS
    <3> QED BY <2>b, <2>c, <3>1, Zenon
  <2>4. \A k \in 1 .. Len(s) : s[k] = h[cut + k]
        BY <2>1, <2>2
  <2> QED BY <2>1, <2>3, <2>4
<1> HIDE DEF a, s
<1>6. t = a \o s
      BY DEF a, s, Summarised
<1>b. /\ a \o s \in Seq(ChatMessage) /\ Len(a \o s) = Len(a) + Len(s)
      /\ \A i \in 1 .. Len(a) : (a \o s)[i] = a[i]
      /\ \A i \in 1 .. Len(s) : (a \o s)[Len(a) + i] = s[i]
  <2>1. a \in Seq(ChatMessage) /\ s \in Seq(ChatMessage)
        BY <1>2, <1>5
  <2> QED BY <2>1, Concatenation
<1>c. /\ t \in Seq(ChatMessage) /\ Len(t) = Len(a) + Len(s)
      /\ \A i \in 1 .. Len(a) : t[i] = a[i]
      /\ \A i \in 1 .. Len(s) : t[Len(a) + i] = s[i]
      BY <1>6, <1>b, Zenon
<1>7. /\ t \in Seq(ChatMessage) /\ Len(t) = L - cut + 1 /\ DOMAIN t = 1 .. Len(t)
      /\ Len(t) \in Nat
      /\ t[1] = a[1] /\ 1 \in DOMAIN t
      BY <1>1, <1>2, <1>5, <1>c
<1>8. ASSUME NEW k \in 2 .. Len(t)
      PROVE  k - 1 \in DOMAIN s /\ t[k] = s[k - 1] /\ k + cut - 1 \in DOMAIN h /\ t[k] = h[k + cut - 1]
  <2>1. k - 1 \in 1 .. Len(s) /\ Len(a) + (k - 1) = k /\ cut + (k - 1) = k + cut - 1
        BY <1>1, <1>2, <1>5, <1>7
  <2>2. DOMAIN s = 1 .. Len(s) /\ k + cut - 1 \in DOMAIN h
        BY <1>1, <1>5, <2>1
  <2> QED BY <1>5, <1>c, <2>1, <2>2
<1>9. \A k \in DOMAIN t : k = 1 \/ k \in 2 .. Len(t)
      BY <1>1, <1>7
<1>10. \A k \in 2 .. Len(t) : t[k].id \in 1 .. n /\ t[k].of \in 0 .. n
       BY <1>4, <1>8 DEF Sound, Named
<1>11. Named(t, n + 1)
  <2> SUFFICES ASSUME NEW k \in DOMAIN t
               PROVE  t[k].id \in 1 .. n + 1 /\ t[k].of \in 0 .. n + 1
      BY DEF Named
  <2>1. CASE k = 1
        BY <1>2, <1>7, <2>1
  <2>2. CASE k \in 2 .. Len(t)
        BY <1>10, <2>2
  <2> QED BY <1>9, <2>1, <2>2
<1>12. Unique(t)
  <2> SUFFICES ASSUME NEW i \in DOMAIN t, NEW j \in DOMAIN t, t[i].id = t[j].id
               PROVE  i = j
      BY DEF Unique
  <2>1. CASE i = 1 /\ j \in 2 .. Len(t)
        BY <1>2, <1>7, <1>10, <2>1
  <2>2. CASE j = 1 /\ i \in 2 .. Len(t)
        BY <1>2, <1>7, <1>10, <2>2
  <2>3. CASE i \in 2 .. Len(t) /\ j \in 2 .. Len(t)
    <3>1. i - 1 \in DOMAIN s /\ j - 1 \in DOMAIN s /\ s[i - 1].id = s[j - 1].id
          BY <1>8, <2>3
    <3>2. Unique(s)
          BY <1>4 DEF Sound
    <3>3. i - 1 = j - 1
          BY <3>1, <3>2 DEF Unique
    <3> QED BY <2>3, <3>3
  <2> QED BY <1>9, <2>1, <2>2, <2>3
<1>13. PinsAreTurns(t)
  <2> SUFFICES ASSUME NEW k \in DOMAIN t, t[k].pinned PROVE t[k].role # "tool"
      BY DEF PinsAreTurns
  <2>1. CASE k = 1
        BY <1>2, <1>7, <2>1
  <2>2. CASE k \in 2 .. Len(t)
        BY <1>4, <1>8, <2>2 DEF Sound, PinsAreTurns
  <2> QED BY <1>9, <2>1, <2>2
<1>14. Contiguous(t)
  <2> SUFFICES ASSUME NEW i \in DOMAIN t, NEW j \in DOMAIN t,
                      j < i, t[i].role = "tool", t[j].id = t[i].of
               PROVE  t[j].role = "calls" /\ \A k \in j + 1 .. i : t[k].role = "tool"
      BY DEF Contiguous
  <2>1. i \in 2 .. Len(t)
        BY <1>2, <1>7, <1>9
  <2>2. j # 1
        BY <1>2, <1>7, <1>10, <2>1
  <2>3. j \in 2 .. Len(t)
        BY <1>9, <2>2
  <2>4. j - 1 < i - 1 /\ i - 1 \in DOMAIN s /\ j - 1 \in DOMAIN s
        BY <1>8, <2>1, <2>3
  <2>5. s[j - 1].role = "calls" /\ \A k \in (j - 1) + 1 .. i - 1 : s[k].role = "tool"
    <3>1. t[i] = s[i - 1] /\ t[j] = s[j - 1] /\ Contiguous(s)
          BY <1>4, <1>8, <2>1, <2>3 DEF Sound
    <3>2. s[i - 1].role = "tool" /\ s[j - 1].id = s[i - 1].of
          BY <3>1
    <3> QED BY <2>4, <3>1, <3>2 DEF Contiguous
  <2>6. ASSUME NEW k \in j + 1 .. i PROVE t[k].role = "tool"
    <3>1. k \in 2 .. Len(t) /\ k - 1 \in (j - 1) + 1 .. i - 1
      <4>1. Len(t) \in Nat /\ i \in 2 .. Len(t) /\ j \in 2 .. Len(t) /\ k \in j + 1 .. i
            BY <1>7, <2>1, <2>3
      <4> QED BY <4>1
    <3> QED BY <1>8, <2>5, <3>1
  <2> QED BY <1>8, <2>3, <2>5, <2>6
<1>15. Sound(t, n + 1)
       BY <1>7, <1>11, <1>12, <1>13, <1>14 DEF Sound
<1> QED BY <1>2, <1>7, <1>8, <1>15

-----------------------------------------------------------------------------
(* What every operation on the transcript keeps true of its rows.          *)
RowsInv == rows \in 0 .. MaxRows /\ Sound(history, rows)

(* A turn fits the budget (MAX_TURN_CHARS against history_budget).         *)
TurnsFit == \A size \in TurnSizes : size <= Budget
(* A tool round fits the transcript (MAX_HISTORY_TURNS).                   *)
RoundsFit == MaxCalls < MaxTurns

(* What every step does to the rows it finds.                              *)
Keeps == /\ RowsInv' /\ PairsFrom(history, history')
         /\ OldRows(history, history', rows)
         /\ Compaction \/ Forgets \/ history' = <<>> \/ PinsFrom(history, history')
(* The newest row a step adds is remembered, unless pins fill the          *)
(* transcript.                                                             *)
Remembers == rows' > rows /\ Cardinality(Pinned) < MaxTurns =>
                \E j \in DOMAIN history' : history'[j].id = rows'

(* record_user_turn and record_agent_turn: append, cap, trim.              *)
LEMMA RecordTurnStep ==
    ASSUME RowsInv, NEW role \in {"user", "text"}, NEW size \in Nat,
           RecordTurn(role, size)
    PROVE  Keeps /\ (size <= Budget => Remembers)
<1> DEFINE s == Append(history, Row(rows + 1, role, 0, size))
           t == cap_transcript(s)
           u == trim_to_budget(t)
<1>1. /\ rows \in Nat /\ Sound(history, rows) /\ history \in Seq(ChatMessage)
      /\ rows' = rows + 1 /\ rows' \in 0 .. MaxRows /\ history' = u
      BY BoundsAssumption DEF RowsInv, Sound, RecordTurn, Adds
<1>2. /\ Grown(s, history, rows, 1) /\ Len(s) = Len(history) + 1
      /\ s[Len(s)] = Row(rows + 1, role, 0, size)
  <2>1. /\ rows \in Nat /\ history \in Seq(ChatMessage)
        /\ size \in Nat /\ role \in {"user", "text", "note"}
        BY <1>1
  <2> HIDE DEF t, u
  <2> QED BY <2>1, RowGrows
<1> HIDE DEF s
<1>3. Sound(s, rows + 1) /\ PinnedIn(s) = PinnedIn(history) /\ rows + 1 \in Nat
      BY <1>1, <1>2, GrownIsSound
<1>4. SafePart(t, s)
      BY <1>3, CapIsSafe
<1>5. Sound(t, rows + 1)
      BY <1>3, <1>4, SafeParts
<1>6. SafePart(u, t)
      BY <1>3, <1>5, TrimIsSafe
<1>7. SafePart(u, s)
      BY <1>4, <1>6, PartOfPart
<1>8. /\ Sound(u, rows + 1) /\ PairsFrom(history, u) /\ PinsFrom(history, u)
      /\ OldRows(history, u, rows)
      BY <1>1, <1>2, <1>7, AddAndShorten
<1>9. Keeps
  <2> HIDE DEF u
  <2> QED BY <1>1, <1>8 DEF Keeps, RowsInv
<1>10. ASSUME size <= Budget, Cardinality(Pinned) < MaxTurns
       PROVE  \E j \in DOMAIN u : u[j].id = rows + 1
  <2> DEFINE L == Len(s)
             r == Row(rows + 1, role, 0, size)
  <2>1. /\ L \in Nat /\ L = Len(history) + 1 /\ Len(history) \in Nat
        /\ DOMAIN history = 1 .. Len(history) /\ s \in Seq(ChatMessage)
        /\ DOMAIN s = 1 .. L /\ L \in DOMAIN s
        BY <1>1, <1>2, <1>3 DEF Sound
  <2>2. r.role = role /\ r.size = size /\ r.id = rows + 1 /\ r.role # "tool"
        BY DEF Row
  <2> HIDE DEF r
  <2>3. s[L] = r
        BY <1>2 DEF r
  <2>4. \A p \in PinnedIn(s) : p < L
        BY <1>3, <2>1 DEF PinnedIn
  <2>5. Cardinality(PinnedIn(s)) < MaxTurns /\ L - L < MaxTurns
    <3>1. Cardinality(PinnedIn(s)) < MaxTurns
          BY <1>3, <1>10 DEF Pinned, PinnedIn
    <3>2. L - L < MaxTurns
          BY <2>1, BoundsAssumption
    <3> QED BY <3>1, <3>2
  <2>6. LastKept(t, s)
        BY <1>3, <2>1, <2>2, <2>3, <2>4, <2>5, CapKeepsLast
  <2>7. t # <<>> /\ t[Len(t)] = r /\ t \in Seq(ChatMessage)
        BY <1>5, <2>3, <2>6 DEF LastKept, Sound
  <2> HIDE DEF t
  <2>8. LastKept(u, t)
        BY <1>10, <2>2, <2>7, TrimKeepsLast
  <2>9. u # <<>> /\ u[Len(u)] = r /\ u \in Seq(ChatMessage)
        BY <1>8, <2>7, <2>8 DEF LastKept, Sound
  <2>10. Len(u) \in DOMAIN u
    <3> HIDE DEF u
    <3> QED BY <2>9
  <2> QED BY <2>2, <2>9, <2>10
<1>11. size <= Budget => Remembers
  <2> HIDE DEF u
  <2> QED BY <1>1, <1>10 DEF Remembers
<1> QED BY <1>9, <1>11

(* record_tool_round: a call row with its results, then the cap.           *)
LEMMA ToolRoundStep ==
    ASSUME RowsInv, NEW n \in 1 .. MaxCalls, ToolRound(n)
    PROVE  Keeps /\ (n < MaxTurns => Remembers)
<1> DEFINE s == history \o Round(rows + 1, n)
           t == cap_transcript(s)
           L == Len(s)
           H == Len(history)
<1>1. /\ rows \in Nat /\ Sound(history, rows) /\ history \in Seq(ChatMessage)
      /\ n \in Nat /\ rows' = rows + (n + 1) /\ rows' \in 0 .. MaxRows
      /\ history' = t
      BY BoundsAssumption DEF RowsInv, Sound, ToolRound, Adds
<1>2. /\ Grown(s, history, rows, n + 1)
      /\ s[Len(history) + 1].role = "calls" /\ s[Len(s)].id = rows + n + 1
      BY <1>1, RoundGrows
<1> HIDE DEF s
<1>3. /\ n + 1 \in Nat /\ Sound(s, rows + (n + 1)) /\ PinnedIn(s) = PinnedIn(history)
      /\ rows + (n + 1) \in Nat
      BY <1>1, <1>2, GrownIsSound
<1>4. SafePart(t, s)
      BY <1>3, CapIsSafe
<1>5. /\ Sound(t, rows + (n + 1)) /\ PairsFrom(history, t) /\ PinsFrom(history, t)
      /\ OldRows(history, t, rows)
      BY <1>1, <1>2, <1>3, <1>4, AddAndShorten
<1>6. Keeps
  <2> HIDE DEF t
  <2> QED BY <1>1, <1>5 DEF Keeps, RowsInv
<1>7. ASSUME n < MaxTurns, Cardinality(Pinned) < MaxTurns
      PROVE  \E j \in DOMAIN t : t[j].id = rows + (n + 1)
  <2>1. /\ L = H + (n + 1) /\ H \in Nat /\ L \in Nat
        /\ DOMAIN history = 1 .. H /\ DOMAIN s = 1 .. L
        BY <1>1, <1>2, <1>3 DEF Sound, Grown
  <2>2. H + 1 \in DOMAIN s /\ L - (H + 1) < MaxTurns
        BY <1>1, <1>7, <2>1, BoundsAssumption
  <2>3. s[H + 1].role # "tool"
        BY <1>2
  <2>4. \A p \in PinnedIn(s) : p < H + 1
        BY <1>3, <2>1 DEF PinnedIn
  <2>5. Cardinality(PinnedIn(s)) < MaxTurns
        BY <1>3, <1>7 DEF Pinned, PinnedIn
  <2>6. LastKept(t, s)
        BY <1>3, <2>2, <2>3, <2>4, <2>5, CapKeepsLast
  <2>7. t # <<>> /\ t \in Seq(ChatMessage) /\ t[Len(t)].id = rows + (n + 1)
    <3>1. rows + n + 1 = rows + (n + 1)
          BY <1>1
    <3> QED BY <1>2, <1>5, <2>6, <3>1 DEF LastKept, Sound
  <2>8. Len(t) \in DOMAIN t
    <3> HIDE DEF t
    <3> QED BY <2>7
  <2> QED BY <2>7, <2>8
<1>8. n < MaxTurns => Remembers
  <2> HIDE DEF t
  <2> QED BY <1>1, <1>7 DEF Remembers
<1> QED BY <1>6, <1>8

(* A row appended without a cap.                                           *)
LEMMA AppendStep ==
    ASSUME RowsInv, NEW role \in {"text", "note"}, NEW size \in Nat, Adds(1),
           history' = Append(history, Row(rows + 1, role, 0, size))
    PROVE  Keeps /\ Remembers
<1> DEFINE s == Append(history, Row(rows + 1, role, 0, size))
<1>1. /\ rows \in Nat /\ Sound(history, rows) /\ history \in Seq(ChatMessage)
      /\ rows' = rows + 1 /\ rows' \in 0 .. MaxRows /\ history' = s
      BY BoundsAssumption DEF RowsInv, Sound, Adds
<1>2. /\ Grown(s, history, rows, 1) /\ Len(s) = Len(history) + 1
      /\ s[Len(s)] = Row(rows + 1, role, 0, size)
      BY <1>1, RowGrows
<1> HIDE DEF s
<1>3. s \in Seq(ChatMessage) /\ Len(history) \in Nat
      BY <1>1, <1>2 DEF Grown
<1>4. SafePart(s, s)
      BY <1>3, WholeIsSafe
<1>5. /\ Sound(s, rows + 1) /\ PairsFrom(history, s) /\ PinsFrom(history, s)
      /\ OldRows(history, s, rows)
      BY <1>1, <1>2, <1>4, AddAndShorten
<1>6. Keeps
      BY <1>1, <1>5 DEF Keeps, RowsInv
<1>7. Len(s) \in DOMAIN s /\ s[Len(s)].id = rows + 1
  <2>1. Row(rows + 1, role, 0, size).id = rows + 1
        BY DEF Row
  <2>2. Len(s) \in DOMAIN s
        BY <1>2, <1>3
  <2> QED BY <1>2, <2>1, <2>2
<1> QED BY <1>1, <1>6, <1>7 DEF Remembers

(* /pin and /unpin change no row but for its pin.                          *)
LEMMA PinStep ==
    ASSUME RowsInv, Pins
    PROVE  Keeps /\ Remembers
<1>1. PICK i \in DOMAIN history, pin \in BOOLEAN : set_turn_pinned(i, pin)
      BY DEF Pins
<1> DEFINE h == history
           t == [history EXCEPT ![i].pinned = pin]
<1>2. /\ rows \in Nat /\ rows \in 0 .. MaxRows /\ Sound(h, rows)
      /\ h \in Seq(ChatMessage) /\ rows' = rows /\ history' = t
      /\ h[i].role \in {"user", "text"}
      BY <1>1, BoundsAssumption DEF RowsInv, Sound, set_turn_pinned
<1>3. t \in Seq(ChatMessage) /\ DOMAIN t = DOMAIN h
  <2> DEFINE r == [history[i] EXCEPT !.pinned = pin]
  <2>1. h[i] \in ChatMessage
        BY <1>2
  <2>2. r \in ChatMessage
        BY <2>1 DEF ChatMessage
  <2>3. t = [history EXCEPT ![i] = r]
        OBVIOUS
  <2> HIDE DEF r, t
  <2> QED BY <1>2, <2>2, <2>3
<1>4. \A k \in DOMAIN t : /\ t[k].id = h[k].id /\ t[k].of = h[k].of
                          /\ t[k].role = h[k].role
                          /\ k # i => t[k].pinned = h[k].pinned
      BY <1>2 DEF ChatMessage
<1> HIDE DEF t
<1>5. Named(t, rows) /\ Unique(t)
      BY <1>2, <1>3, <1>4 DEF Sound, Named, Unique
<1>6. PinsAreTurns(t)
      BY <1>2, <1>3, <1>4 DEF Sound, PinsAreTurns
<1>7. Contiguous(t)
  <2> SUFFICES ASSUME NEW k \in DOMAIN t, NEW j \in DOMAIN t,
                      j < k, t[k].role = "tool", t[j].id = t[k].of
               PROVE  t[j].role = "calls" /\ \A l \in j + 1 .. k : t[l].role = "tool"
      BY DEF Contiguous
  <2>1. h[j].role = "calls" /\ \A l \in j + 1 .. k : h[l].role = "tool"
        BY <1>2, <1>3, <1>4 DEF Sound, Contiguous
  <2>2. \A l \in j + 1 .. k : l \in DOMAIN t
        BY <1>2, <1>3
  <2> QED BY <1>4, <2>1, <2>2
<1>8. Sound(t, rows)
      BY <1>3, <1>5, <1>6, <1>7 DEF Sound
<1>9. ASSUME NEW k \in DOMAIN t, Orphan(t, k) PROVE t[k].id \in OrphanIds(h)
  <2>1. \A j \in 1 .. k - 1 : j \in DOMAIN t
        BY <1>2, <1>3
  <2>2. Orphan(h, k)
        BY <1>3, <1>4, <1>9, <2>1 DEF Orphan
  <2> QED BY <1>3, <1>4, <2>2 DEF OrphanIds
<1>10. PairsFrom(h, t) /\ PinsFrom(h, t) /\ OldRows(h, t, rows)
  <2>1. \A k \in DOMAIN t : h[k].role = "note" => k # i
        BY <1>2
  <2> QED BY <1>3, <1>4, <1>9, <2>1 DEF PairsFrom, PinsFrom, PinnedIn, OldRows
<1> QED BY <1>2, <1>8, <1>10 DEF Keeps, Remembers, RowsInv

(* /clear forgets every row and no id.                                     *)
LEMMA ClearStep ==
    ASSUME RowsInv, Clear
    PROVE  Keeps /\ Remembers
<1>1. history' = <<>> /\ rows' = rows /\ rows \in 0 .. MaxRows /\ rows \in Nat
      BY BoundsAssumption DEF RowsInv, Clear
<1>2. Sound(<<>>, rows) /\ PairsFrom(history, <<>>) /\ OldRows(history, <<>>, rows)
      BY DEF Sound, Named, Unique, PinsAreTurns, Contiguous, PairsFrom, OldRows
<1> QED BY <1>1, <1>2 DEF Keeps, Remembers, RowsInv

(* Rows that stay as they are.                                             *)
LEMMA WholeStays ==
    ASSUME RowsInv, UNCHANGED <<history, rows>>
    PROVE  Keeps
<1>1. RowsInv' /\ OldRows(history, history', rows) /\ PinsFrom(history, history')
      BY DEF RowsInv, OldRows, PinsFrom, PinnedIn
<1>2. PairsFrom(history, history')
      BY DEF PairsFrom, OrphanIds
<1> QED BY <1>1, <1>2 DEF Keeps

(* A compaction: the summary comes first and is pinned.                    *)
LEMMA SummariseStep ==
    ASSUME RowsInv, NEW cut \in 0 .. Len(history), Summarise(cut)
    PROVE  /\ RowsInv' /\ PairsFrom(history, history') /\ Remembers
           /\ OldRows(history, history', rows)
           /\ (\A i \in PinnedIn(history) : i > cut) => PinsFrom(history, history')
<1> DEFINE h == history
           t == Summarised(history, rows, cut)
<1>1. /\ rows \in Nat /\ Sound(h, rows) /\ cut \in 1 .. Len(h) /\ Len(h) \in Nat
      /\ DOMAIN h = 1 .. Len(h)
      /\ rows' = rows + 1 /\ rows' \in 0 .. MaxRows /\ history' = t
      BY BoundsAssumption DEF RowsInv, Sound, Summarise, Adds, Summarised
<1>2. /\ Sound(t, rows + 1) /\ Len(t) = Len(h) - cut + 1
      /\ t[1].pinned /\ t[1].id = rows + 1 /\ t[1].role = "summary"
      /\ \A k \in 2 .. Len(t) : k + cut - 1 \in DOMAIN h /\ t[k] = h[k + cut - 1]
      BY <1>1, SummaryFirst
<1> HIDE DEF t
<1>3. DOMAIN t = 1 .. Len(t) /\ Len(t) \in Nat /\ 1 \in DOMAIN t
      BY <1>1, <1>2 DEF Sound
<1>4. PairsFrom(h, t)
  <2> SUFFICES ASSUME NEW i \in DOMAIN t, Orphan(t, i)
               PROVE  \E j \in 1 .. i - 1 : t[j].pinned
      BY DEF PairsFrom
  <2>1. i # 1
        BY <1>2 DEF Orphan
  <2>2. 1 \in 1 .. i - 1
        BY <1>3, <2>1
  <2> QED BY <1>2, <2>2
<1>5. ASSUME \A i \in PinnedIn(h) : i > cut PROVE PinsFrom(h, t)
  <2> SUFFICES ASSUME NEW i \in PinnedIn(h) PROVE \E j \in DOMAIN t : t[j].id = h[i].id
      BY DEF PinsFrom
  <2>1. i \in 1 .. Len(h) /\ i > cut
        BY <1>1, <1>5 DEF PinnedIn
  <2>2. /\ i - cut + 1 \in 2 .. Len(t) /\ i - cut + 1 \in DOMAIN t
        /\ (i - cut + 1) + cut - 1 = i
        BY <1>1, <1>2, <1>3, <2>1
  <2>3. t[i - cut + 1] = h[i]
        BY <1>2, <2>2
  <2> QED BY <2>2, <2>3
<1>6. Remembers
      BY <1>1, <1>2, <1>3 DEF Remembers
<1>7. OldRows(h, t, rows)
  <2> SUFFICES ASSUME NEW k \in DOMAIN t
               PROVE  t[k].id > rows \/ \E i \in DOMAIN h : h[i] = t[k]
      BY DEF OldRows
  <2>1. CASE k = 1
        BY <1>1, <1>2, <2>1
  <2>2. CASE k \in 2 .. Len(t)
        BY <1>2, <2>2
  <2> QED BY <1>3, <2>1, <2>2
<1> QED BY <1>1, <1>2, <1>4, <1>5, <1>6, <1>7 DEF RowsInv

(* safe_cutoff splits no pair.                                             *)
LEMMA SafeCutoff ==
    ASSUME NEW n \in Nat, NEW h, Sound(h, n)
    PROVE  safe_cutoff(h) \in 0 .. Len(h) /\ ~Splits(h, safe_cutoff(h))
<1> DEFINE L == Len(h)
           S == {c \in 0 .. L - KeepRecent : ~Splits(h, c)}
<1>1. L \in Nat /\ KeepRecent \in Nat
      BY BoundsAssumption DEF Sound
<1>2. ~Splits(h, 0)
      BY DEF Splits
<1>3. CASE L <= KeepRecent
      BY <1>1, <1>2, <1>3 DEF safe_cutoff
<1>4. CASE L > KeepRecent
  <2>1. S \in SUBSET Nat /\ 0 \in S /\ \A c \in S : c <= L /\ c \in 0 .. L
        BY <1>1, <1>2, <1>4
  <2>2. safe_cutoff(h) = Max(S)
        BY <1>1, <1>4 DEF safe_cutoff
  <2>3. Max(S) \in S
    <3> HIDE DEF S
    <3> QED BY <1>1, <2>1, MaxIsGreatest
  <2> QED BY <2>1, <2>2, <2>3
<1> QED BY <1>1, <1>3, <1>4

(* A compaction at the hard threshold separates no pair.                   *)
LEMMA CompactNowPairs ==
    ASSUME RowsInv, CompactNow
    PROVE  OrphanIds(history') \subseteq OrphanIds(history)
<1> DEFINE h == history
           cut == safe_cutoff(history)
           t == Summarised(history, rows, cut)
<1>1. rows \in Nat /\ Sound(h, rows) /\ Len(h) \in Nat /\ DOMAIN h = 1 .. Len(h)
      BY BoundsAssumption DEF RowsInv, Sound
<1>2. cut \in 0 .. Len(h) /\ ~Splits(h, cut)
      BY <1>1, SafeCutoff
<1>3. history' = t /\ cut > 0
      BY DEF CompactNow, Summarise, Summarised
<1> HIDE DEF cut
<1>4. cut \in 1 .. Len(h)
      BY <1>1, <1>2, <1>3
<1>5. /\ Sound(t, rows + 1) /\ Len(t) = Len(h) - cut + 1 /\ t[1].role = "summary"
      /\ \A k \in 2 .. Len(t) : k + cut - 1 \in DOMAIN h /\ t[k] = h[k + cut - 1]
  <2>1. t = Summarised(h, rows, cut)
        OBVIOUS
  <2> HIDE DEF t
  <2>2. Sound(h, rows) /\ rows \in Nat /\ cut \in 1 .. Len(h)
        BY <1>1, <1>4
  <2> HIDE DEF h
  <2> QED BY <2>1, <2>2, SummaryFirst
<1> HIDE DEF t
<1>6. DOMAIN t = 1 .. Len(t) /\ Len(t) \in Nat
      BY <1>5 DEF Sound
<1>7. ASSUME NEW i \in DOMAIN t, Orphan(t, i) PROVE t[i].id \in OrphanIds(h)
  <2> DEFINE p == i + cut - 1
  <2>1. i \in 2 .. Len(t)
    <3>1. i # 1
          BY <1>5, <1>7 DEF Orphan
    <3> QED BY <1>6, <3>1
  <2>2. p \in 1 .. Len(h) /\ p \in cut + 1 .. Len(h) /\ t[i] = h[p] /\ h[p].role = "tool"
    <3>1. p \in DOMAIN h /\ t[i] = h[p]
          BY <1>5, <2>1
    <3>2. p \in cut + 1 .. Len(h)
          BY <1>1, <1>4, <2>1, <3>1
    <3> HIDE DEF p
    <3> QED BY <1>1, <1>7, <3>1, <3>2 DEF Orphan
  <2>3. Orphan(h, p)
    <3> SUFFICES ASSUME NEW j \in 1 .. p - 1, h[j].id = h[p].of PROVE FALSE
        BY <2>2 DEF Orphan
    <3>1. ~(j <= cut)
      <4> SUFFICES ASSUME j <= cut PROVE FALSE
          OBVIOUS
      <4>1. j \in 1 .. cut
            BY <1>4, <2>2
      <4> HIDE DEF p
      <4> QED BY <1>2, <2>2, <4>1 DEF Splits
    <3>2. /\ j - cut + 1 \in 2 .. Len(t) /\ j - cut + 1 \in 1 .. i - 1
          /\ (j - cut + 1) + cut - 1 = j
          BY <1>1, <1>4, <1>5, <1>6, <2>1, <2>2, <3>1
    <3>3. t[j - cut + 1] = h[j]
          BY <1>5, <3>2
    <3> QED BY <1>7, <2>2, <3>2, <3>3 DEF Orphan
  <2> HIDE DEF p
  <2> QED BY <1>1, <2>2, <2>3 DEF OrphanIds
<1>8. OrphanIds(t) \subseteq OrphanIds(h)
      BY <1>7 DEF OrphanIds
<1> QED BY <1>3, <1>8

(* The cut of /compact is before every pinned row.                         *)
LEMMA CompactHistoryStep ==
    ASSUME RowsInv, CompactHistory(KeepRecent)
    PROVE  Keeps /\ Remembers
<1> DEFINE h == history
           d == Len(history) - KeepRecent
           S == {d} \cup {i - 1 : i \in {j \in 1 .. d : history[j].pinned}}
           cut == Min(S)
<1>1. /\ Len(h) \in Nat /\ DOMAIN h = 1 .. Len(h) /\ KeepRecent \in Nat
      /\ d \in 1 .. Len(h)
      BY BoundsAssumption DEF RowsInv, Sound, CompactHistory
<1>2. Summarise(cut)
      BY DEF CompactHistory
<1>3. S \in SUBSET Nat /\ d \in S
  <2> HIDE DEF d
  <2> QED BY <1>1
<1>4. cut \in S /\ \A k \in S : cut <= k
  <2> HIDE DEF S
  <2> QED BY <1>3, MinIsLeast
<1>5. cut \in 0 .. Len(h) /\ cut <= d
  <2> HIDE DEF S, d, cut
  <2>1. cut \in Nat /\ cut <= d
        BY <1>3, <1>4
  <2> QED BY <1>1, <2>1
<1>6. ASSUME NEW i \in PinnedIn(h) PROVE i > cut
  <2>1. i \in 1 .. Len(h) /\ h[i].pinned
        BY <1>1 DEF PinnedIn
  <2>2. CASE i <= d
    <3>1. i - 1 \in S
      <4> HIDE DEF d
      <4> QED BY <1>1, <2>1, <2>2
    <3>2. cut <= i - 1
          BY <1>4, <3>1
    <3> HIDE DEF cut
    <3> QED BY <1>5, <2>1, <3>2
  <2>3. CASE i > d
    <3> HIDE DEF cut, d
    <3> QED BY <1>1, <1>5, <2>1, <2>3
  <2> HIDE DEF d
  <2> QED BY <1>1, <2>1, <2>2, <2>3
<1> HIDE DEF cut
<1> QED BY <1>2, <1>5, <1>6, SummariseStep DEF Keeps

(* A compaction is a Summarise, wherever it cuts; a plan that came too     *)
(* late cuts where the transcript ends, if it is not refused.              *)
LEMMA CompactionStep ==
    ASSUME RowsInv, planned \in Nat, Compaction
    PROVE  Keeps /\ Remembers
<1>1. Len(history) \in Nat /\ rows \in Nat /\ Sound(history, rows)
      BY BoundsAssumption DEF RowsInv, Sound
<1>2. ASSUME NEW cut \in 0 .. Len(history), Summarise(cut) PROVE Keeps /\ Remembers
      BY <1>2, SummariseStep DEF Keeps
<1>3. CASE CompactNow
      BY <1>1, <1>2, <1>3, SafeCutoff DEF CompactNow
<1>4. CASE ApplyPlan
  <2>1. CASE Summarise(Min({planned, Len(history)}))
    <3> DEFINE S == {planned, Len(history)}
    <3>1. S \in SUBSET Nat /\ planned \in S /\ Len(history) \in S
          BY <1>1
    <3>2. Min(S) \in S /\ \A k \in S : Min(S) <= k
      <4> HIDE DEF S
      <4> QED BY <3>1, MinIsLeast
    <3>3. Min(S) \in 0 .. Len(history)
      <4>1. Min(S) \in Nat /\ Min(S) <= Len(history)
            BY <3>1, <3>2
      <4> HIDE DEF S
      <4> QED BY <1>1, <4>1
    <3> QED BY <1>2, <2>1, <3>3
  <2>2. CASE UNCHANGED <<history, rows>>
    <3>1. Keeps
          BY <2>2, WholeStays
    <3>2. rows' = rows /\ rows \in Nat
          BY <1>1, <2>2
    <3> QED BY <3>1, <3>2 DEF Remembers
  <2> QED BY <1>4, <2>1, <2>2 DEF ApplyPlan
<1> QED BY <1>3, <1>4 DEF Compaction

(* A transcript cut at its end is one, and its results have their calls.   *)
LEMMA PrefixStays ==
    ASSUME NEW n \in Nat, NEW h, Sound(h, n), NEW c \in 0 .. Len(h),
           NEW t, t = SubSeq(h, 1, c)
    PROVE  Sound(t, n) /\ PairsFrom(h, t) /\ OldRows(h, t, n)
<1> DEFINE f == [k \in 1 .. c |-> k]
<1>1. /\ h \in Seq(ChatMessage) /\ Len(h) \in Nat /\ DOMAIN h = 1 .. Len(h)
      BY DEF Sound
<1>2. /\ t \in Seq(ChatMessage) /\ Len(t) = c /\ DOMAIN t = 1 .. c
      /\ \A k \in 1 .. c : t[k] = h[k] /\ k \in DOMAIN h
      BY <1>1
<1>3. Picks(f, 1 .. c, t, h)
      BY <1>1, <1>2 DEF Picks
<1> HIDE DEF f
<1>4. Sound(t, n)
      BY <1>3, PartIsSound
<1>5. ASSUME NEW i \in DOMAIN t, Orphan(t, i) PROVE t[i].id \in OrphanIds(h)
  <2>1. \A j \in 1 .. i - 1 : t[j] = h[j]
        BY <1>1, <1>2
  <2>2. Orphan(h, i) /\ i \in DOMAIN h
        BY <1>2, <1>5, <2>1 DEF Orphan
  <2> QED BY <1>2, <2>2 DEF OrphanIds
<1> QED BY <1>2, <1>4, <1>5 DEF PairsFrom, OldRows

(* /delete, /regenerate, and the rewind of a failed attempt.               *)
LEMMA ForgetStep ==
    ASSUME RowsInv, Forgets
    PROVE  Keeps /\ Remembers
<1>1. PICK count \in 1 .. Len(history) : ForgetLast(count)
      BY DEF Forgets
<1>2. rows \in Nat /\ Sound(history, rows) /\ Len(history) \in Nat
      BY BoundsAssumption DEF RowsInv, Sound
<1>3. /\ Len(history) - count \in 0 .. Len(history) /\ rows' = rows
      /\ history' = SubSeq(history, 1, Len(history) - count)
      BY <1>1, <1>2 DEF ForgetLast
<1>4. /\ Sound(history', rows) /\ PairsFrom(history, history')
      /\ OldRows(history, history', rows)
      BY <1>2, <1>3, PrefixStays
<1> QED BY <1>2, <1>3, <1>4 DEF Keeps, Remembers, RowsInv

(* The nudge of the armed prewalk, if it is still there, is a row of the   *)
(* engine's own and not pinned.                                            *)
NudgeInv == /\ nudge \in 0 .. rows
            /\ \A i \in DOMAIN history : history[i].id = nudge =>
                  history[i].role = "note" /\ ~history[i].pinned

(* The inductive invariant of the transcript.                              *)
TranscriptInv == RowsInv /\ NudgeInv /\ planned \in Nat /\ firing \in BOOLEAN

(* A prewalk that fires takes out one row, which is no call and not        *)
(* pinned, so that no result loses its call and no pin is lost.            *)
LEMMA FireStep ==
    ASSUME RowsInv, NudgeInv, FirePrewalk
    PROVE  Keeps /\ Remembers
<1> DEFINE I == {i \in DOMAIN history : history[i].id # nudge}
           t == Retain(history, I)
<1>1. /\ rows \in Nat /\ Sound(history, rows) /\ history \in Seq(ChatMessage)
      /\ rows' = rows /\ rows' \in 0 .. MaxRows /\ history' = t
      BY BoundsAssumption DEF RowsInv, Sound, FirePrewalk
<1>2. PICK f : Picks(f, I, t, history)
      BY <1>1, RetainPicks
<1>3. ASSUME NEW i \in I, NEW j \in DOMAIN history \ I,
             j < i, history[i].role = "tool", history[j].id = history[i].of
      PROVE  FALSE
  <2>1. history[j].role = "note"
        BY DEF NudgeInv
  <2>2. history[j].role = "calls"
        BY <1>1, <1>3 DEF Sound, Contiguous
  <2> QED BY <2>1, <2>2
<1>4. \A i \in DOMAIN history : history[i].pinned => i \in I
      BY DEF NudgeInv
<1> HIDE DEF I
<1>5. Safe(I, history)
      BY <1>3, <1>4 DEF Safe
<1>6. SafePart(t, history)
      BY <1>2, <1>5 DEF SafePart
<1> HIDE DEF t
<1>7. Grown(history, history, rows, 0)
      BY <1>1 DEF Grown
<1>8. /\ Sound(t, rows + 0) /\ PairsFrom(history, t) /\ PinsFrom(history, t)
      /\ OldRows(history, t, rows)
      BY <1>1, <1>6, <1>7, AddAndShorten
<1>9. Sound(t, rows)
      BY <1>1, <1>8
<1> QED BY <1>1, <1>8, <1>9 DEF Keeps, Remembers, RowsInv

(* The empty transcript is sound.                                          *)
LEMMA TranscriptInit ==
    ASSUME Init
    PROVE  TranscriptInv
<1>1. Sound(<<>>, 0)
      BY DEF Sound, Named, Unique, PinsAreTurns, Contiguous
<1>2. /\ history = <<>> /\ rows = 0 /\ rows \in 0 .. MaxRows
      /\ planned = 0 /\ nudge = 0 /\ firing = FALSE
      BY BoundsAssumption DEF Init
<1>3. RowsInv
      BY <1>1, <1>2 DEF RowsInv
<1>4. NudgeInv
      BY <1>2 DEF NudgeInv
<1> QED BY <1>2, <1>3, <1>4 DEF TranscriptInv

(* Every operation on the transcript.                                      *)
LEMMA TranscriptStep ==
    ASSUME TranscriptInv, Next
    PROVE  Keeps /\ (TurnsFit /\ RoundsFit => Remembers)
<1>1. RowsInv /\ NudgeInv /\ planned \in Nat /\ \A size \in TurnSizes : size \in Nat
      BY BoundsAssumption DEF TranscriptInv
<1>2. ASSUME NEW role \in {"user", "text"}, NEW size \in TurnSizes, RecordTurn(role, size)
      PROVE  Keeps /\ (TurnsFit => Remembers)
      BY <1>1, <1>2, RecordTurnStep DEF TurnsFit
<1>3. ASSUME NEW n \in 1 .. MaxCalls, ToolRound(n)
      PROVE  Keeps /\ (RoundsFit => Remembers)
  <2>1. RoundsFit => n < MaxTurns
        BY BoundsAssumption DEF RoundsFit
  <2> QED BY <1>1, <1>3, <2>1, ToolRoundStep
<1>4. ASSUME NEW size \in TurnSizes, PartialText(size) PROVE Keeps /\ Remembers
      BY <1>1, <1>4, AppendStep DEF PartialText
<1>5. CASE Notice \/ ArmPrewalk \/ PushChecklist
      BY <1>1, <1>5, BoundsAssumption, AppendStep
         DEF Notice, ArmPrewalk, PushChecklist, AppendNote
<1>6. CASE FirePrewalk
      BY <1>1, <1>6, FireStep
<1>7. CASE Clear
      BY <1>1, <1>7, ClearStep
<1>8. CASE Forgets
      BY <1>1, <1>8, ForgetStep
<1>9. CASE Pins
      BY <1>1, <1>9, PinStep
<1>10. CASE CompactNow \/ ApplyPlan
       BY <1>1, <1>10, CompactionStep DEF Compaction
<1>11. CASE PlanCompaction
  <2>1. Keeps
        BY <1>1, <1>11, WholeStays DEF PlanCompaction
  <2>2. rows' = rows /\ rows \in Nat
        BY <1>1, <1>11 DEF PlanCompaction, RowsInv
  <2> QED BY <2>1, <2>2 DEF Remembers
<1>12. CASE CompactHistory(KeepRecent)
       BY <1>1, <1>12, CompactHistoryStep
<1> QED BY <1>2, <1>3, <1>4, <1>5, <1>6, <1>7, <1>8, <1>9, <1>10, <1>11, <1>12
        DEF Next, Forgets

(* What the operations do to the plan and the prewalk.                     *)
LEMMA AsideStep ==
    ASSUME TranscriptInv, Next
    PROVE  /\ planned' \in Nat /\ firing' \in BOOLEAN /\ rows <= rows' /\ rows' \in Nat
           /\ \/ nudge' \in {0, nudge}
              \/ ArmPrewalk /\ nudge' = rows + 1 /\ rows' = rows + 1
<1>1. /\ planned \in Nat /\ firing \in BOOLEAN /\ rows \in Nat
      /\ Len(history) \in Nat
      BY DEF TranscriptInv, RowsInv, Sound
<1>2. \A m \in Nat : Adds(m) => rows' = rows + m /\ rows <= rows' /\ rows' \in Nat
      BY <1>1 DEF Adds
<1>3. ASSUME UNCHANGED aside, rows' = rows \/ \E m \in Nat : Adds(m)
      PROVE  /\ planned' \in Nat /\ firing' \in BOOLEAN /\ rows <= rows' /\ rows' \in Nat
             /\ nudge' = nudge
      BY <1>1, <1>2, <1>3 DEF aside
<1>4. ASSUME NEW role \in {"user", "text"}, NEW size \in TurnSizes, RecordTurn(role, size)
      PROVE  UNCHANGED aside /\ \E m \in Nat : Adds(m)
      BY <1>4 DEF RecordTurn
<1>5. ASSUME NEW n \in 1 .. MaxCalls, ToolRound(n)
      PROVE  UNCHANGED aside /\ \E m \in Nat : Adds(m)
  <2>1. 1 + n \in Nat
        OBVIOUS
  <2> QED BY <1>5, <2>1 DEF ToolRound
<1>6. ASSUME NEW size \in TurnSizes, PartialText(size)
      PROVE  UNCHANGED aside /\ \E m \in Nat : Adds(m)
      BY <1>6 DEF PartialText
<1>7. CASE Notice
      BY <1>3, <1>7 DEF Notice, AppendNote
<1>8. CASE ArmPrewalk
      BY <1>1, <1>2, <1>8 DEF ArmPrewalk, AppendNote
<1>9. CASE FirePrewalk \/ Clear
  <2>1. CASE FirePrewalk
        BY <1>1, <2>1 DEF FirePrewalk
  <2>2. CASE Clear
    <3>1. /\ rows' = rows /\ planned' = planned /\ firing' = firing
          /\ nudge' = nudge \/ nudge' = 0
          BY <2>2 DEF Clear
    <3> QED BY <1>1, <3>1
  <2> QED BY <1>9, <2>1, <2>2
<1>10. CASE PushChecklist
       BY <1>1, <1>2, <1>10 DEF PushChecklist, AppendNote
<1>11. CASE Forgets \/ Pins
       BY <1>3, <1>11 DEF Forgets, ForgetLast, Pins, set_turn_pinned
<1>12. CASE CompactNow \/ CompactHistory(KeepRecent)
       BY <1>3, <1>12 DEF CompactNow, CompactHistory, Summarise
<1>13. CASE PlanCompaction
       BY <1>1, <1>13 DEF PlanCompaction
<1>14. CASE ApplyPlan
       BY <1>1, <1>2, <1>14 DEF ApplyPlan, Summarise
<1> QED BY <1>3, <1>4, <1>5, <1>6, <1>7, <1>8, <1>9, <1>10, <1>11, <1>12, <1>13, <1>14
        DEF Next, Forgets

(* The nudge stays what it is: the operations keep the roles of the rows   *)
(* they keep, and the pins of the engine's own.                            *)
LEMMA NudgeStep ==
    ASSUME TranscriptInv, Next
    PROVE  NudgeInv'
<1>1. /\ RowsInv /\ NudgeInv /\ rows \in Nat /\ Named(history, rows)
      /\ RowsInv' /\ OldRows(history, history', rows) /\ Named(history', rows')
      BY TranscriptStep DEF TranscriptInv, RowsInv, Sound, Keeps
<1>2. /\ rows <= rows' /\ rows' \in Nat
      /\ nudge' \in {0, nudge} \/ (ArmPrewalk /\ nudge' = rows + 1 /\ rows' = rows + 1)
      BY AsideStep
<1>3. nudge' \in 0 .. rows'
      BY <1>1, <1>2 DEF NudgeInv
<1>4. ASSUME NEW i \in DOMAIN history', history'[i].id = nudge'
      PROVE  history'[i].role = "note" /\ ~history'[i].pinned
  <2>1. nudge' # 0
        BY <1>1, <1>4 DEF Named
  <2>2. CASE nudge' = nudge
    <3>1. ~(history'[i].id > rows)
          BY <1>1, <1>4, <2>2 DEF NudgeInv
    <3>2. PICK k \in DOMAIN history :
             /\ history[k].id = history'[i].id /\ history[k].role = history'[i].role
             /\ history[k].role = "note" => history[k].pinned = history'[i].pinned
          BY <1>1, <3>1 DEF OldRows
    <3>3. history[k].role = "note" /\ ~history[k].pinned
          BY <1>1, <1>4, <2>2, <3>2 DEF NudgeInv
    <3> QED BY <3>2, <3>3
  <2>3. CASE ArmPrewalk /\ nudge' = rows + 1
    <3> DEFINE r == Row(rows + 1, "note", 0, RowSize)
    <3>1. /\ history' = Append(history, r) /\ history \in Seq(ChatMessage)
          BY <1>1, <2>3 DEF ArmPrewalk, AppendNote, RowsInv, Sound
    <3>2. r.role = "note" /\ ~r.pinned
          BY DEF Row
    <3> HIDE DEF r
    <3>3. i \in 1 .. Len(history) + 1 /\ Len(history) \in Nat
          BY <3>1
    <3>4. CASE i = Len(history) + 1
          BY <3>1, <3>2, <3>4
    <3>5. CASE i \in 1 .. Len(history)
      <4>1. history'[i] = history[i] /\ i \in DOMAIN history
            BY <3>1, <3>5
      <4>2. history[i].id \in 1 .. rows
            BY <1>1, <4>1 DEF Named
      <4> QED BY <1>1, <1>4, <2>3, <4>1, <4>2
    <3> QED BY <3>3, <3>4, <3>5
  <2> QED BY <1>2, <2>1, <2>2, <2>3
<1> QED BY <1>3, <1>4 DEF NudgeInv

(* Every step of the transcript preserves its invariant.                   *)
LEMMA TranscriptInductive ==
    ASSUME TranscriptInv, [Next]_vars
    PROVE  TranscriptInv'
<1>1. CASE Next
      BY <1>1, TranscriptStep, AsideStep, NudgeStep DEF Keeps, TranscriptInv
<1>2. CASE UNCHANGED vars
      BY <1>2 DEF vars, aside, TranscriptInv, RowsInv, NudgeInv
<1> QED BY <1>1, <1>2

(* Ids stay unique, a tool result stays right behind its call row, and no  *)
(* tool result is pinned, whatever is recorded, capped, trimmed, pinned,   *)
(* cleared and compacted: the invariant the two action properties rest on. *)
THEOREM TranscriptInvariant == Spec => []TranscriptInv
<1>1. Init => TranscriptInv
      BY TranscriptInit
<1>2. TranscriptInv /\ [Next]_vars => TranscriptInv'
      BY TranscriptInductive
<1> QED BY <1>1, <1>2, PTL DEF Spec

(* The shapes of the transcript, and that no two of its rows have the same *)
(* id, whatever is recorded, capped, trimmed, pinned and compacted.        *)
THEOREM TypeCorrect == Spec => []TypeOK
<1>1. TranscriptInv => TypeOK
  <2> SUFFICES ASSUME TranscriptInv PROVE TypeOK
      OBVIOUS
  <2>1. /\ rows \in 0 .. MaxRows /\ history \in Seq(ChatMessage)
        /\ Named(history, rows) /\ Unique(history)
        /\ planned \in Nat /\ nudge \in 0 .. rows /\ firing \in BOOLEAN
        BY DEF TranscriptInv, RowsInv, NudgeInv, Sound
  <2>2. ASSUME NEW i \in DOMAIN history
        PROVE  history[i].role \in Roles /\ history[i].pinned \in BOOLEAN
    <3>1. history[i] \in ChatMessage
          BY <2>1
    <3> QED BY <3>1 DEF ChatMessage
  <2> QED BY <2>1, <2>2 DEF TypeOK, Named, Unique
<1> QED BY <1>1, TranscriptInvariant, PTL

(* Pairs: no operation takes a tool result's call away, but behind a       *)
(* pinned row; and compaction at the hard threshold never does.            *)
THEOREM TranscriptKeepsPairs == Spec => PairsKept
<1> DEFINE A == /\ \A i \in DOMAIN history' :
                      Orphan(history', i) =>
                         \/ history'[i].id \in OrphanIds(history)
                         \/ \E j \in 1 .. i - 1 : history'[j].pinned
                /\ CompactNow => OrphanIds(history') \subseteq OrphanIds(history)
<1>1. TranscriptInv /\ [Next]_vars => [A]_vars
  <2> SUFFICES ASSUME TranscriptInv, Next PROVE A
      OBVIOUS
  <2>1. PairsFrom(history, history')
        BY TranscriptStep DEF Keeps
  <2>2. CompactNow => OrphanIds(history') \subseteq OrphanIds(history)
        BY CompactNowPairs DEF TranscriptInv
  <2> QED BY <2>1, <2>2 DEF PairsFrom
<1>2. PairsKept <=> [][A]_vars
      BY DEF PairsKept
<1> HIDE DEF A
<1> QED BY <1>1, <1>2, TranscriptInvariant, PTL DEF Spec

(* Rows: pinned rows outlive the caps, /compact and a prewalk that fires,  *)
(* and what is recorded is remembered, provided a turn fits the budget and a tool round the     *)
(* transcript.                                                             *)
THEOREM TranscriptKeepsRows == TurnsFit /\ RoundsFit => (Spec => RowsKept)
<1> SUFFICES ASSUME TurnsFit, RoundsFit PROVE Spec => RowsKept
    OBVIOUS
<1> DEFINE A == /\ history' # <<>> /\ ~Compaction /\ ~Forgets =>
                      \A i \in Pinned :
                         \E j \in DOMAIN history' : history'[j].id = history[i].id
                /\ rows' > rows /\ Cardinality(Pinned) < MaxTurns =>
                      \E j \in DOMAIN history' : history'[j].id = rows'
<1>1. TranscriptInv /\ [Next]_vars => [A]_vars
  <2> SUFFICES ASSUME TranscriptInv, Next PROVE A
      OBVIOUS
  <2>1. Keeps /\ Remembers
        BY TranscriptStep
  <2>2. history' # <<>> /\ ~Compaction /\ ~Forgets => PinsFrom(history, history')
        BY <2>1 DEF Keeps
  <2>3. Pinned = PinnedIn(history)
        BY DEF Pinned, PinnedIn
  <2> QED BY <2>1, <2>2, <2>3 DEF Remembers, PinsFrom
<1>2. RowsKept <=> [][A]_vars
      BY DEF RowsKept
<1> HIDE DEF A
<1> QED BY <1>1, <1>2, TranscriptInvariant, PTL DEF Spec

-----------------------------------------------------------------------------
(* The request and the history of a turn grow by the same rows.            *)
LEMMA IdsOfConcatenation ==
    ASSUME NEW a \in Seq(ChatMessage), NEW b \in Seq(ChatMessage)
    PROVE  Ids(a \o b) = Ids(a) \cup Ids(b)
<1> DEFINE c == a \o b
<1>1. /\ c \in Seq(ChatMessage) /\ Len(c) = Len(a) + Len(b)
      /\ \A i \in 1 .. Len(a) : c[i] = a[i]
      /\ \A i \in 1 .. Len(b) : c[Len(a) + i] = b[i]
      BY Concatenation
<1> HIDE DEF c
<1>2. /\ DOMAIN a = 1 .. Len(a) /\ DOMAIN b = 1 .. Len(b) /\ DOMAIN c = 1 .. Len(c)
      /\ Len(a) \in Nat /\ Len(b) \in Nat
      BY <1>1
<1>3. \A k \in DOMAIN c : k \in DOMAIN a \/ (k - Len(a) \in DOMAIN b /\ Len(a) + (k - Len(a)) = k)
      BY <1>1, <1>2
<1>4. \A k \in DOMAIN a : k \in DOMAIN c
      BY <1>1, <1>2
<1>5. \A k \in DOMAIN b : Len(a) + k \in DOMAIN c
      BY <1>1, <1>2
<1>6. ASSUME NEW k \in DOMAIN c PROVE c[k].id \in Ids(a) \cup Ids(b)
      BY <1>1, <1>2, <1>3 DEF Ids
<1>7. \A k \in DOMAIN a : a[k].id \in Ids(c)
      BY <1>1, <1>2, <1>4 DEF Ids
<1>8. \A k \in DOMAIN b : b[k].id \in Ids(c)
      BY <1>1, <1>2, <1>5 DEF Ids
<1>9. Ids(c) = Ids(a) \cup Ids(b)
      BY <1>6, <1>7, <1>8 DEF Ids
<1> QED BY <1>9 DEF c

(* Paired, row by row.                                                     *)
LEMMA PairedRows ==
    ASSUME NEW a
    PROVE  Paired(a) <=> /\ \A i \in DOMAIN a : ~Orphan(a, i)
                         /\ \A k \in DOMAIN a : a[k].role = "calls" =>
                               k < Len(a) /\ a[k + 1].of = a[k].id
BY DEF Paired, OrphanIds

(* Messages that are paired are so one after the other.                    *)
LEMMA PairedConcatenation ==
    ASSUME NEW a \in Seq(ChatMessage), NEW b \in Seq(ChatMessage), Paired(a), Paired(b)
    PROVE  Paired(a \o b)
<1> DEFINE c == a \o b
<1>1. /\ c \in Seq(ChatMessage) /\ Len(c) = Len(a) + Len(b)
      /\ \A i \in 1 .. Len(a) : c[i] = a[i]
      /\ \A i \in 1 .. Len(b) : c[Len(a) + i] = b[i]
      BY Concatenation
<1> HIDE DEF c
<1>2. /\ DOMAIN a = 1 .. Len(a) /\ DOMAIN b = 1 .. Len(b) /\ DOMAIN c = 1 .. Len(c)
      /\ Len(a) \in Nat /\ Len(b) \in Nat
      BY <1>1
<1>3. /\ \A i \in DOMAIN a : ~Orphan(a, i)
      /\ \A k \in DOMAIN a : a[k].role = "calls" => k < Len(a) /\ a[k + 1].of = a[k].id
      BY PairedRows
<1>4. /\ \A i \in DOMAIN b : ~Orphan(b, i)
      /\ \A k \in DOMAIN b : b[k].role = "calls" => k < Len(b) /\ b[k + 1].of = b[k].id
      BY PairedRows
<1>5. ASSUME NEW i \in DOMAIN c, c[i].role = "tool"
      PROVE  \E j \in 1 .. i - 1 : c[j].id = c[i].of
  <2>1. CASE i \in DOMAIN a
    <3>1. PICK j \in 1 .. i - 1 : a[j].id = a[i].of
          BY <1>1, <1>2, <1>3, <1>5, <2>1 DEF Orphan
    <3>2. j \in 1 .. Len(a)
          BY <1>2, <2>1, <3>1
    <3> QED BY <1>1, <1>2, <2>1, <3>1, <3>2
  <2>2. CASE i \notin DOMAIN a
    <3> DEFINE k == i - Len(a)
    <3>1. k \in DOMAIN b /\ Len(a) + k = i
          BY <1>1, <1>2, <2>2
    <3> HIDE DEF k
    <3>2. c[i] = b[k]
          BY <1>1, <1>2, <3>1
    <3>3. PICK j \in 1 .. k - 1 : b[j].id = b[k].of
          BY <1>4, <1>5, <3>1, <3>2 DEF Orphan
    <3>4. j \in 1 .. Len(b) /\ Len(a) + j \in 1 .. i - 1
          BY <1>2, <3>1, <3>3
    <3> QED BY <1>1, <3>2, <3>3, <3>4
  <2> QED BY <2>1, <2>2
<1>6. ASSUME NEW i \in DOMAIN c, c[i].role = "calls"
      PROVE  i < Len(c) /\ c[i + 1].of = c[i].id
  <2>1. CASE i \in DOMAIN a
    <3>1. i < Len(a) /\ a[i + 1].of = a[i].id /\ c[i] = a[i]
          BY <1>1, <1>2, <1>3, <1>6, <2>1
    <3>2. i + 1 \in 1 .. Len(a) /\ i < Len(c)
          BY <1>1, <1>2, <2>1, <3>1
    <3> QED BY <1>1, <3>1, <3>2
  <2>2. CASE i \notin DOMAIN a
    <3> DEFINE k == i - Len(a)
    <3>1. k \in DOMAIN b /\ Len(a) + k = i /\ Len(a) + (k + 1) = i + 1
          BY <1>1, <1>2, <2>2
    <3> HIDE DEF k
    <3>2. c[i] = b[k]
          BY <1>1, <1>2, <3>1
    <3>3. k < Len(b) /\ b[k + 1].of = b[k].id
          BY <1>4, <1>6, <3>1, <3>2
    <3>4. k + 1 \in 1 .. Len(b) /\ i < Len(c)
          BY <1>1, <1>2, <3>1, <3>3
    <3>5. c[i + 1] = b[k + 1]
          BY <1>1, <3>1, <3>4
    <3> QED BY <3>2, <3>3, <3>4, <3>5
  <2> QED BY <2>1, <2>2
<1>7. Paired(c)
      BY <1>5, <1>6, PairedRows DEF Orphan
<1> QED BY <1>7 DEF c

(* What a loop adds: steers, a text, a round.                              *)
Steers(first, n) == [k \in 1 .. n |-> Row(first + k, "user", 0, 1)]

(* Steers have no calls and no results.                                    *)
LEMMA SteersArePaired ==
    ASSUME NEW first \in Nat, NEW n \in Nat
    PROVE  Steers(first, n) \in Seq(ChatMessage) /\ Paired(Steers(first, n))
<1> DEFINE s == Steers(first, n)
<1>1. \A k \in 1 .. n : Row(first + k, "user", 0, 1) \in ChatMessage
      BY DEF Row, ChatMessage, Roles
<1>2. s \in Seq(ChatMessage) /\ DOMAIN s = 1 .. n
      BY <1>1 DEF Steers
<1>3. \A k \in DOMAIN s : s[k].role = "user"
      BY DEF Steers, Row
<1> HIDE DEF s
<1>4. Paired(s)
      BY <1>3, PairedRows DEF Orphan
<1> QED BY <1>2, <1>4 DEF s

(* Nor has a text.                                                         *)
LEMMA TextIsPaired ==
    ASSUME NEW id \in Nat
    PROVE  <<Plain(id, "text")>> \in Seq(ChatMessage) /\ Paired(<<Plain(id, "text")>>)
<1> DEFINE r == Plain(id, "text")
           s == <<r>>
<1>1. r \in ChatMessage /\ r.role = "text"
      BY DEF Plain, Row, ChatMessage, Roles
<1> HIDE DEF r
<1>2. s \in Seq(ChatMessage) /\ \A k \in DOMAIN s : s[k].role = "text"
      BY <1>1
<1> HIDE DEF s
<1>3. Paired(s)
      BY <1>2, PairedRows DEF Orphan
<1> QED BY <1>2, <1>3 DEF s, r

(* A round has a call row with its result.                                 *)
LEMMA RoundIsPaired ==
    ASSUME NEW n \in Nat
    PROVE  /\ Round(n + 1, 1) \in Seq(ChatMessage) /\ Len(Round(n + 1, 1)) = 2
           /\ Paired(Round(n + 1, 1))
<1> DEFINE a == Row(n + 1, "calls", 0, RowSize)
           b == [k \in 1 .. 1 |-> Row(n + 1 + k, "tool", n + 1, RowSize)]
           c == <<a>>
           r == c \o b
<1>1. a \in ChatMessage /\ a.id = n + 1 /\ a.role = "calls"
      BY BoundsAssumption DEF Row, ChatMessage, Roles
<1>2. /\ Row(n + 1 + 1, "tool", n + 1, RowSize) \in ChatMessage
      /\ Row(n + 1 + 1, "tool", n + 1, RowSize).role = "tool"
      /\ Row(n + 1 + 1, "tool", n + 1, RowSize).of = n + 1
      BY BoundsAssumption DEF Row, ChatMessage, Roles
<1>3. b[1] = Row(n + 1 + 1, "tool", n + 1, RowSize) /\ b \in Seq(ChatMessage) /\ Len(b) = 1
      BY <1>2
<1>4. Round(n + 1, 1) = r
      BY DEF Round
<1> HIDE DEF a, b
<1>5. c \in Seq(ChatMessage) /\ Len(c) = 1 /\ c[1] = a
      BY <1>1
<1> HIDE DEF c
<1>6. /\ r \in Seq(ChatMessage) /\ Len(r) = Len(c) + Len(b)
      /\ \A i \in 1 .. Len(c) : r[i] = c[i]
      /\ \A i \in 1 .. Len(b) : r[Len(c) + i] = b[i]
  <2>1. c \in Seq(ChatMessage) /\ b \in Seq(ChatMessage)
        BY <1>3, <1>5
  <2> QED BY <2>1, Concatenation
<1> HIDE DEF r
<1>7. /\ Len(r) = 2 /\ r[1].id = n + 1 /\ r[1].role = "calls"
      /\ r[2].role = "tool" /\ r[2].of = n + 1
  <2>1. 1 \in 1 .. Len(c) /\ 1 \in 1 .. Len(b) /\ Len(c) + 1 = 2 /\ Len(c) + Len(b) = 2
        BY <1>3, <1>5
  <2>2. r[1] = a /\ r[2] = b[1]
        BY <1>5, <1>6, <2>1
  <2>3. Len(r) = 2
        BY <1>6, <2>1
  <2> QED BY <1>1, <1>2, <1>3, <2>2, <2>3
<1>8. \A i \in DOMAIN r : i = 1 \/ i = 2
  <2>1. r \in Seq(ChatMessage) /\ Len(r) = 2
        BY <1>6, <1>7
  <2>2. DOMAIN r = 1 .. 2
        BY <2>1
  <2> QED BY <2>2
<1>9. Paired(r)
  <2>1. ~Orphan(r, 1)
        BY <1>7 DEF Orphan
  <2>2. ~Orphan(r, 2)
        BY <1>7 DEF Orphan
  <2>3. \A i \in DOMAIN r : ~Orphan(r, i)
        BY <1>8, <2>1, <2>2
  <2>4. \A k \in DOMAIN r : r[k].role = "calls" => k < Len(r) /\ r[k + 1].of = r[k].id
    <3> SUFFICES ASSUME NEW k \in DOMAIN r, r[k].role = "calls"
                 PROVE  k < Len(r) /\ r[k + 1].of = r[k].id
        OBVIOUS
    <3>1. k = 1 /\ k + 1 = 2
          BY <1>7, <1>8
    <3> QED BY <1>7, <3>1
  <2> QED BY <2>3, <2>4, PairedRows
<1> QED BY <1>4, <1>6, <1>7, <1>9

-----------------------------------------------------------------------------
(* Without pins the caps cut a prefix, so that a call that stays keeps the *)
(* result behind it.                                                       *)
NoPins(turns) == \A i \in DOMAIN turns : ~turns[i].pinned

(* A safe part closed under the next row is paired.                        *)
LEMMA SuffixIsPaired ==
    ASSUME NEW turns, NEW I, NEW f, NEW s, Picks(f, I, s, turns), Safe(I, turns),
           NoPins(turns), Paired(turns),
           \A i \in I : i + 1 \in DOMAIN turns => i + 1 \in I
    PROVE  Paired(s) /\ NoPins(s)
<1>1. /\ turns \in Seq(ChatMessage) /\ s \in Seq(ChatMessage)
      /\ DOMAIN turns = 1 .. Len(turns) /\ DOMAIN s = 1 .. Len(s)
      /\ Len(s) \in Nat /\ Len(turns) \in Nat /\ I \subseteq DOMAIN turns
      BY DEF Picks
<1>2. \A k \in DOMAIN s : f[k] \in I /\ f[k] \in DOMAIN turns /\ s[k] = turns[f[k]]
      BY <1>1 DEF Picks
<1>3. /\ \A k, l \in DOMAIN s : k < l => f[k] < f[l]
      /\ \A i \in I : \E k \in DOMAIN s : f[k] = i
      BY <1>1 DEF Picks
<1>4. NoPins(s)
      BY <1>2 DEF NoPins
<1>5. ASSUME NEW k \in DOMAIN s PROVE ~Orphan(s, k)
  <2>1. OrphansKept(f, s, turns)
        BY SafePartKeepsPairs
  <2>2. ~Orphan(turns, f[k])
        BY <1>2, PairedRows
  <2>3. \A l \in 1 .. k - 1 : l \in DOMAIN s
        BY <1>1
  <2> QED BY <1>4, <2>1, <2>2, <2>3 DEF OrphansKept, NoPins
<1>6. ASSUME NEW k \in DOMAIN s, s[k].role = "calls"
      PROVE  k < Len(s) /\ s[k + 1].of = s[k].id
  <2> DEFINE i == f[k]
  <2>1. i \in I /\ i \in 1 .. Len(turns) /\ s[k] = turns[i]
        BY <1>1, <1>2
  <2>2. i < Len(turns) /\ turns[i + 1].of = turns[i].id
        BY <1>1, <1>6, <2>1, PairedRows
  <2>3. i + 1 \in I /\ i + 1 \in Nat
        BY <1>1, <2>1, <2>2
  <2>4. PICK l \in DOMAIN s : f[l] = i + 1
        BY <1>3, <2>3
  <2> HIDE DEF i
  <2>5. ~(l < k) /\ l # k
    <3>1. f[k] = i
          BY DEF i
    <3>2. ~(l < k)
          BY <1>3, <2>1, <2>4, <3>1
    <3> QED BY <2>1, <2>4, <3>1, <3>2
  <2>6. k + 1 \in DOMAIN s /\ k < Len(s)
        BY <1>1, <2>5
  <2>7. l = k + 1
    <3> SUFFICES ASSUME k + 1 < l PROVE FALSE
        BY <1>1, <2>5
    <3>1. f[k] < f[k + 1] /\ f[k + 1] < f[l] /\ f[k + 1] \in 1 .. Len(turns)
          BY <1>1, <1>2, <1>3, <2>6
    <3>2. f[k] = i /\ f[l] = i + 1
          BY <2>4 DEF i
    <3> QED BY <1>1, <2>1, <3>1, <3>2
  <2>8. s[k + 1] = turns[i + 1]
        BY <1>2, <2>4, <2>7
  <2> QED BY <2>1, <2>2, <2>6, <2>8
<1> QED BY <1>4, <1>5, <1>6, PairedRows

(* cap_transcript without pins.                                            *)
LEMMA CapKeepsPaired ==
    ASSUME NEW n \in Nat, NEW turns, Sound(turns, n), NoPins(turns), Paired(turns)
    PROVE  Paired(cap_transcript(turns)) /\ NoPins(cap_transcript(turns))
<1> DEFINE L == Len(turns)
           O == OldestUnpinned(turns, L - MaxTurns)
           K == DOMAIN turns \ O
           m == Min(K)
           I == keep(turns)
<1>1. /\ turns \in Seq(ChatMessage) /\ L \in Nat /\ DOMAIN turns = 1 .. L
      /\ MaxTurns \in Nat
      BY BoundsAssumption DEF Sound
<1>2. CASE L <= MaxTurns
      BY <1>2 DEF cap_transcript
<1>3. CASE L > MaxTurns
  <2>1. I \in SUBSET DOMAIN turns /\ Safe(I, turns)
        BY <1>3, KeepIsSafe
  <2>2. cap_transcript(turns) = Retain(turns, I)
        BY <1>1, <1>3 DEF cap_transcript
  <2>3. PICK f : Picks(f, I, Retain(turns, I), turns)
        BY <1>1, <2>1, RetainPicks
  <2>4. ASSUME NEW i \in I, i + 1 \in DOMAIN turns PROVE i + 1 \in I
    <3>1. i \in K /\ K # {} /\ i \in DOMAIN turns
          BY DEF keep
    <3>2. I = K \ LeadingTools(turns, m)
          BY <3>1 DEF keep
    <3>3. m \in Nat /\ m <= i
      <4>1. K \in SUBSET Nat
            BY <1>1
      <4> HIDE DEF K
      <4> QED BY <3>1, <4>1, MinIsLeast
    <3>4. i + 1 \in K
      <4> SUFFICES ASSUME i + 1 \in O PROVE FALSE
          BY <2>4
      <4>1. i < i + 1 /\ ~turns[i].pinned /\ L - MaxTurns \in Nat
            BY <1>1, <1>3, <3>1 DEF NoPins
      <4>2. i \in O
            BY <1>1, <3>1, <4>1, OldestIsDownClosed
      <4> QED BY <3>1, <4>2
    <3>5. i + 1 \notin LeadingTools(turns, m)
      <4> HIDE DEF m
      <4> SUFFICES ASSUME i + 1 \in LeadingTools(turns, m) PROVE FALSE
          OBVIOUS
      <4>1. \A j \in m .. i + 1 : turns[j].role = "tool"
            BY DEF LeadingTools
      <4>2. i \in m .. L /\ \A j \in m .. i : j \in m .. i + 1
            BY <1>1, <3>1, <3>3
      <4>3. i \in LeadingTools(turns, m)
            BY <4>1, <4>2 DEF LeadingTools
      <4> QED BY <3>2, <4>3 DEF m
    <3> QED BY <3>2, <3>4, <3>5
  <2> HIDE DEF I
  <2> QED BY <2>1, <2>2, <2>3, <2>4, SuffixIsPaired
<1> QED BY <1>1, <1>2, <1>3

(* trim_to_budget without pins.                                            *)
LEMMA TrimKeepsPaired ==
    ASSUME NEW n \in Nat, NEW turns, Sound(turns, n), NoPins(turns), Paired(turns)
    PROVE  Paired(trim_to_budget(turns))
<1> DEFINE L == Len(turns)
           cut == cutoff(turns)
<1>1. turns \in Seq(ChatMessage) /\ L \in Nat /\ DOMAIN turns = 1 .. L
      BY DEF Sound
<1>2. CASE cut = 1
      BY <1>2 DEF trim_to_budget
<1>3. CASE cut # 1
  <2>1. cut \in 1 .. L + 1
        BY <1>1, CutoffPlace
  <2> HIDE DEF cut
  <2>2. PICK c \in cut .. L + 1 :
              /\ cut + Cardinality(LeadingTools(turns, cut)) = c
              /\ c <= L => turns[c].role # "tool"
        BY <1>1, <2>1, LeadingIsRun
  <2>3. trim_to_budget(turns) = From(turns, c)
        BY <1>3, <2>2 DEF trim_to_budget, cut
  <2>4. c \in 1 .. L + 1
        BY <1>1, <2>1, <2>2
  <2>5. PICK f : Picks(f, c .. L, From(turns, c), turns)
        BY <1>1, <2>4, SuffixPicks
  <2>6. ASSUME NEW i \in c .. L, NEW j \in DOMAIN turns \ (c .. L),
               j < i, turns[i].role = "tool", turns[j].id = turns[i].of
        PROVE  FALSE
    <3>1. i \in DOMAIN turns /\ j \in DOMAIN turns /\ j < c
          BY <1>1, <2>4
    <3>2. \A k \in j + 1 .. i : turns[k].role = "tool"
          BY <2>6, <3>1 DEF Sound, Contiguous
    <3>3. c \in j + 1 .. i /\ c <= L
          BY <1>1, <2>4, <3>1
    <3> QED BY <2>2, <3>2, <3>3
  <2>7. Safe(c .. L, turns)
        BY <2>6 DEF Safe, NoPins
  <2>8. \A i \in c .. L : i + 1 \in DOMAIN turns => i + 1 \in c .. L
        BY <1>1, <2>4
  <2> QED BY <2>3, <2>5, <2>7, <2>8, SuffixIsPaired
<1> QED BY <1>2, <1>3

-----------------------------------------------------------------------------
(* prepare_turn records the prompt in a transcript as the turns before it  *)
(* left it.                                                                *)
LEMMA PromptRecorded ==
    ASSUME rows \in Nat, Sound(history, rows), RecordTurn("user", 1)
    PROVE  /\ rows' \in Nat /\ history' \in Seq(ChatMessage)
           /\ NoPins(history) /\ Paired(history) => Paired(history')
<1> DEFINE r == Row(rows + 1, "user", 0, 1)
           s == Append(history, r)
           t == cap_transcript(s)
           u == trim_to_budget(t)
<1>1. history \in Seq(ChatMessage) /\ rows' = rows + 1 /\ history' = u
      BY DEF Sound, RecordTurn, Adds
<1>2. Grown(s, history, rows, 1)
      BY <1>1, RowGrows
<1>3. Sound(s, rows + 1) /\ rows + 1 \in Nat /\ PinnedIn(s) = PinnedIn(history)
  <2> HIDE DEF s
  <2> QED BY <1>2, GrownIsSound
<1>4. Sound(t, rows + 1)
  <2> HIDE DEF s
  <2>1. SafePart(t, s)
        BY <1>3, CapIsSafe
  <2> QED BY <1>3, <2>1, SafeParts
<1>5. Sound(u, rows + 1)
  <2> HIDE DEF t
  <2>1. SafePart(u, t)
        BY <1>3, <1>4, TrimIsSafe
  <2> QED BY <1>3, <1>4, <2>1, SafeParts
<1>6. ASSUME NoPins(history), Paired(history) PROVE Paired(u)
  <2>1. s = history \o <<r>>
        BY <1>1
  <2>2. <<r>> \in Seq(ChatMessage) /\ Paired(<<r>>)
    <3>1. r \in ChatMessage /\ r.role = "user"
          BY DEF Row, ChatMessage, Roles
    <3> DEFINE q == <<r>>
    <3> HIDE DEF r
    <3>2. q \in Seq(ChatMessage) /\ \A k \in DOMAIN q : q[k].role = "user"
          BY <3>1
    <3> HIDE DEF q
    <3>3. Paired(q)
          BY <3>2, PairedRows DEF Orphan
    <3> QED BY <3>2, <3>3 DEF q
  <2> HIDE DEF r, s
  <2>3. Paired(s)
        BY <1>1, <1>6, <2>1, <2>2, PairedConcatenation
  <2>4. NoPins(s)
        BY <1>3, <1>6 DEF NoPins, PinnedIn
  <2>5. Paired(t) /\ NoPins(t)
        BY <1>3, <2>3, <2>4, CapKeepsPaired
  <2> HIDE DEF t
  <2> QED BY <1>3, <1>4, <2>5, TrimKeepsPaired
<1> HIDE DEF u
<1> QED BY <1>1, <1>3, <1>5, <1>6 DEF Sound

(* From the top of the retry loop to the end of the attempt.               *)
Running == pc = "drive" \/ Attempting

(* The shapes of the turn: what the variables hold once they are set.      *)
LoopInv ==
    /\ rows \in Nat /\ cursor \in Nat /\ sent \in Nat /\ steers \in Seq(Nat)
    /\ pc = "idle" /\ cursor = 0 => Sound(history, rows)
    /\ pc # "idle" => cursor > 0 /\ initial \in Seq(ChatMessage)
    /\ Running => messages \in Seq(ChatMessage)

(* The transcript found, the messages of the turn and the request are      *)
(* paired.                                                                 *)
PairInv ==
    /\ pc = "idle" /\ cursor = 0 => Paired(history) /\ NoPins(history)
    /\ pc # "idle" => Paired(initial)
    /\ Running => Paired(messages)

(* A transcript found is sound.                                            *)
LEMMA PriorsAreSound ==
    ASSUME NEW h \in Priors
    PROVE  Sound(h, Len(h))
<1>a. Inherited(h)
      BY PriorsAssumption
<1>b. h \in Seq(ChatMessage)
      BY <1>a DEF Inherited
<1>1. /\ Len(h) \in Nat /\ DOMAIN h = 1 .. Len(h)
      /\ \A i \in DOMAIN h : h[i].id = i /\ h[i].of \in 0 .. Len(h)
      /\ \A i \in DOMAIN h : h[i].pinned => h[i].role # "tool"
      BY <1>a, <1>b DEF Inherited
<1>2. Named(h, Len(h)) /\ Unique(h) /\ PinsAreTurns(h)
      BY <1>1 DEF Named, Unique, PinsAreTurns
<1>3. ASSUME NEW i \in DOMAIN h, NEW j \in DOMAIN h,
             j < i, h[i].role = "tool", h[j].id = h[i].of
      PROVE  h[j].role = "calls" /\ \A k \in j + 1 .. i : h[k].role = "tool"
  <2>1. j \in 1 .. i - 1 /\ h[i].of = j
        BY <1>1, <1>3
  <2> QED BY <1>a, <1>3, <2>1 DEF Inherited
<1> QED BY <1>b, <1>2, <1>3 DEF Sound, Contiguous

(* A turn starts on a transcript found.                                    *)
LEMMA LoopInit ==
    ASSUME TInit
    PROVE  LoopInv /\ (PriorsPaired => PairInv)
<1>1. /\ history \in Priors /\ rows = Len(history) /\ pc = "idle" /\ cursor = 0
      /\ steers = <<>> /\ sent = 0
      BY DEF TInit
<1>2. Sound(history, rows) /\ rows \in Nat
      BY <1>1, PriorsAreSound DEF Sound
<1>3. ~Running
      BY <1>1 DEF Running, Attempting
<1>4. PriorsPaired => Paired(history) /\ NoPins(history)
      BY <1>1 DEF PriorsPaired, NoPins
<1> QED BY <1>1, <1>2, <1>3, <1>4 DEF LoopInv, PairInv

(* The messages are sent with a round, with a text, with steers.           *)
LEMMA RequestGrows ==
    ASSUME LoopInv, pc = "stream"
    PROVE  /\ RunTools => /\ messages' = messages \o Round(rows + 1, 1)
                                             \o Steers(rows + 2, Len(steers))
                          /\ rows' = rows + 2 + Len(steers) /\ steers' = <<>>
           /\ \A e \in Errors, text, calls \in BOOLEAN : PartialError(e, text, calls) =>
                 \E said, done \in Seq(ChatMessage) :
                    /\ Paired(said) /\ Paired(done)
                    /\ Len(said) + Len(done) <= 3 /\ rows' = rows + Len(said) + Len(done)
                    /\ messages' = messages \o said \o done
                    /\ history' = IF done = <<>> THEN history \o said
                                  ELSE cap_transcript(history \o said \o done)
<1>1. rows \in Nat /\ messages \in Seq(ChatMessage) /\ Len(steers) \in Nat
      BY DEF LoopInv, Running, Attempting
<1>2. ASSUME RunTools
      PROVE  /\ messages' = messages \o Round(rows + 1, 1) \o Steers(rows + 2, Len(steers))
             /\ rows' = rows + 2 + Len(steers) /\ steers' = <<>>
      BY <1>2 DEF RunTools, ApplySteers, Steers
<1>3. ASSUME NEW e \in Errors, NEW text \in BOOLEAN, NEW calls \in BOOLEAN,
             PartialError(e, text, calls)
      PROVE  \E said, done \in Seq(ChatMessage) :
                /\ Paired(said) /\ Paired(done)
                /\ Len(said) + Len(done) <= 3 /\ rows' = rows + Len(said) + Len(done)
                /\ messages' = messages \o said \o done
                /\ history' = IF done = <<>> THEN history \o said
                              ELSE cap_transcript(history \o said \o done)
  <2> DEFINE said == IF text THEN <<Plain(rows + 1, "text")>> ELSE <<>>
             done == IF calls /\ ~is_retryable(e)
                     THEN Round(rows + 1 + Len(said), 1) ELSE <<>>
  <2>1. <<>> \in Seq(ChatMessage) /\ Paired(<<>>) /\ Len(<<>>) = 0
    <3>1. Paired(<<>>)
          BY PairedRows
    <3> QED BY <3>1
  <2>2. said \in Seq(ChatMessage) /\ Paired(said) /\ Len(said) \in 0 .. 1
    <3>1. CASE text
      <4>1. /\ <<Plain(rows + 1, "text")>> \in Seq(ChatMessage)
            /\ Paired(<<Plain(rows + 1, "text")>>)
            BY <1>1, TextIsPaired
      <4>2. Len(<<Plain(rows + 1, "text")>>) = 1
            OBVIOUS
      <4> QED BY <3>1, <4>1, <4>2
    <3>2. CASE ~text
          BY <2>1, <3>2
    <3> QED BY <3>1, <3>2
  <2>3. done \in Seq(ChatMessage) /\ Paired(done) /\ Len(done) \in 0 .. 2
    <3> HIDE DEF said
    <3> DEFINE n == rows + Len(said)
    <3>1. n \in Nat /\ rows + 1 + Len(said) = n + 1
          BY <1>1, <2>2
    <3>2. /\ Round(n + 1, 1) \in Seq(ChatMessage) /\ Len(Round(n + 1, 1)) = 2
          /\ Paired(Round(n + 1, 1))
          BY <3>1, RoundIsPaired
    <3>3. CASE calls /\ ~is_retryable(e)
          BY <3>1, <3>2, <3>3
    <3>4. CASE ~(calls /\ ~is_retryable(e))
          BY <2>1, <3>4
    <3> QED BY <3>3, <3>4
  <2>4. /\ rows' = rows + Len(said) + Len(done)
        /\ messages' = messages \o said \o done
        /\ history' = IF done = <<>> THEN history \o said
                      ELSE cap_transcript(history \o said \o done)
        BY <1>3 DEF PartialError
  <2> HIDE DEF said, done
  <2>5. Len(said) + Len(done) <= 3
    <3>1. Len(said) \in 0 .. 1 /\ Len(done) \in 0 .. 2
          BY <2>2, <2>3
    <3>2. \A x \in 0 .. 1, y \in 0 .. 2 : x + y <= 3
          OBVIOUS
    <3> QED BY <3>1, <3>2, Zenon
  <2> QED BY <2>2, <2>3, <2>4, <2>5
<1> QED BY <1>2, <1>3

(* Every step of the turn keeps both.                                      *)
LEMMA LoopStep ==
    ASSUME LoopInv, [TNext]_tvars
    PROVE  LoopInv' /\ (PairInv => PairInv')
<1> DEFINE Goal == LoopInv' /\ (PairInv => PairInv')
<1> USE DEF LoopInv, PairInv, Running, Attempting
<1>1. CASE Prepare
  <2>1. /\ pc = "idle" /\ cursor = 0 /\ RecordTurn("user", 1)
        /\ initial' = history' /\ cursor' = 1 /\ pc' = "attempt"
        /\ steers' = steers /\ sent' = sent
        BY <1>1 DEF Prepare, user
  <2>2. /\ rows' \in Nat /\ history' \in Seq(ChatMessage)
        /\ NoPins(history) /\ Paired(history) => Paired(history')
        BY <2>1, PromptRecorded
  <2> QED BY <2>1, <2>2
<1>2. CASE Resolve
      BY <1>2 DEF Resolve, vars, user
<1>3. CASE WalkEnds
      BY <1>3 DEF WalkEnds, vars, walk, user
<1>4. CASE Drive
      BY <1>4 DEF Drive, walk, user
<1>5. CASE CheckCancel
      BY <1>5 DEF CheckCancel, Fail, vars, walk, user
<1>6. CASE PassGate
  <2>1. /\ pc = "gate" /\ pc' = "stream" /\ cursor' = cursor /\ initial' = initial
        /\ sent' = sent /\ steers' = <<>> /\ rows' = rows + Len(steers)
        /\ messages' = messages \o Steers(rows, Len(steers))
        BY <1>6 DEF PassGate, ApplySteers, Steers, walk
  <2>2. Len(steers) \in Nat /\ rows \in Nat /\ messages \in Seq(ChatMessage)
        BY <2>1
  <2>3. /\ Steers(rows, Len(steers)) \in Seq(ChatMessage)
        /\ Paired(Steers(rows, Len(steers)))
        BY <2>2, SteersArePaired
  <2>4. /\ messages' \in Seq(ChatMessage)
        /\ Paired(messages) => Paired(messages')
        BY <2>1, <2>2, <2>3, Concatenation, PairedConcatenation
  <2> QED BY <2>1, <2>2, <2>4
<1>7. ASSUME NEW e \in Errors, StreamFails(e) PROVE Goal
      BY <1>7 DEF StreamFails, Fail, vars, walk, user
<1>8. ASSUME NEW e \in Errors, NEW text \in BOOLEAN, NEW calls \in BOOLEAN,
             PartialError(e, text, calls)
      PROVE  Goal
  <2>1. /\ pc = "stream" /\ pc' = "failed" /\ cursor' = cursor /\ initial' = initial
        /\ sent' = sent /\ steers' = steers
        BY <1>8 DEF PartialError, Fail, walk, user
  <2>2. PICK said \in Seq(ChatMessage), done \in Seq(ChatMessage) :
                /\ Paired(said) /\ Paired(done)
                /\ rows' = rows + Len(said) + Len(done)
                /\ messages' = messages \o said \o done
        BY <1>8, <2>1, RequestGrows
  <2>3. /\ messages \in Seq(ChatMessage) /\ rows' \in Nat
        BY <2>1, <2>2
  <2>4. /\ messages \o said \in Seq(ChatMessage)
        /\ Paired(messages) => Paired(messages \o said)
        BY <2>2, <2>3, Concatenation, PairedConcatenation
  <2>5. /\ messages' \in Seq(ChatMessage)
        /\ Paired(messages) => Paired(messages')
        BY <2>2, <2>4, Concatenation, PairedConcatenation
  <2> QED BY <2>1, <2>3, <2>5
<1>9. CASE OffTrack
      BY <1>9 DEF OffTrack, vars, user
<1>10. CASE Answer
       BY <1>10 DEF Answer, vars, walk, user
<1>11. CASE RunTools
  <2> DEFINE a == Round(rows + 1, 1)
             b == Steers(rows + 2, Len(steers))
  <2>1. /\ pc = "stream" /\ pc' \in {"accept", "round"} /\ cursor' = cursor
        /\ initial' = initial /\ sent' = sent
        BY <1>11 DEF RunTools, walk
  <2>2. /\ messages' = messages \o a \o b /\ rows' = rows + 2 + Len(steers)
        /\ steers' = <<>>
        BY <1>11, <2>1, RequestGrows
  <2>3. Len(steers) \in Nat /\ rows \in Nat /\ messages \in Seq(ChatMessage)
        BY <2>1
  <2>4. rows' \in Nat /\ rows + 2 \in Nat
        BY <2>2, <2>3
  <2>5. a \in Seq(ChatMessage) /\ Paired(a)
        BY <2>3, RoundIsPaired
  <2>6. b \in Seq(ChatMessage) /\ Paired(b)
        BY <2>3, <2>4, SteersArePaired
  <2> HIDE DEF a, b
  <2>7. /\ messages \o a \in Seq(ChatMessage)
        /\ Paired(messages) => Paired(messages \o a)
        BY <2>3, <2>5, Concatenation, PairedConcatenation
  <2>8. /\ messages' \in Seq(ChatMessage)
        /\ Paired(messages) => Paired(messages')
        BY <2>2, <2>6, <2>7, Concatenation, PairedConcatenation
  <2> QED BY <2>1, <2>2, <2>4, <2>8
<1>12. CASE Wait
       BY <1>12 DEF Wait, vars, walk, user
<1>13. CASE GiveUp
       BY <1>13 DEF GiveUp, vars, user
<1>14. CASE Accept
  <2>1. pc = "accept" /\ pc' = "idle" /\ cursor' = cursor /\ steers' = steers /\ sent' = sent
        BY <1>14 DEF Accept, walk, user
  <2>2. rows' \in Nat
        BY <1>14 DEF Accept, RecordTurn, Adds, vars
  <2> QED BY <2>1, <2>2
<1>15. CASE Steer
       BY <1>15 DEF Steer, vars, walk
<1>16. CASE Cancel
       BY <1>16 DEF Cancel, vars, walk
<1>17. CASE Pause
       BY <1>17 DEF Pause, vars, walk
<1>18. CASE UNCHANGED tvars
       BY <1>18 DEF tvars, vars, walk, user
<1> QED BY <1>1, <1>2, <1>3, <1>4, <1>5, <1>6, <1>7, <1>8, <1>9, <1>10, <1>11,
           <1>12, <1>13, <1>14, <1>15, <1>16, <1>17, <1>18 DEF TNext, Engine

(* The walk over endpoints, the retries and the rounds keep the shapes of  *)
(* the turn's state.                                                       *)
THEOREM LoopInvariant == TSpec => []LoopInv
<1>1. TInit => LoopInv
      BY LoopInit
<1>2. LoopInv /\ [TNext]_tvars => LoopInv'
      BY LoopStep
<1> QED BY <1>1, <1>2, PTL DEF TSpec

(* What a provider is sent is well formed on every endpoint and every      *)
(* re-drive, however rounds, steers, waits and broken streams alternate,   *)
(* if the transcript the turn finds is.                                    *)
THEOREM RequestsArePaired == PriorsPaired => (TSpec => []RequestPaired)
<1> SUFFICES ASSUME PriorsPaired PROVE TSpec => []RequestPaired
    OBVIOUS
<1>1. TInit => LoopInv /\ PairInv
      BY LoopInit
<1>2. LoopInv /\ PairInv /\ [TNext]_tvars => LoopInv' /\ PairInv'
      BY LoopStep
<1>3. LoopInv /\ PairInv => RequestPaired
      BY DEF PairInv, RequestPaired, Running, Attempting
<1> QED BY <1>1, <1>2, <1>3, PTL DEF TSpec

-----------------------------------------------------------------------------
(* The messages of the turn are where the history of an attempt starts,    *)
(* and the request has all that is in the history.                         *)
RewindInv ==
    /\ pc # "idle" => /\ history \in Seq(ChatMessage)
                      /\ base = Len(initial) /\ base <= Len(history)
                      /\ \A i \in 1 .. base : history[i] = initial[i]
    /\ Running => Ids(initial) \subseteq Ids(messages)
    /\ NoDeadRows

(* The row cap is not met by the round that runs: a text, and a call with  *)
(* its result, still fit.                                                  *)
RoomForRound == pc = "stream" => Len(history) + 3 <= MaxTurns

(* A history that grows still starts with the messages of the turn.        *)
LEMMA HistoryGrows ==
    ASSUME NEW h \in Seq(ChatMessage), NEW a \in Seq(ChatMessage),
           NEW g, g = h \o a, NEW b, NEW s \in Seq(ChatMessage), b = Len(s),
           b <= Len(h), \A i \in 1 .. b : h[i] = s[i]
    PROVE  /\ g \in Seq(ChatMessage) /\ b <= Len(g) /\ Len(g) = Len(h) + Len(a)
           /\ \A i \in 1 .. b : g[i] = s[i]
<1>1. /\ h \o a \in Seq(ChatMessage) /\ Len(h \o a) = Len(h) + Len(a)
      /\ \A i \in 1 .. Len(h) : (h \o a)[i] = h[i]
      BY Concatenation
<1>2. /\ g \in Seq(ChatMessage) /\ Len(g) = Len(h) + Len(a)
      /\ \A i \in 1 .. Len(h) : g[i] = h[i]
      BY <1>1
<1>3. Len(h) \in Nat /\ Len(a) \in Nat /\ b \in Nat
      OBVIOUS
<1>4. b <= Len(g) /\ \A i \in 1 .. b : i \in 1 .. Len(h)
      BY <1>2, <1>3
<1> QED BY <1>2, <1>4

(* Every step keeps that, so that cutting the history back to the messages *)
(* of the turn cuts the rows of the failed attempt and no other.           *)
LEMMA RewindStep ==
    ASSUME LoopInv, RewindInv, RoomForRound, [TNext]_tvars
    PROVE  RewindInv'
<1> USE DEF RewindInv, NoDeadRows, Running, Attempting
<1>1. CASE Prepare
  <2>1. /\ pc = "idle" /\ cursor = 0 /\ RecordTurn("user", 1)
        /\ initial' = history' /\ base' = Len(history') /\ pc' = "attempt"
        BY <1>1 DEF Prepare
  <2>2. history' \in Seq(ChatMessage)
        BY <2>1, PromptRecorded DEF LoopInv
  <2>3. Len(history') \in Nat
        BY <2>2
  <2> QED BY <2>1, <2>2, <2>3
<1>2. CASE Resolve
      BY <1>2 DEF Resolve, vars, user
<1>3. CASE WalkEnds
      BY <1>3 DEF WalkEnds, vars, walk, user
<1>4. CASE Drive
  <2> DEFINE cutBack == SubSeq(history, 1, base)
  <2>1. /\ pc = "drive" /\ pc' = "round" /\ initial' = initial /\ base' = base
        /\ messages' = messages
        /\ history' = IF Len(history) > base THEN cutBack ELSE history
        BY <1>4 DEF Drive, walk
  <2>2. /\ history \in Seq(ChatMessage) /\ initial \in Seq(ChatMessage)
        /\ Len(history) \in Nat /\ base \in Nat /\ base = Len(initial)
        /\ base <= Len(history)
    <3>1. /\ history \in Seq(ChatMessage) /\ initial \in Seq(ChatMessage)
          /\ base = Len(initial) /\ base <= Len(history)
          BY <2>1 DEF LoopInv
    <3> QED BY <3>1
  <2>3. /\ history' \in Seq(ChatMessage) /\ Len(history') = base
        /\ \A i \in 1 .. base : history'[i] = history[i]
    <3>1. CASE Len(history) > base
      <4>1. /\ cutBack \in Seq(ChatMessage) /\ Len(cutBack) = base
            /\ \A i \in 1 .. base : cutBack[i] = history[i]
            BY <2>2, <3>1
      <4>2. history' = cutBack
            BY <2>1, <3>1
      <4> HIDE DEF cutBack
      <4> QED BY <4>1, <4>2
    <3>2. CASE ~(Len(history) > base)
      <4>1. history' = history /\ Len(history) = base
            BY <2>1, <2>2, <3>2
      <4> QED BY <2>2, <4>1
    <3> QED BY <3>1, <3>2
  <2>4. \A i \in 1 .. base : history'[i] = initial[i]
        BY <2>1, <2>3
  <2>5. Ids(history') \subseteq Ids(initial)
    <3>1. DOMAIN history' = 1 .. base /\ DOMAIN initial = 1 .. base
          BY <2>2, <2>3
    <3> QED BY <2>4, <3>1 DEF Ids
  <2>6. Ids(initial) \subseteq Ids(messages)
        BY <2>1
  <2>7. Ids(initial') \subseteq Ids(messages') /\ Ids(history') \subseteq Ids(messages')
        BY <2>1, <2>5, <2>6
  <2>8. base' <= Len(history')
        BY <2>1, <2>2, <2>3
  <2> QED BY <2>1, <2>2, <2>3, <2>4, <2>7, <2>8
<1>5. CASE CheckCancel
      BY <1>5 DEF CheckCancel, Fail, vars, walk, user
<1>6. CASE PassGate
  <2>1. /\ pc = "gate" /\ pc' = "stream" /\ initial' = initial /\ base' = base
        /\ history' = history
        /\ messages' = messages \o Steers(rows, Len(steers))
        BY <1>6 DEF PassGate, ApplySteers, Steers, walk
  <2>2. Len(steers) \in Nat /\ rows \in Nat /\ messages \in Seq(ChatMessage)
        BY <2>1 DEF LoopInv
  <2>3. Steers(rows, Len(steers)) \in Seq(ChatMessage)
        BY <2>2, SteersArePaired
  <2>4. Ids(messages) \subseteq Ids(messages')
        BY <2>1, <2>2, <2>3, IdsOfConcatenation
  <2>5. Ids(initial) \subseteq Ids(messages) /\ Ids(history) \subseteq Ids(messages)
        BY <2>1
  <2>6. Ids(initial') \subseteq Ids(messages') /\ Ids(history') \subseteq Ids(messages')
        BY <2>1, <2>4, <2>5
  <2> QED BY <2>1, <2>6
<1>7. ASSUME NEW e \in Errors, StreamFails(e) PROVE RewindInv'
      BY <1>7 DEF StreamFails, Fail, vars, walk, user
<1>8. ASSUME NEW e \in Errors, NEW text \in BOOLEAN, NEW calls \in BOOLEAN,
             PartialError(e, text, calls)
      PROVE  RewindInv'
  <2>1. /\ pc = "stream" /\ pc' = "failed" /\ initial' = initial /\ base' = base
        BY <1>8 DEF PartialError, Fail, walk
  <2>2. PICK said \in Seq(ChatMessage), done \in Seq(ChatMessage) :
                /\ Len(said) + Len(done) <= 3
                /\ messages' = messages \o said \o done
                /\ history' = IF done = <<>> THEN history \o said
                              ELSE cap_transcript(history \o said \o done)
        BY <1>8, <2>1, RequestGrows
  <2>3. /\ messages \in Seq(ChatMessage) /\ history \in Seq(ChatMessage)
        /\ initial \in Seq(ChatMessage)
        /\ base = Len(initial) /\ base <= Len(history)
        /\ \A i \in 1 .. base : history[i] = initial[i]
        /\ Ids(initial) \subseteq Ids(messages) /\ Ids(history) \subseteq Ids(messages)
        BY <2>1 DEF LoopInv
  <2> DEFINE h == history \o said
             g == h \o done
             m == messages \o said
  <2>4. /\ h \in Seq(ChatMessage) /\ base <= Len(h) /\ Len(h) = Len(history) + Len(said)
        /\ \A i \in 1 .. base : h[i] = initial[i]
    <3> HIDE DEF h
    <3>1. h = history \o said
          BY DEF h
    <3> QED BY <2>3, <3>1, HistoryGrows
  <2>5. /\ Ids(h) = Ids(history) \cup Ids(said) /\ m \in Seq(ChatMessage)
        /\ Ids(m) = Ids(messages) \cup Ids(said)
        BY <2>3, IdsOfConcatenation, Concatenation
  <2>6. messages' = m \o done
        BY <2>2
  <2> HIDE DEF h, m
  <2>7. /\ g \in Seq(ChatMessage) /\ base <= Len(g) /\ Len(g) = Len(h) + Len(done)
        /\ \A i \in 1 .. base : g[i] = initial[i]
    <3> HIDE DEF g
    <3>1. g = h \o done
          BY DEF g
    <3>2. /\ h \in Seq(ChatMessage) /\ done \in Seq(ChatMessage)
          /\ initial \in Seq(ChatMessage) /\ base = Len(initial) /\ base <= Len(h)
          /\ \A i \in 1 .. base : h[i] = initial[i]
          BY <2>3, <2>4
    <3> QED BY <3>1, <3>2, HistoryGrows
  <2>8. /\ Ids(g) = Ids(h) \cup Ids(done)
        /\ Ids(messages') = Ids(m) \cup Ids(done)
        BY <2>4, <2>5, <2>6, IdsOfConcatenation
  <2> HIDE DEF g
  <2>9. history' = h \/ history' = g
    <3>1. CASE done = <<>>
          BY <2>2, <3>1 DEF h
    <3>2. CASE done # <<>>
      <4>1. history' = cap_transcript(g)
            BY <2>2, <3>2 DEF g, h
      <4>2. Len(g) <= MaxTurns
        <5>1. /\ Len(history) \in Nat /\ Len(said) \in Nat /\ Len(done) \in Nat
              /\ MaxTurns \in Nat
              BY <2>3, BoundsAssumption
        <5>2. Len(g) = Len(history) + Len(said) + Len(done)
              BY <2>4, <2>7
        <5>3. Len(history) + 3 <= MaxTurns /\ Len(said) + Len(done) <= 3
              BY <2>1, <2>2 DEF RoomForRound
        <5> QED BY <5>1, <5>2, <5>3
      <4> QED BY <4>1, <4>2 DEF cap_transcript
    <3> QED BY <3>1, <3>2
  <2>10. Ids(initial') \subseteq Ids(messages') /\ Ids(history') \subseteq Ids(messages')
        BY <2>1, <2>3, <2>5, <2>8, <2>9
  <2>11. /\ history' \in Seq(ChatMessage) /\ base' = Len(initial') /\ base' <= Len(history')
         /\ \A i \in 1 .. base' : history'[i] = initial'[i]
        BY <2>1, <2>3, <2>4, <2>7, <2>9
  <2> QED BY <2>1, <2>10, <2>11
<1>9. CASE OffTrack
      BY <1>9 DEF OffTrack, vars, user
<1>10. CASE Answer
       BY <1>10 DEF Answer, vars, walk, user
<1>11. CASE RunTools
  <2> DEFINE a == Round(rows + 1, 1)
             b == Steers(rows + 2, Len(steers))
             g == history \o a
             m == messages \o a
  <2>1. /\ pc = "stream" /\ pc' \in {"accept", "round"} /\ base' = base
        /\ initial' = initial /\ history' = cap_transcript(g)
        BY <1>11 DEF RunTools, walk
  <2>2. messages' = m \o b
        BY <1>11, <2>1, RequestGrows
  <2>3. /\ messages \in Seq(ChatMessage) /\ history \in Seq(ChatMessage)
        /\ initial \in Seq(ChatMessage)
        /\ base = Len(initial) /\ base <= Len(history)
        /\ \A i \in 1 .. base : history[i] = initial[i]
        /\ Ids(initial) \subseteq Ids(messages) /\ Ids(history) \subseteq Ids(messages)
        BY <2>1 DEF LoopInv
  <2>4. Len(steers) \in Nat /\ rows \in Nat /\ rows + 2 \in Nat
        BY DEF LoopInv
  <2>5. a \in Seq(ChatMessage) /\ Len(a) = 2
        BY <2>4, RoundIsPaired
  <2>6. b \in Seq(ChatMessage)
        BY <2>4, SteersArePaired
  <2> HIDE DEF a, b
  <2>7. /\ g \in Seq(ChatMessage) /\ base <= Len(g) /\ Len(g) = Len(history) + Len(a)
        /\ \A i \in 1 .. base : g[i] = initial[i]
    <3> HIDE DEF g
    <3>1. g = history \o a
          BY DEF g
    <3>2. /\ history \in Seq(ChatMessage) /\ a \in Seq(ChatMessage)
          /\ initial \in Seq(ChatMessage) /\ base = Len(initial)
          /\ base <= Len(history) /\ \A i \in 1 .. base : history[i] = initial[i]
          BY <2>3, <2>5
    <3> QED BY <3>1, <3>2, HistoryGrows
  <2>8. /\ Ids(g) = Ids(history) \cup Ids(a) /\ m \in Seq(ChatMessage)
        /\ Ids(m) = Ids(messages) \cup Ids(a)
        BY <2>3, <2>5, IdsOfConcatenation, Concatenation
  <2> HIDE DEF g, m
  <2>9. Ids(messages') = Ids(m) \cup Ids(b)
        BY <2>2, <2>6, <2>8, IdsOfConcatenation
  <2>10. history' = g
    <3>1. Len(history) \in Nat /\ MaxTurns \in Nat
          BY <2>3, BoundsAssumption
    <3>2. Len(history) + 3 <= MaxTurns
          BY <2>1 DEF RoomForRound
    <3>3. Len(g) <= MaxTurns
          BY <2>5, <2>7, <3>1, <3>2
    <3> QED BY <2>1, <3>3 DEF cap_transcript
  <2>11. Ids(initial') \subseteq Ids(messages') /\ Ids(history') \subseteq Ids(messages')
         BY <2>1, <2>3, <2>8, <2>9, <2>10
  <2>12. /\ history' \in Seq(ChatMessage) /\ base' = Len(initial') /\ base' <= Len(history')
         /\ \A i \in 1 .. base' : history'[i] = initial'[i]
         BY <2>1, <2>3, <2>7, <2>10
  <2> QED BY <2>1, <2>11, <2>12
<1>12. CASE Wait
       BY <1>12 DEF Wait, vars, walk, user
<1>13. CASE GiveUp
       BY <1>13 DEF GiveUp, vars, user
<1>14. CASE Accept
       BY <1>14 DEF Accept
<1>15. CASE Steer
       BY <1>15 DEF Steer, vars, walk
<1>16. CASE Cancel
       BY <1>16 DEF Cancel, vars, walk
<1>17. CASE Pause
       BY <1>17 DEF Pause, vars, walk
<1>18. CASE UNCHANGED tvars
       BY <1>18 DEF tvars, vars, walk, user
<1> QED BY <1>1, <1>2, <1>3, <1>4, <1>5, <1>6, <1>7, <1>8, <1>9, <1>10, <1>11,
           <1>12, <1>13, <1>14, <1>15, <1>16, <1>17, <1>18 DEF TNext, Engine

(* The rows of an attempt that failed do not outlive it, while the rounds  *)
(* stay below the row cap.                                                 *)
THEOREM DeadRowsAreCut == TSpec /\ []RoomForRound => []NoDeadRows
<1>1. TInit => RewindInv
      BY DEF TInit, RewindInv, NoDeadRows, Running, Attempting
<1>2. LoopInv /\ RewindInv /\ RoomForRound /\ [TNext]_tvars => RewindInv'
      BY RewindStep
<1>3. RewindInv => NoDeadRows
      BY DEF RewindInv
<1> QED BY <1>1, <1>2, <1>3, LoopInvariant, PTL DEF TSpec
=============================================================================
