--------------------------- MODULE RequestProofs ----------------------------
(***************************************************************************)
(* Proofs about a line request, for any chip, any settings, whatever the   *)
(* configuration, and calls that name lines in any order: the encoding has *)
(* each line's settings and is refused only for want of room, the kernel   *)
(* holds the lines for the request exactly while there is one, and         *)
(* configurations and values reach the lines they name.  Then, of the C,   *)
(* D-Bus and Python paths to one, for any options, variants and            *)
(* dictionaries: what was asked for is what the lines do, what is shown of *)
(* them, and what is read back.                                            *)
(***************************************************************************)
EXTENDS RequestPaths, FiniteSetTheorems, SequenceTheorems, WellFoundedInduction, TLAPS

-----------------------------------------------------------------------------
(* Lists *)

\* A non-empty set of naturals has a least element.
LEMMA LeastIs ==
  ASSUME NEW T \in SUBSET Nat, T # {}
  PROVE  Min(T) \in T /\ \A y \in T : Min(T) <= y
<1> DEFINE R == OpToRel(<, Nat)
<1>1. IsWellFoundedOn(R, Nat)
  BY NatLessThanWellFounded
<1>2. \E x \in T : \A y \in T : ~(<<y, x>> \in R)
  <2> HIDE DEF R
  <2> QED BY <1>1, WFMin
<1>3. PICK x \in T : \A y \in T : ~(<<y, x>> \in R)
  BY <1>2
<1>4. \A y \in T : ~(y < x)
  BY <1>3 DEF OpToRel
<1>5. \A y \in T : x <= y
  BY <1>4
<1> QED BY <1>5 DEF Min

\* The greatest of finitely many naturals.
LEMMA MaxIs ==
  ASSUME NEW n \in Nat, NEW S \in SUBSET (0..n), S # {}
  PROVE  Max(S) \in S /\ \A x \in S : x <= Max(S)
<1> DEFINE T == {n - x : x \in S}
<1>1. T \subseteq Nat /\ T # {}
  <2>1. \A x \in S : x \in 0..n
    OBVIOUS
  <2>2. \A x \in 0..n : n - x \in Nat
    OBVIOUS
  <2> QED BY <2>1, <2>2
<1>2. PICK y \in T : \A z \in T : y <= z
  <2> HIDE DEF T
  <2> QED BY <1>1, LeastIs
<1>3. PICK x \in S : y = n - x
  BY <1>2
<1>4. \A z \in S : x >= z
  <2> TAKE z \in S
  <2>1. n - x <= n - z
    BY <1>2, <1>3
  <2> QED BY <2>1
<1>5. Max(S) \in S /\ \A z \in S : Max(S) >= z
  BY <1>4 DEF Max
<1> QED BY <1>5

\* Ascending lists the members of the set.
LEMMA AscendingLists ==
  ASSUME NEW S \in SUBSET Nat, IsFiniteSet(S)
  PROVE  /\ Cardinality(S) \in Nat
         /\ Ascending(S) \in [1..Cardinality(S) -> S]
         /\ \A x \in S : \E k \in 1..Cardinality(S) : Ascending(S)[k] = x
<1> DEFINE n == Cardinality(S)
           Upto(x) == {y \in S : y <= x}
           rank == [x \in S |-> Cardinality(Upto(x))]
<1>1. n \in Nat
  BY FS_CardinalityType
<1>2. \A x \in S : IsFiniteSet(Upto(x)) /\ rank[x] \in 1..n
  <2> TAKE x \in S
  <2>1. Upto(x) \in SUBSET S /\ x \in Upto(x)
    OBVIOUS
  <2>2. IsFiniteSet(Upto(x)) /\ Cardinality(Upto(x)) <= n
    BY <2>1, FS_Subset
  <2>3. Cardinality(Upto(x)) \in Nat /\ Cardinality(Upto(x)) # 0
    BY <2>1, <2>2, FS_CardinalityType, FS_EmptySet
  <2> QED BY <1>1, <2>2, <2>3
<1>3. \A x, y \in S : x < y => rank[x] < rank[y]
  <2> SUFFICES ASSUME NEW x \in S, NEW y \in S, x < y PROVE rank[x] < rank[y]
    OBVIOUS
  <2>1. Upto(x) \in SUBSET Upto(y) /\ y \in Upto(y) /\ y \notin Upto(x)
    <3>1. x \in Nat /\ y \in Nat /\ \A z \in S : z \in Nat
      OBVIOUS
    <3>2. \A z \in S : z <= x => z <= y
      BY <3>1
    <3>3. y <= y /\ ~(y <= x)
      BY <3>1
    <3> QED BY <3>2, <3>3
  <2>2. Cardinality(Upto(x)) <= Cardinality(Upto(y)) /\ Cardinality(Upto(x)) # Cardinality(Upto(y))
    BY <2>1, <1>2, FS_Subset
  <2> QED BY <2>2, <1>2
<1>4. \A x, y \in S : rank[x] = rank[y] => x = y
  <2> SUFFICES ASSUME NEW x \in S, NEW y \in S, rank[x] = rank[y], x # y PROVE FALSE
    OBVIOUS
  <2>1. x < y \/ y < x
    OBVIOUS
  <2>2. rank[x] < rank[y] \/ rank[y] < rank[x]
    BY <2>1, <1>3
  <2>3. rank[x] \in Int /\ rank[y] \in Int
    BY <1>2
  <2> HIDE DEF rank
  <2> QED BY <2>2, <2>3
<1>5. \A k \in 1..n : \E x \in S : rank[x] = k
  <2>1. rank \in [S -> 1..n]
    BY <1>2
  <2>2. rank \in Injection(S, 1..n)
    <3> HIDE DEF rank
    <3> QED BY <2>1, <1>4 DEF Injection, IsInjective
  <2>3. IsFiniteSet(1..n) /\ Cardinality(1..n) = n
    BY <1>1, FS_Interval
  <2>4. rank \in Surjection(S, 1..n)
    <3> HIDE DEF rank
    <3> QED BY <2>2, <2>3, FS_Injection
  <2> HIDE DEF rank
  <2> QED BY <2>4 DEF Surjection
<1>6. \A k \in 1..n : Ascending(S)[k] \in S /\ rank[Ascending(S)[k]] = k
  <2> TAKE k \in 1..n
  <2>1. PICK x \in S : rank[x] = k
    BY <1>5
  <2>2. Ascending(S)[k] = CHOOSE z \in S : Cardinality(Upto(z)) = k
    BY DEF Ascending
  <2>3. Cardinality(Upto(x)) = k
    BY <2>1
  <2> HIDE DEF Upto
  <2> QED BY <2>2, <2>3
<1>7. Ascending(S) \in [1..n -> S]
  <2>1. \A k \in 1..n : (CHOOSE z \in S : Cardinality({y \in S : y <= z}) = k) \in S
    BY <1>6 DEF Ascending
  <2> QED BY <2>1 DEF Ascending
<1>8. \A x \in S : \E k \in 1..n : Ascending(S)[k] = x
  <2> TAKE x \in S
  <2> DEFINE k == rank[x]
  <2>1. k \in 1..n
    BY <1>2
  <2>2. Ascending(S)[k] \in S /\ rank[Ascending(S)[k]] = rank[x]
    BY <2>1, <1>6
  <2>3. Ascending(S)[k] = x
    <3> HIDE DEF rank
    <3> QED BY <2>2, <1>4
  <2> QED BY <2>1, <2>3
<1> QED BY <1>1, <1>7, <1>8

\* Sets of indices of a sequence.
LEMMA IndexSet ==
  ASSUME NEW n \in Nat, NEW T \in SUBSET (1..n)
  PROVE  T \in SUBSET Nat /\ IsFiniteSet(T)
<1>1. \A j \in 1..n : j \in Nat
  OBVIOUS
<1>2. IsFiniteSet(1..n)
  BY FS_Interval
<1> QED BY <1>1, <1>2, FS_Subset

\* The first occurrences of a list have its members.
LEMMA FirstOccurrencesMembers ==
  ASSUME NEW S, NEW s \in Seq(S)
  PROVE  FirstOccurrences(s) \in Seq(S) /\ ToSet(FirstOccurrences(s)) = ToSet(s)
<1> DEFINE T == FirstIndices(s)
           a == Ascending(T)
           m == Cardinality(T)
<1>1. T \in SUBSET (1..Len(s)) /\ Len(s) \in Nat
  BY DEF FirstIndices
<1>2. T \in SUBSET Nat /\ IsFiniteSet(T)
  <2> HIDE DEF T
  <2> QED BY <1>1, IndexSet
<1>3. m \in Nat /\ a \in [1..m -> T] /\ \A x \in T : \E k \in 1..m : a[k] = x
  <2> HIDE DEF T
  <2> QED BY <1>2, AscendingLists
<1>4. FirstOccurrences(s) = [k \in DOMAIN a |-> s[a[k]]]
  BY DEF FirstOccurrences
<1> HIDE DEF a, m
<1>5. \A k \in 1..m : a[k] \in T /\ a[k] \in 1..Len(s) /\ s[a[k]] \in S
  BY <1>1, <1>3
<1> HIDE DEF T
<1>6. FirstOccurrences(s) = [k \in 1..m |-> s[a[k]]]
  BY <1>3, <1>4
<1>7. FirstOccurrences(s) \in [1..m -> S]
  BY <1>5, <1>6
<1>8. FirstOccurrences(s) \in Seq(S)
  BY <1>3, <1>7
<1>9. \A x \in ToSet(FirstOccurrences(s)) : x \in ToSet(s)
  <2> TAKE x \in ToSet(FirstOccurrences(s))
  <2>1. PICK k \in 1..m : x = s[a[k]]
    BY <1>6 DEF ToSet
  <2> QED BY <1>5, <2>1 DEF ToSet
<1>10. \A x \in ToSet(s) : x \in ToSet(FirstOccurrences(s))
  <2> TAKE x \in ToSet(s)
  <2> DEFINE X == {j \in 1..Len(s) : s[j] = x}
             j == Min(X)
  <2>1. X \in SUBSET Nat /\ X # {}
    BY DEF ToSet
  <2>2. j \in X /\ \A k \in X : j <= k
    <3> HIDE DEF X
    <3> QED BY <2>1, LeastIs
  <2> HIDE DEF j
  <2>3. \A k \in 1..j - 1 : s[k] # s[j]
    <3> SUFFICES ASSUME NEW k \in 1..j - 1, s[k] = s[j] PROVE FALSE
      OBVIOUS
    <3>1. k \in X /\ ~(j <= k)
      BY <2>2, <1>1
    <3> QED BY <2>2, <3>1
  <2>4. j \in T
    BY <2>2, <2>3 DEF FirstIndices, T
  <2>5. PICK k \in 1..m : a[k] = j
    BY <1>3, <2>4
  <2>6. FirstOccurrences(s)[k] = x
    BY <1>6, <2>2, <2>5
  <2> QED BY <1>6, <2>6 DEF ToSet
<1> QED BY <1>8, <1>9, <1>10

\* The first occurrences of a list of distinct members are the list.
LEMMA DistinctFirst ==
  ASSUME NEW S, NEW s \in Seq(S), IsInjective(s)
  PROVE  FirstOccurrences(s) = s
<1> DEFINE n == Len(s)
           a == Ascending(1..n)
<1>1. n \in Nat /\ DOMAIN s = 1..n
  OBVIOUS
<1>2. FirstIndices(s) = 1..n
  <2>1. ASSUME NEW j \in 1..n, NEW k \in 1..j - 1, s[k] = s[j] PROVE FALSE
    <3>1. k \in 1..n /\ k # j
      BY <1>1
    <3> QED BY <1>1, <2>1, <3>1 DEF IsInjective
  <2> HIDE DEF n
  <2> QED BY <1>1, <2>1 DEF FirstIndices
<1> HIDE DEF n
<1>3. \A x \in 1..n : Cardinality({y \in 1..n : y <= x}) = x
  <2> TAKE x \in 1..n
  <2>1. {y \in 1..n : y <= x} = 1..x
    BY <1>1
  <2>2. Cardinality(1..x) = x
    BY <1>1, FS_Interval
  <2> QED BY <2>1, <2>2
<1>4. IsFiniteSet(1..n) /\ Cardinality(1..n) = n
  BY <1>1, FS_Interval
<1>5. DOMAIN a = 1..n /\ \A k \in 1..n : a[k] = k
  <2>1. a = [k \in 1..n |-> CHOOSE x \in 1..n : Cardinality({y \in 1..n : y <= x}) = k]
    BY <1>4 DEF Ascending
  <2>2. \A k \in 1..n :
          (CHOOSE x \in 1..n : Cardinality({y \in 1..n : y <= x}) = k) = k
    BY <1>3
  <2> QED BY <2>1, <2>2
<1> HIDE DEF a
<1>6. FirstOccurrences(s) = [k \in DOMAIN a |-> s[a[k]]]
  BY <1>2 DEF FirstOccurrences, a
<1>7. FirstOccurrences(s) = [k \in 1..n |-> s[k]]
  BY <1>5, <1>6
<1> QED BY <1>1, <1>7

\* Each member of such a list is at one place.
LEMMA IndexOfDistinct ==
  ASSUME NEW s, IsInjective(s), NEW k \in DOMAIN s
  PROVE  IndexIn(s, s[k]) = k
BY DEF IsInjective, IndexIn

\* The beginning of such a list is one.
LEMMA DistinctPrefix ==
  ASSUME NEW S, NEW s \in Seq(S), NEW t \in Seq(S), IsInjective(s \o t)
  PROVE  IsInjective(s)
<1>1. DOMAIN s = 1..Len(s) /\ \A k \in DOMAIN s : k \in DOMAIN (s \o t) /\ (s \o t)[k] = s[k]
  OBVIOUS
<1> DEFINE st == s \o t
<1> HIDE DEF st
<1>2. \A k \in DOMAIN s : k \in DOMAIN st /\ st[k] = s[k]
  BY <1>1 DEF st
<1>3. IsInjective(st)
  BY DEF st
<1> QED BY <1>2, <1>3 DEF IsInjective

\* The last of finitely many places.
LEMMA LastPlaceIs ==
  ASSUME NEW s, NEW n \in Nat, DOMAIN s = 1..n, NEW o \in Range(s)
  PROVE  /\ LastFor(s, o) \in DOMAIN s /\ s[LastFor(s, o)] = o
         /\ \A k \in DOMAIN s : s[k] = o => k <= LastFor(s, o)
<1> DEFINE K == {k \in DOMAIN s : s[k] = o}
<1>1. K \in SUBSET (0..n) /\ K # {}
  BY DEF Range
<1>2. Max(K) \in K /\ \A k \in K : k <= Max(K)
  <2> HIDE DEF K
  <2> QED BY <1>1, MaxIs
<1> QED BY <1>2 DEF LastFor

-----------------------------------------------------------------------------
(* The encoding *)

\* What is not done is done as one: of two lines of the same key, both or none.
Closed(key, done) == \A i, j \in DOMAIN key : key[i] = key[j] => (i \in done <=> j \in done)

\* Each line that is not done shares the attribute of the first of its key, ...
LEMMA TakerOf ==
  ASSUME NEW S, NEW key \in Seq(S), NEW done, Closed(key, done), NEW i \in DOMAIN key \ done
  PROVE  \E t \in Takers(key, done) : i \in Sharing(key, t)
<1> DEFINE X == {j \in 1..Len(key) : key[j] = key[i]}
           t == Min(X)
<1>1. X \in SUBSET Nat /\ i \in X
  OBVIOUS
<1>2. t \in X /\ \A k \in X : t <= k
  <2> HIDE DEF X
  <2> QED BY <1>1, LeastIs
<1> HIDE DEF t
<1>3. t \in DOMAIN key /\ key[t] = key[i] /\ t <= i
  BY <1>1, <1>2
<1>4. t \notin done
  BY <1>3 DEF Closed
<1>5. \A j \in 1..(t - 1) : key[j] # key[t]
  <2> SUFFICES ASSUME NEW j \in 1..(t - 1), key[j] = key[t] PROVE FALSE
    OBVIOUS
  <2>1. j \in X /\ ~(t <= j)
    BY <1>3
  <2> QED BY <1>2, <2>1
<1> QED BY <1>3, <1>4, <1>5 DEF Takers, Sharing

\* ... and the first is one only.
LEMMA TakersDiffer ==
  ASSUME NEW S, NEW key \in Seq(S), NEW done,
         NEW t \in Takers(key, done), NEW u \in Takers(key, done), key[t] = key[u]
  PROVE  t = u
<1>1. t \in 1..Len(key) /\ u \in 1..Len(key) /\ t \notin done /\ u \notin done
  BY DEF Takers
<1>2. ~(t < u) /\ ~(u < t)
  BY <1>1 DEF Takers
<1> QED BY <1>1, <1>2

LEMMA TakersFinite ==
  ASSUME NEW S, NEW key \in Seq(S), NEW done
  PROVE  /\ Takers(key, done) \in SUBSET (1..Len(key)) /\ Takers(key, done) \in SUBSET Nat
         /\ IsFiniteSet(Takers(key, done))
<1> DEFINE T == Takers(key, done)
           n == Len(key)
<1>1. T \in SUBSET (1..n) /\ n \in Nat
  BY DEF Takers
<1> HIDE DEF T, n
<1>2. T \in SUBSET Nat /\ IsFiniteSet(T)
  BY <1>1, IndexSet
<1> QED BY <1>1, <1>2 DEF T, n

\* Lines that share an attribute have the same key.
LEMMA SharingSame ==
  ASSUME NEW key, NEW t, NEW i \in Sharing(key, t)
  PROVE  key[i] = key[t]
BY DEF Sharing

-----------------------------------------------------------------------------
\* The takers of the periods, and of the flags.
PeriodTakers(cfg) == Takers(PeriodKeys(cfg), NotDebounced(cfg))
FlagTakers(cfg) == Takers(FlagKeys(cfg), TakenByDefault(cfg))

LEMMA KeysAre ==
  ASSUME NEW cfg \in Seq(AllSettings)
  PROVE  /\ PeriodKeys(cfg) \in Seq(Nat) /\ Len(PeriodKeys(cfg)) = Len(cfg)
         /\ \A i \in DOMAIN cfg : PeriodKeys(cfg)[i] = cfg[i].debounce
         /\ FlagKeys(cfg) \in Seq({FlagPart(s) : s \in AllSettings})
         /\ Len(FlagKeys(cfg)) = Len(cfg)
         /\ \A i \in DOMAIN cfg : FlagKeys(cfg)[i] = FlagPart(cfg[i])
         /\ Closed(PeriodKeys(cfg), NotDebounced(cfg))
         /\ Closed(FlagKeys(cfg), TakenByDefault(cfg))
<1>1. \A i \in DOMAIN cfg : cfg[i] \in AllSettings
  OBVIOUS
<1>2. \A i \in DOMAIN cfg : cfg[i].debounce \in Nat
  BY <1>1 DEF AllSettings
<1>3. DOMAIN cfg = 1..Len(cfg) /\ Len(cfg) \in Nat
  OBVIOUS
<1>4. PeriodKeys(cfg) \in [1..Len(cfg) -> Nat]
  BY <1>2, <1>3 DEF PeriodKeys
<1>5. FlagKeys(cfg) \in [1..Len(cfg) -> {FlagPart(s) : s \in AllSettings}]
  BY <1>1, <1>3 DEF FlagKeys
<1>6. Closed(PeriodKeys(cfg), NotDebounced(cfg))
  BY DEF Closed, PeriodKeys, NotDebounced
<1>7. Closed(FlagKeys(cfg), TakenByDefault(cfg))
  BY DEF Closed, FlagKeys, TakenByDefault, SettingsEqual
<1>8. \A i \in DOMAIN cfg : PeriodKeys(cfg)[i] = cfg[i].debounce
  BY DEF PeriodKeys
<1>9. \A i \in DOMAIN cfg : FlagKeys(cfg)[i] = FlagPart(cfg[i])
  BY DEF FlagKeys
<1>10. PeriodKeys(cfg) \in Seq(Nat) /\ Len(PeriodKeys(cfg)) = Len(cfg)
  BY <1>3, <1>4
<1>11. FlagKeys(cfg) \in Seq({FlagPart(s) : s \in AllSettings})
       /\ Len(FlagKeys(cfg)) = Len(cfg)
  BY <1>3, <1>5
<1> QED BY <1>6, <1>7, <1>8, <1>9, <1>10, <1>11

\* The members of two lists in one.
LEMMA ConcatMembers ==
  ASSUME NEW S, NEW s \in Seq(S), NEW t \in Seq(S)
  PROVE  /\ s \o t \in Seq(S) /\ Len(s \o t) = Len(s) + Len(t)
         /\ ToSet(s \o t) = ToSet(s) \cup ToSet(t)
<1>1. /\ s \o t \in Seq(S) /\ Len(s \o t) = Len(s) + Len(t)
      /\ Len(s) \in Nat /\ Len(t) \in Nat
      /\ DOMAIN s = 1..Len(s) /\ DOMAIN t = 1..Len(t) /\ DOMAIN (s \o t) = 1..(Len(s) + Len(t))
  OBVIOUS
<1>2. /\ \A k \in 1..Len(s) : (s \o t)[k] = s[k]
      /\ \A k \in 1..Len(t) : (s \o t)[Len(s) + k] = t[k]
  OBVIOUS
<1>3. \A x \in ToSet(s) : x \in ToSet(s \o t)
  <2> TAKE x \in ToSet(s)
  <2>1. PICK k \in 1..Len(s) : s[k] = x
    BY <1>1 DEF ToSet
  <2>2. k \in DOMAIN (s \o t) /\ (s \o t)[k] = x
    BY <1>1, <1>2, <2>1
  <2> QED BY <2>2 DEF ToSet
<1>4. \A x \in ToSet(t) : x \in ToSet(s \o t)
  <2> TAKE x \in ToSet(t)
  <2>1. PICK k \in 1..Len(t) : t[k] = x
    BY <1>1 DEF ToSet
  <2>2. Len(s) + k \in DOMAIN (s \o t) /\ (s \o t)[Len(s) + k] = x
    BY <1>1, <1>2, <2>1
  <2> QED BY <2>2 DEF ToSet
<1>5. \A x \in ToSet(s \o t) : x \in ToSet(s) \cup ToSet(t)
  <2> TAKE x \in ToSet(s \o t)
  <2>1. PICK k \in 1..(Len(s) + Len(t)) : (s \o t)[k] = x
    BY <1>1 DEF ToSet
  <2>2. CASE k <= Len(s)
    <3>1. k \in DOMAIN s /\ s[k] = x
      BY <1>1, <1>2, <2>1, <2>2
    <3> QED BY <3>1 DEF ToSet
  <2>3. CASE ~(k <= Len(s))
    <3>1. PICK j \in 1..Len(t) : k = Len(s) + j
      <4>1. k - Len(s) \in 1..Len(t) /\ k = Len(s) + (k - Len(s))
        BY <1>1, <2>3
      <4> QED BY <4>1
    <3>2. j \in DOMAIN t /\ t[j] = x
      BY <1>1, <1>2, <2>1, <3>1
    <3> QED BY <3>2 DEF ToSet
  <2> QED BY <2>2, <2>3
<1> QED BY <1>1, <1>3, <1>4, <1>5

\* The attributes of the periods are those of their takers, and so are those of the flags.
PeriodAttrs(cfg) == {DebounceAttr(cfg, t) : t \in PeriodTakers(cfg)}
FlagAttrs(cfg) == {FlagsAttr(cfg, t) : t \in FlagTakers(cfg)}

LEMMA DebounceMembers ==
  ASSUME NEW cfg \in Seq(AllSettings)
  PROVE  LET attrs == SetDebouncePeriods(cfg) IN
         /\ attrs \in Seq(PeriodAttrs(cfg)) /\ ToSet(attrs) = PeriodAttrs(cfg)
         /\ Len(attrs) = Cardinality(PeriodTakers(cfg)) /\ Len(attrs) \in Nat
<1> DEFINE T == PeriodTakers(cfg)
           a == Ascending(T)
           n == Cardinality(T)
           attrs == SetDebouncePeriods(cfg)
<1>1. T \in SUBSET Nat /\ IsFiniteSet(T)
  BY KeysAre, TakersFinite DEF PeriodTakers
<1>2. n \in Nat /\ a \in [1..n -> T] /\ \A x \in T : \E k \in 1..n : a[k] = x
  <2> HIDE DEF T
  <2> QED BY <1>1, AscendingLists
<1>3. attrs = [k \in DOMAIN a |-> DebounceAttr(cfg, a[k])]
  BY DEF SetDebouncePeriods, PeriodTakers
<1> HIDE DEF a, attrs, n, T
<1>4. attrs = [k \in 1..n |-> DebounceAttr(cfg, a[k])] /\ \A k \in 1..n : a[k] \in T
  BY <1>2, <1>3
<1>5. PeriodAttrs(cfg) = {DebounceAttr(cfg, t) : t \in T}
  BY DEF PeriodAttrs, T
<1>6. \A k \in 1..n : attrs[k] \in PeriodAttrs(cfg)
  BY <1>4, <1>5
<1>7. attrs \in [1..n -> PeriodAttrs(cfg)]
  BY <1>4, <1>6
<1>8. attrs \in Seq(PeriodAttrs(cfg)) /\ Len(attrs) = n
  BY <1>2, <1>7
<1>9. \A x \in PeriodAttrs(cfg) : x \in ToSet(attrs)
  <2> TAKE x \in PeriodAttrs(cfg)
  <2>1. PICK t \in T : x = DebounceAttr(cfg, t)
    BY <1>5
  <2>2. PICK k \in 1..n : a[k] = t
    BY <1>2
  <2>3. k \in DOMAIN attrs /\ attrs[k] = x
    BY <1>4, <2>1, <2>2
  <2> QED BY <2>3 DEF ToSet
<1>10. \A x \in ToSet(attrs) : x \in PeriodAttrs(cfg)
  BY <1>6, <1>7 DEF ToSet
<1>11. ToSet(attrs) = PeriodAttrs(cfg)
  BY <1>9, <1>10
<1> QED BY <1>2, <1>8, <1>11 DEF n, T, attrs

LEMMA FlagMembers ==
  ASSUME NEW cfg \in Seq(AllSettings)
  PROVE  LET attrs == SetFlags(cfg) IN
         /\ attrs \in Seq(FlagAttrs(cfg)) /\ ToSet(attrs) = FlagAttrs(cfg)
         /\ Len(attrs) = Cardinality(FlagTakers(cfg)) /\ Len(attrs) \in Nat
<1> DEFINE T == FlagTakers(cfg)
           a == Ascending(T)
           n == Cardinality(T)
           attrs == SetFlags(cfg)
<1>1. T \in SUBSET Nat /\ IsFiniteSet(T)
  BY KeysAre, TakersFinite DEF FlagTakers
<1>2. n \in Nat /\ a \in [1..n -> T] /\ \A x \in T : \E k \in 1..n : a[k] = x
  <2> HIDE DEF T
  <2> QED BY <1>1, AscendingLists
<1>3. attrs = [k \in DOMAIN a |-> FlagsAttr(cfg, a[k])]
  BY DEF SetFlags, FlagTakers
<1> HIDE DEF a, attrs, n, T
<1>4. attrs = [k \in 1..n |-> FlagsAttr(cfg, a[k])] /\ \A k \in 1..n : a[k] \in T
  BY <1>2, <1>3
<1>5. FlagAttrs(cfg) = {FlagsAttr(cfg, t) : t \in T}
  BY DEF FlagAttrs, T
<1>6. \A k \in 1..n : attrs[k] \in FlagAttrs(cfg)
  BY <1>4, <1>5
<1>7. attrs \in [1..n -> FlagAttrs(cfg)]
  BY <1>4, <1>6
<1>8. attrs \in Seq(FlagAttrs(cfg)) /\ Len(attrs) = n
  BY <1>2, <1>7
<1>9. \A x \in FlagAttrs(cfg) : x \in ToSet(attrs)
  <2> TAKE x \in FlagAttrs(cfg)
  <2>1. PICK t \in T : x = FlagsAttr(cfg, t)
    BY <1>5
  <2>2. PICK k \in 1..n : a[k] = t
    BY <1>2
  <2>3. k \in DOMAIN attrs /\ attrs[k] = x
    BY <1>4, <2>1, <2>2
  <2> QED BY <2>3 DEF ToSet
<1>10. \A x \in ToSet(attrs) : x \in FlagAttrs(cfg)
  BY <1>6, <1>7 DEF ToSet
<1>11. ToSet(attrs) = FlagAttrs(cfg)
  BY <1>9, <1>10
<1> QED BY <1>2, <1>8, <1>11 DEF n, T, attrs

\* All attributes of an encoding, and how many there are.
Attrs(cfg, vals) == ToSet(ValuesAttr(cfg, vals)) \cup PeriodAttrs(cfg) \cup FlagAttrs(cfg)

LEMMA EncodedMembers ==
  ASSUME NEW cfg \in Seq(AllSettings), NEW vals
  PROVE  LET attrs == ValuesAttr(cfg, vals) \o SetDebouncePeriods(cfg) \o SetFlags(cfg) IN
         /\ attrs \in Seq(Attrs(cfg, vals)) /\ ToSet(attrs) = Attrs(cfg, vals)
         /\ Len(attrs) = Len(ValuesAttr(cfg, vals)) + Cardinality(PeriodTakers(cfg))
                           + Cardinality(FlagTakers(cfg))
         /\ Len(attrs) \in Nat
<1> DEFINE a == ValuesAttr(cfg, vals)
           b == SetDebouncePeriods(cfg)
           c == SetFlags(cfg)
           S == Attrs(cfg, vals)
<1>1. a \in Seq(ToSet(a))
  <2>1. a = <<>> \/ \E x : a = <<x>>
    BY DEF ValuesAttr
  <2> HIDE DEF a
  <2>2. ASSUME a = <<>> PROVE a \in Seq(ToSet(a))
    BY <2>2
  <2>3. ASSUME NEW x, a = <<x>> PROVE a \in Seq(ToSet(a))
    <3>1. a \in Seq({x}) /\ DOMAIN a = 1..1 /\ a[1] = x
      BY <2>3
    <3>2. x \in ToSet(a)
      BY <3>1 DEF ToSet
    <3> QED BY <3>1, <3>2
  <2> QED BY <2>1, <2>2, <2>3
<1>2. /\ b \in Seq(PeriodAttrs(cfg)) /\ ToSet(b) = PeriodAttrs(cfg)
      /\ Len(b) = Cardinality(PeriodTakers(cfg))
  BY DebounceMembers
<1>3. /\ c \in Seq(FlagAttrs(cfg)) /\ ToSet(c) = FlagAttrs(cfg)
      /\ Len(c) = Cardinality(FlagTakers(cfg))
  BY FlagMembers
<1>4. S = ToSet(a) \cup PeriodAttrs(cfg) \cup FlagAttrs(cfg)
  BY DEF Attrs
<1> HIDE DEF a, b, c, S
<1>5. a \in Seq(S) /\ b \in Seq(S) /\ c \in Seq(S)
  <2>1. ToSet(a) \subseteq S /\ PeriodAttrs(cfg) \subseteq S /\ FlagAttrs(cfg) \subseteq S
    BY <1>4
  <2>2. a \in Seq(S)
    BY <1>1, <2>1
  <2>3. b \in Seq(S)
    BY <1>2, <2>1
  <2>4. c \in Seq(S)
    BY <1>3, <2>1
  <2> QED BY <2>2, <2>3, <2>4
<1>6. /\ a \o b \in Seq(S) /\ Len(a \o b) = Len(a) + Len(b)
      /\ ToSet(a \o b) = ToSet(a) \cup ToSet(b)
  BY <1>5, ConcatMembers
<1> DEFINE ab == a \o b
<1>7. ab \in Seq(S) /\ Len(ab) = Len(a) + Len(b) /\ ToSet(ab) = ToSet(a) \cup ToSet(b)
  BY <1>6
<1> HIDE DEF ab
<1>8. /\ ab \o c \in Seq(S) /\ Len(ab \o c) = Len(ab) + Len(c)
      /\ ToSet(ab \o c) = ToSet(ab) \cup ToSet(c)
  <2>1. ab \in Seq(S) /\ c \in Seq(S)
    BY <1>5, <1>7
  <2> QED BY <2>1, ConcatMembers
<1> DEFINE abc == ab \o c
<1>9. abc \in Seq(S) /\ Len(abc) = Len(ab) + Len(c) /\ ToSet(abc) = ToSet(ab) \cup ToSet(c)
  BY <1>8
<1>10. abc = a \o b \o c
  BY DEF abc, ab
<1> HIDE DEF abc
<1>11. Len(abc) \in Nat
  BY <1>9
<1>12. /\ abc \in Seq(S) /\ ToSet(abc) = S /\ Len(abc) \in Nat
       /\ Len(abc) = Len(a) + Cardinality(PeriodTakers(cfg)) + Cardinality(FlagTakers(cfg))
  BY <1>2, <1>3, <1>4, <1>7, <1>9, <1>11
<1> QED BY <1>10, <1>12 DEF a, b, c, S

\* What an encoding that fits is.
LEMMA EncodedIs ==
  ASSUME NEW cfg \in Seq(AllSettings), NEW vals, NEW u, u = ToUapi(cfg, vals), u.ok
  PROVE  /\ u.attrs \in Seq(Attrs(cfg, vals)) /\ ToSet(u.attrs) = Attrs(cfg, vals)
         /\ Len(u.attrs) \in 0..NumAttrsMax
         /\ cfg # <<>> => u.flags = MakeKernelFlags(cfg[1])
<1> DEFINE attrs == ValuesAttr(cfg, vals) \o SetDebouncePeriods(cfg) \o SetFlags(cfg)
           flags == IF cfg = <<>> THEN {} ELSE MakeKernelFlags(cfg[1])
<1>1. u = IF ~Fits(attrs) THEN TooBig ELSE [ok |-> TRUE, attrs |-> attrs, flags |-> flags]
  BY DEF ToUapi
<1>2. attrs \in Seq(Attrs(cfg, vals)) /\ ToSet(attrs) = Attrs(cfg, vals) /\ Len(attrs) \in Nat
  BY EncodedMembers
<1>3. cfg # <<>> => flags = MakeKernelFlags(cfg[1])
  OBVIOUS
<1> HIDE DEF attrs, flags
<1>4. Fits(attrs)
  BY <1>1 DEF TooBig
<1>5. u.attrs = attrs /\ u.flags = flags
  BY <1>1, <1>4
<1>6. Len(attrs) \in 0..NumAttrsMax
  BY <1>2, <1>4, UapiAssumption DEF Fits
<1> QED BY <1>2, <1>3, <1>5, <1>6

LEMMA EncodedFits ==
  ASSUME NEW cfg \in Seq(AllSettings), NEW vals
  PROVE  /\ ToUapi(cfg, vals).ok \in BOOLEAN
         /\ ToUapi(cfg, vals).ok
              <=> Len(ValuesAttr(cfg, vals)) + Cardinality(PeriodTakers(cfg))
                    + Cardinality(FlagTakers(cfg)) <= NumAttrsMax
<1> DEFINE attrs == ValuesAttr(cfg, vals) \o SetDebouncePeriods(cfg) \o SetFlags(cfg)
           flags == IF cfg = <<>> THEN {} ELSE MakeKernelFlags(cfg[1])
           u == ToUapi(cfg, vals)
<1>1. u = IF ~Fits(attrs) THEN TooBig ELSE [ok |-> TRUE, attrs |-> attrs, flags |-> flags]
  BY DEF ToUapi
<1>2. Len(attrs) = Len(ValuesAttr(cfg, vals)) + Cardinality(PeriodTakers(cfg))
                     + Cardinality(FlagTakers(cfg))
  BY EncodedMembers
<1> HIDE DEF attrs, flags, u
<1>3. u.ok \in BOOLEAN /\ (u.ok <=> Fits(attrs))
  BY <1>1 DEF TooBig
<1> QED BY <1>2, <1>3 DEF Fits, u

-----------------------------------------------------------------------------
(* The kernel's reading *)

\* For a line i the kernel reads an attribute of that kind that has the line, ...
LEMMA AttrRead ==
  ASSUME NEW u, NEW S, u.attrs \in Seq(S), NEW id, NEW i, AttrsFor(u, id, i) # {}
  PROVE  LET a == u.attrs[Min(AttrsFor(u, id, i))]
         IN a \in ToSet(u.attrs) /\ a.id = id /\ i \in a.mask
<1> DEFINE K == AttrsFor(u, id, i)
<1>1. K \in SUBSET Nat
  BY DEF AttrsFor
<1>2. Min(K) \in K
  <2> HIDE DEF K
  <2> QED BY <1>1, LeastIs DEF K
<1>3. \A k \in K : k \in DOMAIN u.attrs /\ u.attrs[k].id = id /\ i \in u.attrs[k].mask
  BY DEF AttrsFor
<1> HIDE DEF K
<1> QED BY <1>2, <1>3 DEF K, ToSet

\* ... if there is one.
LEMMA NoAttr ==
  ASSUME NEW u, NEW id, NEW i, AttrsFor(u, id, i) = {}
  PROVE  \A a \in ToSet(u.attrs) : a.id = id => i \notin a.mask
BY DEF AttrsFor, ToSet

\* The attributes by their kinds.
LEMMA ByKind ==
  ASSUME NEW cfg, NEW vals, NEW a \in Attrs(cfg, vals)
  PROVE  /\ a.id = "VALUES" => a \in ToSet(ValuesAttr(cfg, vals))
         /\ a.id = "DEBOUNCE" => a \in PeriodAttrs(cfg)
         /\ a.id = "FLAGS" => a \in FlagAttrs(cfg)
<1>1. a \in ToSet(ValuesAttr(cfg, vals)) => a.id = "VALUES"
  <2> DEFINE outputs == {i \in DOMAIN cfg : cfg[i].direction = "output"}
             x == [id |-> "VALUES", mask |-> outputs \cup Overridden(vals),
                   values |-> ActiveLines(cfg, vals)]
  <2>1. ValuesAttr(cfg, vals) = IF outputs = {} THEN <<>> ELSE <<x>>
    BY DEF ValuesAttr
  <2>2. x.id = "VALUES"
    OBVIOUS
  <2> HIDE DEF outputs, x
  <2> QED BY <2>1, <2>2 DEF ToSet
<1>2. a \in PeriodAttrs(cfg) => a.id = "DEBOUNCE"
  BY DEF PeriodAttrs, DebounceAttr
<1>3. a \in FlagAttrs(cfg) => a.id = "FLAGS"
  BY DEF FlagAttrs, FlagsAttr
<1> QED BY <1>1, <1>2, <1>3 DEF Attrs

\* The flags depend on what is compared only (settings_equal, make_kernel_flags).
LEMMA SameFlags ==
  ASSUME NEW s, NEW t, FlagPart(s) = FlagPart(t)
  PROVE  MakeKernelFlags(s) = MakeKernelFlags(t)
<1>1. \A f \in FlagFields : FlagPart(s)[f] = s[f] /\ FlagPart(t)[f] = t[f]
  BY DEF FlagPart
<1>2. /\ s.direction = t.direction /\ s.edge = t.edge /\ s.bias = t.bias
      /\ s.drive = t.drive /\ s.active_low = t.active_low /\ s.clock = t.clock
  BY <1>1 DEF FlagFields
<1> QED BY <1>2 DEF MakeKernelFlags, DirectionFlags, EdgeFlags, DriveFlags, BiasFlags, ClockFlags

\* Each line has the flags of its settings, ...
LEMMA FlagsReach ==
  ASSUME NEW cfg \in Seq(AllSettings), NEW vals, NEW u, u = ToUapi(cfg, vals), u.ok,
         NEW i \in DOMAIN cfg
  PROVE  KernelFlags(u, i) = MakeKernelFlags(cfg[i])
<1> DEFINE K == AttrsFor(u, "FLAGS", i)
           key == FlagKeys(cfg)
           done == TakenByDefault(cfg)
<1>1. /\ u.attrs \in Seq(Attrs(cfg, vals)) /\ ToSet(u.attrs) = Attrs(cfg, vals)
      /\ u.flags = MakeKernelFlags(cfg[1])
  BY EncodedIs
<1>2. KernelFlags(u, i) = IF K = {} THEN u.flags ELSE u.attrs[Min(K)].flags
  BY DEF KernelFlags
<1>3. /\ key \in Seq({FlagPart(s) : s \in AllSettings}) /\ Closed(key, done)
      /\ Len(key) = Len(cfg) /\ \A j \in DOMAIN cfg : key[j] = FlagPart(cfg[j])
  BY KeysAre
<1>4. CASE K = {}
  <2>1. \A a \in Attrs(cfg, vals) : a.id = "FLAGS" => i \notin a.mask
    BY <1>1, <1>4, NoAttr
  <2>2. i \in done
    <3> SUFFICES ASSUME i \notin done PROVE FALSE
      OBVIOUS
    <3> HIDE DEF key, done
    <3>1. i \in DOMAIN key \ done
      BY <1>3
    <3>2. PICK t \in Takers(key, done) : i \in Sharing(key, t)
      BY <1>3, <3>1, TakerOf
    <3>3. FlagsAttr(cfg, t) \in Attrs(cfg, vals)
      BY <3>2 DEF Attrs, FlagAttrs, FlagTakers, key, done
    <3>4. FlagsAttr(cfg, t).id = "FLAGS" /\ FlagsAttr(cfg, t).mask = Sharing(key, t)
      BY DEF FlagsAttr, key
    <3> QED BY <2>1, <3>2, <3>3, <3>4
  <2>3. MakeKernelFlags(cfg[1]) = MakeKernelFlags(cfg[i])
    BY <2>2, SameFlags DEF TakenByDefault, SettingsEqual
  <2> QED BY <1>1, <1>2, <1>4, <2>3
<1>5. CASE K # {}
  <2> DEFINE a == u.attrs[Min(K)]
  <2>1. a \in Attrs(cfg, vals) /\ a.id = "FLAGS" /\ i \in a.mask
    BY <1>1, <1>5, AttrRead
  <2> HIDE DEF a
  <2>2. PICK t \in FlagTakers(cfg) : a = FlagsAttr(cfg, t)
    BY <2>1, ByKind DEF FlagAttrs
  <2>3. a.flags = MakeKernelFlags(cfg[t]) /\ i \in Sharing(key, t)
    BY <2>1, <2>2 DEF FlagsAttr
  <2>4. t \in DOMAIN cfg
    <3>1. t \in DOMAIN key
      BY DEF FlagTakers, Takers
    <3> HIDE DEF key
    <3> QED BY <1>3, <3>1
  <2>5. FlagPart(cfg[i]) = FlagPart(cfg[t])
    <3> HIDE DEF key
    <3> QED BY <1>3, <2>3, <2>4, SharingSame
  <2>6. MakeKernelFlags(cfg[t]) = MakeKernelFlags(cfg[i])
    BY <2>5, SameFlags
  <2> QED BY <1>2, <1>5, <2>3, <2>6 DEF a
<1> QED BY <1>4, <1>5

\* ... its debounce period as far as 32 bits hold it, ...
LEMMA PeriodReaches ==
  ASSUME NEW cfg \in Seq(AllSettings), NEW vals, NEW u, u = ToUapi(cfg, vals), u.ok,
         NEW i \in DOMAIN cfg
  PROVE  KernelDebounce(u, i) = cfg[i].debounce % PeriodMod
<1> DEFINE K == AttrsFor(u, "DEBOUNCE", i)
           key == PeriodKeys(cfg)
           done == NotDebounced(cfg)
<1>1. u.attrs \in Seq(Attrs(cfg, vals)) /\ ToSet(u.attrs) = Attrs(cfg, vals)
  BY EncodedIs
<1>2. KernelDebounce(u, i) = IF K = {} THEN 0 ELSE u.attrs[Min(K)].period
  BY DEF KernelDebounce
<1>3. /\ key \in Seq(Nat) /\ Closed(key, done)
      /\ Len(key) = Len(cfg) /\ \A j \in DOMAIN cfg : key[j] = cfg[j].debounce
  BY KeysAre
<1>4. CASE K = {}
  <2>1. \A a \in Attrs(cfg, vals) : a.id = "DEBOUNCE" => i \notin a.mask
    BY <1>1, <1>4, NoAttr
  <2>2. i \in done
    <3> SUFFICES ASSUME i \notin done PROVE FALSE
      OBVIOUS
    <3> HIDE DEF key, done
    <3>1. i \in DOMAIN key \ done
      BY <1>3
    <3>2. PICK t \in Takers(key, done) : i \in Sharing(key, t)
      BY <1>3, <3>1, TakerOf
    <3>3. DebounceAttr(cfg, t) \in Attrs(cfg, vals)
      BY <3>2 DEF Attrs, PeriodAttrs, PeriodTakers, key, done
    <3>4. DebounceAttr(cfg, t).id = "DEBOUNCE" /\ DebounceAttr(cfg, t).mask = Sharing(key, t)
      BY DEF DebounceAttr, key
    <3> QED BY <2>1, <3>2, <3>3, <3>4
  <2>3. cfg[i].debounce = 0
    BY <2>2 DEF NotDebounced
  <2>4. 0 % PeriodMod = 0
    BY UapiAssumption
  <2> QED BY <1>2, <1>4, <2>3, <2>4
<1>5. CASE K # {}
  <2> DEFINE a == u.attrs[Min(K)]
  <2>1. a \in Attrs(cfg, vals) /\ a.id = "DEBOUNCE" /\ i \in a.mask
    BY <1>1, <1>5, AttrRead
  <2> HIDE DEF a
  <2>2. PICK t \in PeriodTakers(cfg) : a = DebounceAttr(cfg, t)
    BY <2>1, ByKind DEF PeriodAttrs
  <2>3. a.period = cfg[t].debounce % PeriodMod /\ i \in Sharing(key, t)
    BY <2>1, <2>2 DEF DebounceAttr
  <2>4. t \in DOMAIN cfg
    <3>1. t \in DOMAIN key
      BY DEF PeriodTakers, Takers
    <3> HIDE DEF key
    <3> QED BY <1>3, <3>1
  <2>5. cfg[i].debounce = cfg[t].debounce
    <3> HIDE DEF key
    <3> QED BY <1>3, <2>3, <2>4, SharingSame
  <2> QED BY <1>2, <1>5, <2>3, <2>5 DEF a
<1> QED BY <1>4, <1>5

\* ... and, if it is an output, the value set by position or else that of its settings.
LEMMA ValueReaches ==
  ASSUME NEW cfg \in Seq(AllSettings), NEW vals \in Seq({0, 1}),
         NEW u, u = ToUapi(cfg, vals), u.ok,
         NEW i \in DOMAIN cfg, cfg[i].direction = "output"
  PROVE  KernelValue(u, i) = IF i <= Len(vals) THEN vals[i] ELSE cfg[i].value
<1> DEFINE K == AttrsFor(u, "VALUES", i)
           outputs == {j \in DOMAIN cfg : cfg[j].direction = "output"}
           x == [id |-> "VALUES", mask |-> outputs \cup Overridden(vals),
                 values |-> ActiveLines(cfg, vals)]
<1>1. u.attrs \in Seq(Attrs(cfg, vals)) /\ ToSet(u.attrs) = Attrs(cfg, vals)
  BY EncodedIs
<1>2. KernelValue(u, i) = IF K # {} /\ i \in u.attrs[Min(K)].values THEN 1 ELSE 0
  BY DEF KernelValue
<1>3. i \in outputs
  OBVIOUS
<1>4. ValuesAttr(cfg, vals) = <<x>>
  BY <1>3 DEF ValuesAttr
<1>5. x.id = "VALUES" /\ i \in x.mask /\ x.values = ActiveLines(cfg, vals)
  BY <1>3
<1> HIDE DEF x, outputs
<1>6. ToSet(ValuesAttr(cfg, vals)) = {x}
  BY <1>4 DEF ToSet
<1>7. K # {}
  <2> SUFFICES ASSUME K = {} PROVE FALSE
    OBVIOUS
  <2>1. AttrsFor(u, "VALUES", i) = {}
    OBVIOUS
  <2>2. \A a \in ToSet(u.attrs) : a.id = "VALUES" => i \notin a.mask
    BY <2>1, NoAttr
  <2> QED BY <1>1, <1>5, <1>6, <2>2 DEF Attrs
<1>8. u.attrs[Min(K)] = x
  <2> DEFINE a == u.attrs[Min(K)]
  <2>1. a \in Attrs(cfg, vals) /\ a.id = "VALUES"
    BY <1>1, <1>7, AttrRead
  <2> HIDE DEF a
  <2>2. a = x
    BY <1>6, <2>1, ByKind
  <2> QED BY <2>2 DEF a
<1>9. KernelValue(u, i) = IF i \in ActiveLines(cfg, vals) THEN 1 ELSE 0
  BY <1>2, <1>5, <1>7, <1>8
<1>10. cfg[i].value \in {0, 1} /\ i \in Nat \ {0}
  <2>1. cfg[i] \in AllSettings
    OBVIOUS
  <2> QED BY <2>1 DEF AllSettings
<1>11. DOMAIN vals = 1..Len(vals) /\ Len(vals) \in Nat /\ \A j \in 1..Len(vals) : vals[j] \in {0, 1}
  OBVIOUS
<1>12. CASE i <= Len(vals)
  <2>1. i \in DOMAIN vals /\ vals[i] \in {0, 1}
    BY <1>10, <1>11, <1>12
  <2>2. i \in ActiveLines(cfg, vals) <=> vals[i] = 1
    BY <2>1 DEF ActiveLines, Overridden
  <2> QED BY <1>9, <1>12, <2>1, <2>2
<1>13. CASE ~(i <= Len(vals))
  <2>1. i \notin DOMAIN vals
    BY <1>10, <1>11, <1>13
  <2>2. i \in ActiveLines(cfg, vals) <=> cfg[i].value = 1
    BY <2>1 DEF ActiveLines, Overridden
  <2> QED BY <1>9, <1>10, <1>13, <2>2
<1> QED BY <1>12, <1>13

-----------------------------------------------------------------------------
(* The room *)

\* Takers are as many as their keys.
LEMMA TakersCount ==
  ASSUME NEW S, NEW key \in Seq(S), NEW done, Closed(key, done)
  PROVE  LET T == Takers(key, done) K == {key[i] : i \in DOMAIN key \ done} IN
         /\ IsFiniteSet(K) /\ Cardinality(T) = Cardinality(K) /\ Cardinality(K) \in Nat
<1> DEFINE T == Takers(key, done)
           K == {key[i] : i \in DOMAIN key \ done}
           f == [t \in T |-> key[t]]
<1>1. T \in SUBSET (DOMAIN key \ done) /\ IsFiniteSet(T)
  <2>1. T \in SUBSET (DOMAIN key \ done)
    BY DEF Takers
  <2>2. IsFiniteSet(T)
    BY TakersFinite
  <2> QED BY <2>1, <2>2
<1>2. \A t, v \in T : key[t] = key[v] => t = v
  BY TakersDiffer
<1>3. \A x \in K : \E t \in T : key[t] = x
  <2> TAKE x \in K
  <2>1. PICK i \in DOMAIN key \ done : key[i] = x
    OBVIOUS
  <2>2. PICK t \in T : i \in Sharing(key, t)
    BY TakerOf
  <2> QED BY <2>1, <2>2, SharingSame
<1> HIDE DEF T
<1>4. f \in [T -> K]
  BY <1>1
<1>5. f \in Bijection(T, K)
  <2>1. \A t, v \in T : f[t] = f[v] => t = v
    BY <1>2
  <2>2. \A x \in K : \E t \in T : f[t] = x
    BY <1>3
  <2> HIDE DEF f, K
  <2> QED BY <1>4, <2>1, <2>2 DEF Bijection, Injection, Surjection, IsInjective
<1>6. IsFiniteSet(K) /\ Cardinality(T) = Cardinality(K)
  <2> HIDE DEF f, K
  <2>1. ExistsBijection(T, K) /\ IsFiniteSet(T)
    BY <1>1, <1>5 DEF ExistsBijection
  <2> QED BY <2>1, FS_Bijection
<1>7. Cardinality(K) \in Nat
  BY <1>6, FS_CardinalityType
<1> QED BY <1>6, <1>7 DEF T

\* The distinct periods and flags that a configuration asks for.
LEMMA RoomFor ==
  ASSUME NEW cfg \in Seq(AllSettings), cfg # <<>>
  PROVE  LET used == {cfg[i] : i \in DOMAIN cfg} IN
         /\ Cardinality(PeriodTakers(cfg)) = Cardinality({s.debounce : s \in used} \ {0})
         /\ Cardinality(FlagTakers(cfg)) = Cardinality({FlagPart(s) : s \in used}) - 1
         /\ Cardinality(PeriodTakers(cfg)) \in Nat /\ Cardinality(FlagTakers(cfg)) \in Nat
         /\ Cardinality({FlagPart(s) : s \in used}) \in Nat
<1> DEFINE used == {cfg[i] : i \in DOMAIN cfg}
           P == {s.debounce : s \in used} \ {0}
           F == {FlagPart(s) : s \in used}
           pk == PeriodKeys(cfg)
           fk == FlagKeys(cfg)
           pd == NotDebounced(cfg)
           fdone == TakenByDefault(cfg)
<1>1. /\ pk \in Seq(Nat) /\ Closed(pk, pd) /\ DOMAIN pk = DOMAIN cfg
      /\ \A i \in DOMAIN cfg : pk[i] = cfg[i].debounce
      /\ fk \in Seq({FlagPart(s) : s \in AllSettings}) /\ Closed(fk, fdone)
      /\ DOMAIN fk = DOMAIN cfg /\ \A i \in DOMAIN cfg : fk[i] = FlagPart(cfg[i])
  <2>1. DOMAIN pk = DOMAIN cfg /\ DOMAIN fk = DOMAIN cfg
    BY DEF PeriodKeys, FlagKeys
  <2> HIDE DEF pk, fk, pd, fdone
  <2> QED BY <2>1, KeysAre DEF pk, fk, pd, fdone
<1>2. {pk[i] : i \in DOMAIN pk \ pd} = P
  <2>1. \A i \in DOMAIN cfg : i \in pd <=> cfg[i].debounce = 0
    BY DEF NotDebounced
  <2> HIDE DEF pk, pd
  <2> QED BY <1>1, <2>1
<1>3. {fk[i] : i \in DOMAIN fk \ fdone} = F \ {FlagPart(cfg[1])}
  <2>1. \A i \in DOMAIN cfg : i \in fdone <=> FlagPart(cfg[i]) = FlagPart(cfg[1])
    BY DEF TakenByDefault, SettingsEqual
  <2> HIDE DEF fk, fdone
  <2> QED BY <1>1, <2>1
<1>4. Cardinality(PeriodTakers(cfg)) = Cardinality(P) /\ Cardinality(P) \in Nat
  <2> HIDE DEF P, pk, pd
  <2> QED BY <1>1, <1>2, TakersCount DEF PeriodTakers, pk, pd
<1>5. /\ Cardinality(FlagTakers(cfg)) = Cardinality(F \ {FlagPart(cfg[1])})
      /\ Cardinality(F \ {FlagPart(cfg[1])}) \in Nat /\ IsFiniteSet(F \ {FlagPart(cfg[1])})
  <2> DEFINE S == {FlagPart(s) : s \in AllSettings}
             T == Takers(fk, fdone)
             K == {fk[i] : i \in DOMAIN fk \ fdone}
  <2>1. fk \in Seq(S) /\ Closed(fk, fdone)
    BY <1>1
  <2>2. IsFiniteSet(K) /\ Cardinality(T) = Cardinality(K) /\ Cardinality(K) \in Nat
    <3> HIDE DEF fk, fdone, S
    <3> QED BY <2>1, TakersCount
  <2>3. FlagTakers(cfg) = T
    BY DEF FlagTakers
  <2>4. K = F \ {FlagPart(cfg[1])}
    BY <1>3
  <2> HIDE DEF T, K, F
  <2> QED BY <2>2, <2>3, <2>4
<1>6. FlagPart(cfg[1]) \in F
  <2>1. 1 \in DOMAIN cfg
    OBVIOUS
  <2> QED BY <2>1
<1>7. Cardinality(F \ {FlagPart(cfg[1])}) = Cardinality(F) - 1 /\ Cardinality(F) \in Nat
  <2> DEFINE G == F \ {FlagPart(cfg[1])}
             y == FlagPart(cfg[1])
  <2> HIDE DEF F, y
  <2>1. F = G \cup {y} /\ y \notin G
    BY <1>6 DEF y
  <2>2. IsFiniteSet(G) /\ Cardinality(G) \in Nat
    BY <1>5 DEF y
  <2> HIDE DEF G
  <2>3. Cardinality(F) = Cardinality(G) + 1
    BY <2>1, <2>2, FS_AddElement
  <2> QED BY <2>2, <2>3 DEF G, y
<1> QED BY <1>4, <1>5, <1>7

-----------------------------------------------------------------------------
(* The request and its lines *)

Fields == {"user", "output", "flags", "debounce", "value"}

\* The inductive invariant: the file is that of the request.
RInv ==
  /\ DOMAIN line = Offsets
  /\ \A o \in Offsets : DOMAIN line[o] = Fields /\ line[o].value \in {0, 1}
  /\ fd = requested
  /\ HeldWhileRequested

LEMMA RequestInit == Init => RInv
BY DEF Init, FreeLine, RInv, Fields, HeldWhileRequested, ToSet

-----------------------------------------------------------------------------
(* Lines *)

\* What a configuration does to a line leaves its user alone.
LEMMA AppliedUser ==
  ASSUME NEW l, DOMAIN l = Fields, l.value \in {0, 1}, NEW u, NEW i
  PROVE  /\ DOMAIN Applied(l, u, i) = Fields
         /\ Applied(l, u, i).value \in {0, 1}
         /\ Applied(l, u, i).user = l.user
<1> DEFINE f == KernelFlags(u, i)
           v == IF "OUTPUT" \in f THEN KernelValue(u, i) ELSE l.value
           out == IF Directed(f) THEN "OUTPUT" \in f ELSE l.output
           p == KernelDebounce(u, i)
<1>1. v \in {0, 1}
  BY DEF KernelValue
<1>2. Applied(l, u, i) = [l EXCEPT !.flags = f, !.debounce = p, !.output = out, !.value = v]
  BY DEF Applied, Fields
<1> HIDE DEF f, v, out, p
<1> QED BY <1>1, <1>2 DEF Fields

\* The lines of a closed file are nobody's.
LEMMA FreedLines ==
  ASSUME NEW offs, NEW lines, DOMAIN lines = Offsets,
         \A o \in Offsets : DOMAIN lines[o] = Fields /\ lines[o].value \in {0, 1}
  PROVE  LET new == LinesFreed(offs, lines) IN
         /\ DOMAIN new = Offsets
         /\ \A o \in Offsets :
              /\ DOMAIN new[o] = Fields /\ new[o].value \in {0, 1}
              /\ new[o].user = IF o \in ToSet(offs) THEN "nobody" ELSE lines[o].user
<1>1. DOMAIN LinesFreed(offs, lines) = Offsets
  BY DEF LinesFreed
<1>2. ASSUME NEW o \in Offsets
      PROVE  LET new == LinesFreed(offs, lines)[o] IN
             /\ DOMAIN new = Fields /\ new.value \in {0, 1}
             /\ new.user = IF o \in ToSet(offs) THEN "nobody" ELSE lines[o].user
  <2>1. CASE o \in ToSet(offs)
    <3>1. LinesFreed(offs, lines)[o]
            = [lines[o] EXCEPT !.user = "nobody", !.flags = {}, !.debounce = 0]
      BY <2>1 DEF LinesFreed
    <3> QED BY <2>1, <3>1 DEF Fields
  <2>2. CASE o \notin ToSet(offs)
    <3>1. LinesFreed(offs, lines)[o] = lines[o]
      BY <2>2 DEF LinesFreed
    <3> QED BY <2>2, <3>1
  <2> QED BY <2>1, <2>2
<1> QED BY <1>1, <1>2

\* The lines of a granted request are the file's.
LEMMA TakenLines ==
  ASSUME RInv
  PROVE  /\ DOMAIN LinesTaken = Offsets
         /\ \A o \in Offsets :
              /\ DOMAIN LinesTaken[o] = Fields /\ LinesTaken[o].value \in {0, 1}
              /\ LinesTaken[o].user = IF o \in ToSet(order) THEN "fd" ELSE line[o].user
<1>1. DOMAIN LinesTaken = Offsets
  BY DEF LinesTaken
<1>2. ASSUME NEW o \in Offsets
      PROVE  /\ DOMAIN LinesTaken[o] = Fields /\ LinesTaken[o].value \in {0, 1}
             /\ LinesTaken[o].user = IF o \in ToSet(order) THEN "fd" ELSE line[o].user
  <2> DEFINE new == Applied(line[o], Encoded, IndexIn(order, o))
  <2>1. DOMAIN line[o] = Fields /\ line[o].value \in {0, 1}
    BY DEF RInv
  <2>2. DOMAIN new = Fields /\ new.value \in {0, 1}
    BY <2>1, AppliedUser
  <2>3. CASE o \in ToSet(order)
    <3>1. LinesTaken[o] = [new EXCEPT !.user = "fd"]
      BY <2>3 DEF LinesTaken
    <3> HIDE DEF new
    <3> QED BY <2>2, <2>3, <3>1 DEF Fields
  <2>4. CASE o \notin ToSet(order)
    <3>1. LinesTaken[o] = line[o]
      BY <2>4 DEF LinesTaken
    <3> QED BY <2>1, <2>4, <3>1
  <2> QED BY <2>3, <2>4
<1> QED BY <1>1, <1>2

-----------------------------------------------------------------------------
(* Steps *)

LEMMA SameRequest ==
  ASSUME RInv, UNCHANGED <<requested, fd>>, DOMAIN line' = Offsets,
         \A o \in Offsets :
           /\ DOMAIN line'[o] = Fields /\ line'[o].value \in {0, 1}
           /\ line'[o].user = "fd" <=> line[o].user = "fd"
  PROVE  RInv'
BY DEF RInv, HeldWhileRequested

LEMMA GrantedInv ==
  ASSUME RInv, RequestLines
  PROVE  RInv'
<1>1. /\ requested = <<>> /\ fd' = order /\ requested' = order /\ line' = LinesTaken
      /\ \A o \in Offsets : o \in ToSet(order) => line[o].user = "nobody"
  BY DEF RequestLines, KernelGrants
<1>2. \A o \in Offsets : line[o].user # "fd"
  BY <1>1 DEF RInv, HeldWhileRequested, ToSet
<1>3. \A o \in Offsets : line'[o].user = "fd" <=> o \in ToSet(order)
  BY <1>1, <1>2, TakenLines
<1>4. HeldWhileRequested'
  BY <1>1, <1>3 DEF HeldWhileRequested, ToSet
<1> QED BY <1>1, <1>4, TakenLines DEF RInv

\* The file is closed again when the object cannot be allocated.
LEMMA NoMemoryInv ==
  ASSUME RInv, RequestNoMemory
  PROVE  RInv'
<1>1. /\ requested = <<>> /\ fd' = <<>> /\ requested' = <<>>
      /\ line' = LinesFreed(order, LinesTaken)
  BY DEF RequestNoMemory, KernelGrants, FileClosed
<1>2. \A o \in Offsets : line[o].user # "fd"
  BY <1>1 DEF RInv, HeldWhileRequested, ToSet
<1>3. DOMAIN line' = Offsets
      /\ \A o \in Offsets : /\ DOMAIN line'[o] = Fields /\ line'[o].value \in {0, 1}
                            /\ line'[o].user # "fd"
  <2>1. /\ DOMAIN LinesTaken = Offsets
        /\ \A o \in Offsets : DOMAIN LinesTaken[o] = Fields /\ LinesTaken[o].value \in {0, 1}
        /\ \A o \in Offsets : o \notin ToSet(order) => LinesTaken[o].user = line[o].user
    BY TakenLines
  <2> DEFINE taken == LinesTaken
  <2> HIDE DEF taken
  <2>2. line' = LinesFreed(order, taken)
    BY <1>1 DEF taken
  <2>3. /\ DOMAIN taken = Offsets
        /\ \A o \in Offsets : DOMAIN taken[o] = Fields /\ taken[o].value \in {0, 1}
        /\ \A o \in Offsets : o \notin ToSet(order) => taken[o].user = line[o].user
    BY <2>1 DEF taken
  <2> QED BY <1>2, <2>2, <2>3, FreedLines
<1>4. HeldWhileRequested'
  BY <1>1, <1>3 DEF HeldWhileRequested, ToSet
<1> QED BY <1>1, <1>3, <1>4 DEF RInv

LEMMA ReconfigureInv ==
  ASSUME RInv, ReconfigureLines
  PROVE  RInv'
<1>1. PICK skip \in BOOLEAN : line' = Reconfigured(skip)
  BY DEF ReconfigureLines
<1>2. UNCHANGED <<requested, fd>>
  BY DEF ReconfigureLines
<1>3. ASSUME NEW o \in Offsets
      PROVE  /\ DOMAIN line'[o] = Fields /\ line'[o].value \in {0, 1}
             /\ line'[o].user = line[o].user
  <2> DEFINE new == Applied(line[o], Encoded, IndexIn(fd, o))
  <2>1. DOMAIN line[o] = Fields /\ line[o].value \in {0, 1}
    BY DEF RInv
  <2>2. DOMAIN new = Fields /\ new.value \in {0, 1} /\ new.user = line[o].user
    BY <2>1, AppliedUser
  <2>3. line'[o] = line[o] \/ line'[o] = new
    BY <1>1 DEF Reconfigured
  <2> HIDE DEF new
  <2> QED BY <2>1, <2>2, <2>3
<1>4. DOMAIN line' = Offsets
  BY <1>1 DEF Reconfigured
<1> QED BY <1>2, <1>3, <1>4, SameRequest

LEMMA SetValuesInv ==
  ASSUME RInv, NEW offs, NEW vals, SetValuesSubset(offs, vals)
  PROVE  RInv'
<1>1. UNCHANGED <<requested, fd>> /\ DOMAIN line' = Offsets
  BY DEF SetValuesSubset
<1>2. ASSUME NEW o \in Offsets
      PROVE  /\ DOMAIN line'[o] = Fields /\ line'[o].value \in {0, 1}
             /\ line'[o].user = line[o].user
  <2>1. DOMAIN line[o] = Fields /\ line[o].value \in {0, 1}
    BY DEF RInv
  <2>2. line'[o] = line[o] \/ \E v \in {0, 1} : line'[o] = [line[o] EXCEPT !.value = v]
    BY DEF SetValuesSubset
  <2> QED BY <2>1, <2>2 DEF Fields
<1> QED BY <1>1, <1>2, SameRequest

LEMMA ReleaseInv ==
  ASSUME RInv, Release
  PROVE  RInv'
<1>1. fd' = <<>> /\ requested' = <<>> /\ line' = LinesFreed(fd, line)
  BY DEF Release
<1>2. DOMAIN line' = Offsets
      /\ \A o \in Offsets :
           /\ DOMAIN line'[o] = Fields /\ line'[o].value \in {0, 1}
           /\ line'[o].user = IF o \in ToSet(fd) THEN "nobody" ELSE line[o].user
  BY <1>1, FreedLines DEF RInv
<1>3. \A o \in Offsets : line'[o].user # "fd"
  BY <1>2 DEF RInv, HeldWhileRequested
<1>4. HeldWhileRequested'
  BY <1>1, <1>3 DEF HeldWhileRequested, ToSet
<1> QED BY <1>1, <1>2, <1>4 DEF RInv

\* Other users take lines that are nobody's and drop their own; the world drives inputs.
LEMMA OthersInv ==
  ASSUME RInv, NEW o \in Offsets, OtherTakes(o) \/ OtherDrops(o) \/ Driven(o)
  PROVE  RInv'
<1>1. UNCHANGED <<requested, fd>> /\ DOMAIN line' = Offsets
      /\ \A p \in Offsets \ {o} : line'[p] = line[p]
  BY DEF OtherTakes, OtherDrops, Driven, RInv
<1>2. DOMAIN line[o] = Fields /\ line[o].value \in {0, 1}
  BY DEF RInv
<1>3. /\ DOMAIN line'[o] = Fields /\ line'[o].value \in {0, 1}
      /\ line'[o].user = "fd" <=> line[o].user = "fd"
  <2>1. CASE OtherTakes(o) \/ OtherDrops(o)
    <3>1. PICK u \in {"other", "nobody"} : line' = [line EXCEPT ![o].user = u]
      BY <2>1 DEF OtherTakes, OtherDrops
    <3>2. line'[o] = [line[o] EXCEPT !.user = u]
      BY <3>1 DEF RInv
    <3>3. line[o].user # "fd"
      BY <2>1 DEF OtherTakes, OtherDrops
    <3> QED BY <1>2, <3>2, <3>3 DEF Fields
  <2>2. CASE Driven(o)
    <3>1. line'[o] = [line[o] EXCEPT !.value = 1 - line[o].value]
      BY <2>2 DEF Driven, RInv
    <3>2. 1 - line[o].value \in {0, 1}
      BY <1>2
    <3> QED BY <1>2, <3>1, <3>2 DEF Fields
  <2> QED BY <2>1, <2>2
<1>4. \A p \in Offsets :
        /\ DOMAIN line'[p] = Fields /\ line'[p].value \in {0, 1}
        /\ line'[p].user = "fd" <=> line[p].user = "fd"
  <2> TAKE p \in Offsets
  <2>1. CASE p = o
    BY <1>3, <2>1
  <2>2. CASE p # o
    BY <1>1, <2>2 DEF RInv
  <2> QED BY <2>1, <2>2
<1> QED BY <1>1, <1>4, SameRequest

LEMMA RequestStep ==
  ASSUME RInv, [Next]_vars
  PROVE  RInv'
<1>0. UNCHANGED <<requested, fd, line>> => RInv'
  BY SameRequest DEF RInv
<1>1. CASE UNCHANGED vars
  BY <1>0, <1>1 DEF vars
<1>2. CASE Configure
  BY <1>0, <1>2 DEF Configure
<1>3. CASE \/ RequestTooBig \/ RequestRejected \/ RequestBusy
           \/ ReconfigureTooBig \/ ReconfigureOtherLines \/ ReconfigureRejected
  BY <1>0, <1>3 DEF RequestTooBig, RequestRejected, RequestBusy, ReconfigureTooBig,
                    ReconfigureOtherLines, ReconfigureRejected, Fail, vars
<1>4. CASE RequestLines
  BY <1>4, GrantedInv
<1>5. CASE RequestNoMemory
  BY <1>5, NoMemoryInv
<1>6. CASE ReconfigureLines
  BY <1>6, ReconfigureInv
<1>7. ASSUME NEW offs,
             ValuesBadOffsets(offs) \/ SetValuesNotOutput(offs) \/ GetValuesSubset(offs)
      PROVE  RInv'
  BY <1>0, <1>7 DEF ValuesBadOffsets, SetValuesNotOutput, GetValuesSubset, Fail, vars
<1>8. ASSUME NEW offs, NEW vals, SetValuesSubset(offs, vals) PROVE RInv'
  BY <1>8, SetValuesInv
<1>9. CASE Release
  BY <1>9, ReleaseInv
<1>10. ASSUME NEW o \in Offsets, OtherTakes(o) \/ OtherDrops(o) \/ Driven(o) PROVE RInv'
  BY <1>10, OthersInv
<1> QED BY <1>1, <1>2, <1>3, <1>4, <1>5, <1>6, <1>7, <1>8, <1>9, <1>10 DEF Next

\* The index of a requested line is that of the line.
LEMMA IndexIsOf ==
  ASSUME NEW s, NEW o \in ToSet(s)
  PROVE  IndexIn(s, o) \in DOMAIN s /\ s[IndexIn(s, o)] = o
<1>1. \E i \in DOMAIN s : s[i] = o
  BY DEF ToSet
<1> QED BY <1>1 DEF IndexIn

-----------------------------------------------------------------------------
(* The configuration *)

\* An ordered map from lines to settings that the setters store, and values.
CInv ==
  /\ order \in Seq(Offsets) /\ conf \in [ToSet(order) -> AllSettings]
  /\ outs \in Seq({0, 1})

\* ... and what the user of a line request may store.
UserConfig ==
  /\ order \in Seq(Offsets) /\ conf \in [ToSet(order) -> Settings]
  /\ outs \in Seq(Values)

LEMMA SeqOfIsSeq ==
  ASSUME NEW S, NEW n, NEW s \in SeqOf(S, n)
  PROVE  s \in Seq(S)
BY DEF SeqOf

LEMMA SeqMono == ASSUME NEW S, NEW T, S \subseteq T, NEW s \in Seq(S) PROVE s \in Seq(T)
OBVIOUS

LEMMA UserConfigIs == UserConfig => CInv
<1> SUFFICES ASSUME UserConfig PROVE CInv
  OBVIOUS
<1>1. Values \subseteq {0, 1} /\ Settings \subseteq AllSettings
  BY UapiAssumption DEF UapiAssumption
<1>2. outs \in Seq({0, 1})
  BY <1>1, SeqMono DEF UserConfig
<1> QED BY <1>1, <1>2 DEF UserConfig, CInv

LEMMA AddKeeps ==
  ASSUME NEW S, order \in Seq(Offsets), conf \in [ToSet(order) -> S],
         NEW offs \in Seq(Offsets), NEW s \in S, Add(offs, s)
  PROVE  /\ order' \in Seq(Offsets) /\ ToSet(order') = ToSet(order) \cup ToSet(offs)
         /\ conf' \in [ToSet(order') -> S]
<1> DEFINE t == order \o offs
<1>1. t \in Seq(Offsets) /\ ToSet(t) = ToSet(order) \cup ToSet(offs)
  BY ConcatMembers
<1>2. order' = FirstOccurrences(t)
  BY DEF Add
<1> HIDE DEF t
<1>3. order' \in Seq(Offsets) /\ ToSet(order') = ToSet(order) \cup ToSet(offs)
  BY <1>1, <1>2, FirstOccurrencesMembers
<1>4. conf' = [o \in ToSet(order') |-> IF o \in ToSet(offs) THEN s ELSE conf[o]]
  BY DEF Add
<1> QED BY <1>3, <1>4

LEMMA EmptyConfig ==
  ASSUME NEW S, NEW V
  PROVE  /\ <<>> \in Seq(Offsets) /\ <<>> \in Seq(V) /\ ToSet(<<>>) = {}
         /\ <<>> \in [ToSet(<<>>) -> S]
<1>1. ToSet(<<>>) = {} /\ <<>> \in Seq(Offsets) /\ <<>> \in Seq(V)
  BY DEF ToSet
<1>2. <<>> \in [{} -> S]
  OBVIOUS
<1> QED BY <1>1, <1>2

LEMMA ConfigureInv ==
  ASSUME UserConfig, SpecNext
  PROVE  UserConfig'
<1>1. ASSUME NEW offs \in SeqOf(Offsets, MaxArg), NEW s \in Settings, Add(offs, s)
      PROVE  UserConfig'
  <2>1. offs \in Seq(Offsets) /\ outs' = outs
    BY <1>1, SeqOfIsSeq DEF Add
  <2>2. order \in Seq(Offsets) /\ conf \in [ToSet(order) -> Settings]
    BY DEF UserConfig
  <2>3. order' \in Seq(Offsets) /\ conf' \in [ToSet(order') -> Settings]
    BY <1>1, <2>1, <2>2, AddKeeps
  <2> QED BY <2>1, <2>3 DEF UserConfig
<1>2. ASSUME NEW vals \in SeqOf(Values, MaxArg), SetValues(vals)
      PROVE  UserConfig'
  <2>1. vals \in Seq(Values)
    BY SeqOfIsSeq
  <2> QED BY <1>2, <2>1 DEF SetValues, UserConfig
<1>3. CASE Clear
  BY <1>3, EmptyConfig DEF Clear, UserConfig
<1> QED BY <1>1, <1>2, <1>3 DEF SpecNext

\* The settings that are encoded.
LEMMA PerLineIs ==
  ASSUME CInv
  PROVE  /\ PerLine \in Seq(AllSettings) /\ DOMAIN PerLine = DOMAIN order
         /\ Len(PerLine) = Len(order)
         /\ \A i \in DOMAIN order : PerLine[i] = conf[order[i]] /\ order[i] \in ToSet(order)
         /\ outs \in Seq({0, 1})
<1>1. \A i \in DOMAIN order : order[i] \in ToSet(order)
  BY DEF ToSet
<1>2. \A o \in ToSet(order) : conf[o] \in AllSettings
  BY DEF CInv
<1>3. DOMAIN order = 1..Len(order) /\ Len(order) \in Nat
  BY DEF CInv
<1>4. PerLine \in [1..Len(order) -> AllSettings]
  BY <1>1, <1>2, <1>3 DEF PerLine
<1>5. \A i \in DOMAIN order : PerLine[i] = conf[order[i]]
  BY DEF PerLine
<1>6. outs \in Seq({0, 1})
  BY DEF CInv
<1>7. PerLine \in Seq(AllSettings) /\ Len(PerLine) = Len(order)
  BY <1>3, <1>4
<1> QED BY <1>1, <1>3, <1>4, <1>5, <1>6, <1>7

\* The settings read back, with a value set by position, are those of the line but for
\* the value.
LEMMA SettingsReadBack ==
  ASSUME CInv, NEW i \in DOMAIN order
  PROVE  LET s == GetLineSettings(i) IN
         /\ MakeKernelFlags(s) = MakeKernelFlags(PerLine[i])
         /\ s.debounce = PerLine[i].debounce /\ s.direction = PerLine[i].direction
         /\ s.value = IF i <= Len(outs) THEN outs[i] ELSE PerLine[i].value
<1> DEFINE s == GetLineSettings(i)
           t == PerLine[i]
<1>1. t = conf[order[i]] /\ t \in AllSettings
  BY PerLineIs
<1>2. s = IF i <= Len(outs) THEN [t EXCEPT !.value = outs[i]] ELSE t
  BY <1>1 DEF GetLineSettings
<1> HIDE DEF s, t
<1>3. /\ s.direction = t.direction /\ s.edge = t.edge /\ s.bias = t.bias
      /\ s.drive = t.drive /\ s.active_low = t.active_low /\ s.clock = t.clock
      /\ s.debounce = t.debounce
      /\ s.value = IF i <= Len(outs) THEN outs[i] ELSE t.value
  BY <1>1, <1>2 DEF AllSettings
<1>4. MakeKernelFlags(s) = MakeKernelFlags(t)
  BY <1>3 DEF MakeKernelFlags, DirectionFlags, EdgeFlags, DriveFlags, BiasFlags, ClockFlags
<1> QED BY <1>3, <1>4 DEF s, t

LEMMA ValuesReach == CInv => ValuesReachLines
<1> SUFFICES ASSUME CInv, ToUapi(PerLine, outs).ok, NEW i \in DOMAIN order,
                    conf[order[i]].direction = "output"
             PROVE  KernelValue(ToUapi(PerLine, outs), i) = GetLineSettings(i).value
  BY DEF ValuesReachLines
<1> DEFINE cfg == PerLine
           u == ToUapi(cfg, outs)
<1>1. cfg \in Seq(AllSettings) /\ i \in DOMAIN cfg /\ cfg[i].direction = "output"
      /\ outs \in Seq({0, 1})
  BY PerLineIs
<1>2. GetLineSettings(i).value = IF i <= Len(outs) THEN outs[i] ELSE cfg[i].value
  BY SettingsReadBack
<1>3. u = ToUapi(cfg, outs) /\ u.ok
  OBVIOUS
<1> HIDE DEF cfg, u
<1>4. KernelValue(u, i) = IF i <= Len(outs) THEN outs[i] ELSE cfg[i].value
  BY <1>1, <1>3, ValueReaches
<1> QED BY <1>2, <1>4 DEF cfg, u

LEMMA FullRefused == CInv => RefusedWhenFull
<1> SUFFICES ASSUME CInv, order # <<>>
             PROVE  ToUapi(PerLine, outs).ok <=> Needed <= NumAttrsMax
  BY DEF RefusedWhenFull
<1> DEFINE cfg == PerLine
           used == {cfg[i] : i \in DOMAIN cfg}
           v == Len(ValuesAttr(cfg, outs))
           p == Cardinality(PeriodTakers(cfg))
           f == Cardinality(FlagTakers(cfg))
<1>1. /\ cfg \in Seq(AllSettings) /\ DOMAIN cfg = DOMAIN order /\ Len(cfg) = Len(order)
      /\ \A i \in DOMAIN order : cfg[i] = conf[order[i]]
  BY PerLineIs
<1>2. used = {conf[order[i]] : i \in DOMAIN order}
  <2> HIDE DEF cfg
  <2> QED BY <1>1
<1>3. cfg # <<>>
  <2>1. Len(order) # 0
    BY DEF CInv
  <2> HIDE DEF cfg
  <2> QED BY <1>1, <2>1
<1>4. ToUapi(cfg, outs).ok <=> v + p + f <= NumAttrsMax
  <2> HIDE DEF cfg
  <2> QED BY <1>1, EncodedFits
<1>5. /\ p = Cardinality({s.debounce : s \in used} \ {0})
      /\ f = Cardinality({FlagPart(s) : s \in used}) - 1 /\ p \in Nat /\ f \in Nat
      /\ Cardinality({FlagPart(s) : s \in used}) \in Nat
  <2> HIDE DEF cfg
  <2> QED BY <1>1, <1>3, RoomFor
<1>6. v = IF \E s \in used : s.direction = "output" THEN 1 ELSE 0
  <2> DEFINE outputs == {i \in DOMAIN cfg : cfg[i].direction = "output"}
             x == [id |-> "VALUES", mask |-> outputs \cup Overridden(outs),
                   values |-> ActiveLines(cfg, outs)]
  <2>1. ValuesAttr(cfg, outs) = IF outputs = {} THEN <<>> ELSE <<x>>
    BY DEF ValuesAttr
  <2>2. outputs # {} <=> \E s \in used : s.direction = "output"
    OBVIOUS
  <2>3. Len(<<>>) = 0 /\ Len(<<x>>) = 1
    OBVIOUS
  <2> HIDE DEF outputs, x, used
  <2> QED BY <2>1, <2>2, <2>3
<1> HIDE DEF cfg, v, p, f, used
<1>7. Needed = v + p + f
  <2>1. Needed = (IF \E s \in used : s.direction = "output" THEN 1 ELSE 0)
                   + Cardinality({s.debounce : s \in used} \ {0})
                   + Cardinality({FlagPart(s) : s \in used}) - 1
    BY <1>2 DEF Needed
  <2>2. Cardinality({FlagPart(s) : s \in used}) = f + 1
    BY <1>5
  <2>3. v \in Nat
    BY <1>6
  <2> QED BY <1>5, <1>6, <2>1, <2>2, <2>3
<1> QED BY <1>4, <1>7 DEF cfg

LEMMA ConfigInit == Init => UserConfig
BY EmptyConfig DEF Init, SpecInit, UserConfig

LEMMA ConfigStep ==
  ASSUME UserConfig, [Next]_vars
  PROVE  UserConfig'
<1>1. ASSUME UNCHANGED config PROVE UserConfig'
  BY <1>1 DEF UserConfig, config
<1>2. CASE UNCHANGED vars
  BY <1>1, <1>2 DEF vars
<1>3. CASE Configure
  BY <1>3, ConfigureInv DEF Configure
<1>4. CASE \/ RequestTooBig \/ RequestRejected \/ RequestBusy
           \/ ReconfigureTooBig \/ ReconfigureOtherLines \/ ReconfigureRejected
  BY <1>1, <1>4 DEF RequestTooBig, RequestRejected, RequestBusy, ReconfigureTooBig,
                    ReconfigureOtherLines, ReconfigureRejected, Fail, vars
<1>5. CASE RequestLines \/ RequestNoMemory \/ ReconfigureLines \/ Release
  BY <1>1, <1>5 DEF RequestLines, RequestNoMemory, ReconfigureLines, Release
<1>6. ASSUME NEW offs,
             ValuesBadOffsets(offs) \/ SetValuesNotOutput(offs) \/ GetValuesSubset(offs)
      PROVE  UserConfig'
  BY <1>1, <1>6 DEF ValuesBadOffsets, SetValuesNotOutput, GetValuesSubset, Fail, vars
<1>7. ASSUME NEW offs, NEW vals, SetValuesSubset(offs, vals) PROVE UserConfig'
  BY <1>1, <1>7 DEF SetValuesSubset
<1>8. ASSUME NEW o \in Offsets, OtherTakes(o) \/ OtherDrops(o) \/ Driven(o) PROVE UserConfig'
  BY <1>1, <1>8 DEF OtherTakes, OtherDrops, Driven
<1> QED BY <1>2, <1>3, <1>4, <1>5, <1>6, <1>7, <1>8 DEF Next

-----------------------------------------------------------------------------
(* What a line becomes *)

\* A line that a configuration with a direction is applied to is as the configuration
\* reads for it.
LEMMA AppliedAs ==
  ASSUME CInv, Encoded.ok, NEW n \in Nat, n = Len(order), KernelAccepts(Encoded, n),
         NEW i \in DOMAIN order, NEW l, DOMAIN l = Fields,
         Directed(MakeKernelFlags(PerLine[i]))
  PROVE  LET new == Applied(l, Encoded, i) s == GetLineSettings(i) IN
         /\ new.flags = MakeKernelFlags(s) /\ new.debounce = s.debounce % PeriodMod
         /\ new.output = (s.direction = "output")
         /\ new.output => new.value = s.value
<1> DEFINE cfg == PerLine
           u == Encoded
           f == KernelFlags(u, i)
           p == KernelDebounce(u, i)
           v == IF "OUTPUT" \in f THEN KernelValue(u, i) ELSE l.value
           out == IF Directed(f) THEN "OUTPUT" \in f ELSE l.output
           new == Applied(l, u, i)
           s == GetLineSettings(i)
<1>1. /\ cfg \in Seq(AllSettings) /\ outs \in Seq({0, 1}) /\ i \in DOMAIN cfg
      /\ u = ToUapi(cfg, outs) /\ u.ok
  BY PerLineIs DEF Encoded
<1>2. f = MakeKernelFlags(cfg[i]) /\ p = cfg[i].debounce % PeriodMod
  <2> HIDE DEF cfg, u
  <2> QED BY <1>1, FlagsReach, PeriodReaches
<1>3. cfg[i].direction = "output" =>
        KernelValue(u, i) = IF i <= Len(outs) THEN outs[i] ELSE cfg[i].value
  <2> HIDE DEF cfg, u
  <2> QED BY <1>1, ValueReaches
<1>4. new = [l EXCEPT !.flags = f, !.debounce = p, !.output = out, !.value = v]
  BY DEF Applied, Fields
<1>5. /\ MakeKernelFlags(s) = MakeKernelFlags(cfg[i])
      /\ s.debounce = cfg[i].debounce /\ s.direction = cfg[i].direction
      /\ s.value = IF i <= Len(outs) THEN outs[i] ELSE cfg[i].value
  BY SettingsReadBack
<1>6. Directed(f) /\ ~({"INPUT", "OUTPUT"} \subseteq f)
  <2>1. i \in 1..n
    BY DEF CInv
  <2>2. ValidFlags(f)
    BY <2>1 DEF KernelAccepts
  <2> HIDE DEF f
  <2> QED BY <1>2, <2>2 DEF ValidFlags
<1>7. "OUTPUT" \in MakeKernelFlags(cfg[i]) <=> cfg[i].direction = "output"
  BY DEF MakeKernelFlags, DirectionFlags, EdgeFlags, DriveFlags, BiasFlags, ClockFlags
<1>8. out = (s.direction = "output")
  <2>1. out = ("OUTPUT" \in f)
    BY <1>6
  <2>2. "OUTPUT" \in f <=> s.direction = "output"
    <3> HIDE DEF f, s
    <3> QED BY <1>2, <1>5, <1>7
  <2> HIDE DEF out, f, s
  <2> QED BY <2>1, <2>2
<1>9. out => v = s.value
  <2> SUFFICES ASSUME out PROVE v = s.value
    OBVIOUS
  <2>1. s.direction = "output" /\ "OUTPUT" \in f
    BY <1>6, <1>8
  <2>2. v = KernelValue(u, i)
    BY <2>1
  <2> HIDE DEF v, f, s, cfg, u
  <2> QED BY <1>3, <1>5, <2>1, <2>2
<1>10. new.flags = f /\ new.debounce = p /\ new.output = out /\ new.value = v
  <2> HIDE DEF f, p, out, v, new
  <2> QED BY <1>4 DEF Fields
<1> HIDE DEF f, p, out, v, new, s, cfg, u
<1>11. /\ new.flags = MakeKernelFlags(s) /\ new.debounce = s.debounce % PeriodMod
       /\ new.output = (s.direction = "output") /\ (new.output => new.value = s.value)
  BY <1>2, <1>5, <1>8, <1>9, <1>10
<1> QED BY <1>11 DEF new, s, u

\* ... and any line is one of the types of a line.
LEMMA AppliedTyped ==
  ASSUME CInv, Encoded.ok, NEW i \in DOMAIN order, NEW l, DOMAIN l = Fields,
         l.output \in BOOLEAN, l.value \in {0, 1}
  PROVE  LET new == Applied(l, Encoded, i) IN
         /\ new.flags \subseteq LineFlags /\ new.debounce \in 0..(PeriodMod - 1)
         /\ new.output \in BOOLEAN
<1> DEFINE cfg == PerLine
           u == Encoded
           f == KernelFlags(u, i)
           p == KernelDebounce(u, i)
           v == IF "OUTPUT" \in f THEN KernelValue(u, i) ELSE l.value
           out == IF Directed(f) THEN "OUTPUT" \in f ELSE l.output
           new == Applied(l, u, i)
<1>1. /\ cfg \in Seq(AllSettings) /\ i \in DOMAIN cfg
      /\ u = ToUapi(cfg, outs) /\ u.ok
  BY PerLineIs DEF Encoded
<1>2. f = MakeKernelFlags(cfg[i]) /\ p = cfg[i].debounce % PeriodMod
  <2> HIDE DEF cfg, u
  <2> QED BY <1>1, FlagsReach, PeriodReaches
<1>3. new = [l EXCEPT !.flags = f, !.debounce = p, !.output = out, !.value = v]
  BY DEF Applied, Fields
<1>4. MakeKernelFlags(cfg[i]) \subseteq LineFlags
  BY DEF MakeKernelFlags, DirectionFlags, EdgeFlags, DriveFlags, BiasFlags, ClockFlags, LineFlags
<1>5. p \in 0..(PeriodMod - 1)
  <2>1. cfg[i].debounce \in Nat
    <3>1. cfg[i] \in AllSettings
      <4> HIDE DEF cfg
      <4> QED BY <1>1
    <3> HIDE DEF cfg
    <3> QED BY <3>1 DEF AllSettings
  <2> HIDE DEF cfg, p
  <2> QED BY <1>2, <2>1, UapiAssumption DEF UapiAssumption
<1>6. out \in BOOLEAN
  <2>1. ("OUTPUT" \in f) \in BOOLEAN
    OBVIOUS
  <2>2. CASE Directed(f)
    <3>1. out = ("OUTPUT" \in f)
      BY <2>2
    <3> HIDE DEF f, out
    <3> QED BY <3>1
  <2>3. CASE ~Directed(f)
    <3>1. out = l.output
      BY <2>3
    <3> HIDE DEF f, out
    <3> QED BY <3>1, Zenon
  <2> QED BY <2>2, <2>3
<1>7. new.flags = f /\ new.debounce = p /\ new.output = out
  <2> HIDE DEF f, p, out, v, new
  <2> QED BY <1>3 DEF Fields
<1> HIDE DEF f, p, out, v, new
<1>8. new.flags \subseteq LineFlags /\ new.debounce \in 0..(PeriodMod - 1) /\ new.output \in BOOLEAN
  BY <1>2, <1>4, <1>5, <1>6, <1>7
<1> QED BY <1>8 DEF new

-----------------------------------------------------------------------------
(* Types *)

TypedLine(l) ==
  /\ DOMAIN l = Fields
  /\ l.user \in {"nobody", "fd", "other"}
  /\ l.output \in BOOLEAN /\ l.value \in {0, 1}
  /\ l.flags \subseteq LineFlags /\ l.debounce \in 0..(PeriodMod - 1)
Typed ==
  /\ requested \in Seq(Offsets)
  /\ DOMAIN line = Offsets /\ \A o \in Offsets : TypedLine(line[o])

LEMMA TypedInit == Init => Typed
<1> SUFFICES ASSUME Init PROVE Typed
  OBVIOUS
<1>1. TypedLine(FreeLine)
  BY UapiAssumption DEF UapiAssumption, TypedLine, Fields, FreeLine
<1> QED BY <1>1 DEF Init, Typed

LEMMA AppliedTypedLine ==
  ASSUME CInv, Encoded.ok, NEW i \in DOMAIN order, NEW l, TypedLine(l)
  PROVE  TypedLine(Applied(l, Encoded, i))
<1> DEFINE new == Applied(l, Encoded, i)
<1>1. DOMAIN l = Fields /\ l.output \in BOOLEAN /\ l.value \in {0, 1}
      /\ l.user \in {"nobody", "fd", "other"}
  BY DEF TypedLine
<1>2. DOMAIN new = Fields /\ new.value \in {0, 1} /\ new.user = l.user
  BY <1>1, AppliedUser
<1>3. new.flags \subseteq LineFlags /\ new.debounce \in 0..(PeriodMod - 1)
      /\ new.output \in BOOLEAN
  BY <1>1, AppliedTyped
<1> HIDE DEF new
<1>4. TypedLine(new)
  BY <1>1, <1>2, <1>3 DEF TypedLine
<1> QED BY <1>4 DEF new

\* A line that is changed in its user or its value is a line, and so is one that is freed.
LEMMA UserTyped ==
  ASSUME NEW l, TypedLine(l), NEW u \in {"nobody", "fd", "other"}
  PROVE  TypedLine([l EXCEPT !.user = u])
BY DEF TypedLine, Fields

LEMMA ValueTyped ==
  ASSUME NEW l, TypedLine(l), NEW v \in {0, 1}
  PROVE  TypedLine([l EXCEPT !.value = v])
BY DEF TypedLine, Fields

LEMMA FreedTyped ==
  ASSUME NEW l, TypedLine(l)
  PROVE  TypedLine([l EXCEPT !.user = "nobody", !.flags = {}, !.debounce = 0])
<1>1. 0 \in 0..(PeriodMod - 1)
  BY UapiAssumption DEF UapiAssumption
<1> QED BY <1>1 DEF TypedLine, Fields

LEMMA TypedTaken ==
  ASSUME CInv, Typed, Encoded.ok
  PROVE  DOMAIN LinesTaken = Offsets /\ \A o \in Offsets : TypedLine(LinesTaken[o])
<1>1. DOMAIN LinesTaken = Offsets
  BY DEF LinesTaken
<1>2. ASSUME NEW o \in Offsets PROVE TypedLine(LinesTaken[o])
  <2> DEFINE new == Applied(line[o], Encoded, IndexIn(order, o))
  <2>1. CASE o \in ToSet(order)
    <3>1. LinesTaken[o] = [new EXCEPT !.user = "fd"]
      BY <2>1 DEF LinesTaken
    <3>2. IndexIn(order, o) \in DOMAIN order /\ TypedLine(line[o])
      BY <2>1, IndexIsOf DEF Typed
    <3>3. TypedLine(new)
      BY <3>2, AppliedTypedLine
    <3> HIDE DEF new
    <3>4. TypedLine([new EXCEPT !.user = "fd"])
      BY <3>3, UserTyped
    <3> QED BY <3>1, <3>4
  <2>2. CASE o \notin ToSet(order)
    BY <2>2 DEF LinesTaken, Typed
  <2> QED BY <2>1, <2>2
<1> QED BY <1>1, <1>2

LEMMA TypedFreed ==
  ASSUME NEW offs, NEW lines, \A o \in Offsets : TypedLine(lines[o])
  PROVE  /\ DOMAIN LinesFreed(offs, lines) = Offsets
         /\ \A o \in Offsets : TypedLine(LinesFreed(offs, lines)[o])
<1>1. DOMAIN LinesFreed(offs, lines) = Offsets
  BY DEF LinesFreed
<1>2. ASSUME NEW o \in Offsets PROVE TypedLine(LinesFreed(offs, lines)[o])
  <2>1. CASE o \in ToSet(offs)
    <3>1. LinesFreed(offs, lines)[o]
            = [lines[o] EXCEPT !.user = "nobody", !.flags = {}, !.debounce = 0]
      BY <2>1 DEF LinesFreed
    <3>2. TypedLine([lines[o] EXCEPT !.user = "nobody", !.flags = {}, !.debounce = 0])
      BY FreedTyped
    <3> QED BY <3>1, <3>2
  <2>2. CASE o \notin ToSet(offs)
    BY <2>2 DEF LinesFreed
  <2> QED BY <2>1, <2>2
<1> QED BY <1>1, <1>2

LEMMA TypedStep ==
  ASSUME CInv, RInv, Typed, [Next]_vars
  PROVE  Typed'
<1>0. ASSUME UNCHANGED <<requested, line>> PROVE Typed'
  BY <1>0 DEF Typed, TypedLine
<1>1. CASE UNCHANGED vars
  BY <1>0, <1>1 DEF vars
<1>2. CASE Configure
  BY <1>0, <1>2 DEF Configure
<1>3. CASE \/ RequestTooBig \/ RequestRejected \/ RequestBusy
           \/ ReconfigureTooBig \/ ReconfigureOtherLines \/ ReconfigureRejected
  BY <1>0, <1>3 DEF RequestTooBig, RequestRejected, RequestBusy, ReconfigureTooBig,
                    ReconfigureOtherLines, ReconfigureRejected, Fail, vars
<1>4. CASE RequestLines
  <2>1. line' = LinesTaken /\ requested' = order /\ Encoded.ok
    BY <1>4 DEF RequestLines, KernelGrants
  <2> QED BY <2>1, TypedTaken DEF Typed, CInv, TypedLine
<1>5. CASE RequestNoMemory
  <2>1. line' = LinesFreed(order, LinesTaken) /\ requested' = requested /\ Encoded.ok
    BY <1>5 DEF RequestNoMemory, KernelGrants, FileClosed
  <2>2. \A o \in Offsets : TypedLine(LinesTaken[o])
    BY <2>1, TypedTaken
  <2>3. DOMAIN line' = Offsets /\ \A o \in Offsets : TypedLine(line'[o])
    BY <2>1, <2>2, TypedFreed
  <2> QED BY <2>1, <2>3 DEF Typed, TypedLine
<1>6. CASE ReconfigureLines
  <2>1. PICK skip \in BOOLEAN : line' = Reconfigured(skip)
    BY <1>6 DEF ReconfigureLines
  <2>2. requested' = requested /\ Encoded.ok /\ fd = order
    BY <1>6 DEF ReconfigureLines, OffsetsEqual, RInv
  <2>3. ASSUME NEW o \in Offsets PROVE TypedLine(line'[o])
    <3> DEFINE new == Applied(line[o], Encoded, IndexIn(fd, o))
    <3>1. line'[o] = line[o] \/ (o \in ToSet(fd) /\ line'[o] = new)
      BY <2>1 DEF Reconfigured
    <3>2. TypedLine(line[o])
      BY DEF Typed
    <3>3. o \in ToSet(fd) => TypedLine(new)
      BY <2>2, <3>2, IndexIsOf, AppliedTypedLine
    <3> HIDE DEF new
    <3> QED BY <3>1, <3>2, <3>3
  <2>4. DOMAIN line' = Offsets
    BY <2>1 DEF Reconfigured
  <2> QED BY <2>2, <2>3, <2>4 DEF Typed, TypedLine
<1>7. ASSUME NEW offs,
             ValuesBadOffsets(offs) \/ SetValuesNotOutput(offs) \/ GetValuesSubset(offs)
      PROVE  Typed'
  BY <1>0, <1>7 DEF ValuesBadOffsets, SetValuesNotOutput, GetValuesSubset, Fail, vars
<1>8. ASSUME NEW offs, NEW vals, SetValuesSubset(offs, vals) PROVE Typed'
  <2>1. requested' = requested /\ DOMAIN line' = Offsets
    BY <1>8 DEF SetValuesSubset
  <2>2. ASSUME NEW o \in Offsets PROVE TypedLine(line'[o])
    <3>1. line'[o] = line[o] \/ \E v \in {0, 1} : line'[o] = [line[o] EXCEPT !.value = v]
      BY <1>8 DEF SetValuesSubset
    <3>2. TypedLine(line[o])
      BY DEF Typed
    <3>3. \A v \in {0, 1} : TypedLine([line[o] EXCEPT !.value = v])
      BY <3>2, ValueTyped
    <3> QED BY <3>1, <3>2, <3>3
  <2> QED BY <2>1, <2>2 DEF Typed, TypedLine
<1>9. CASE Release
  <2>1. line' = LinesFreed(fd, line) /\ requested' = <<>>
    BY <1>9 DEF Release
  <2>2. DOMAIN line' = Offsets /\ \A o \in Offsets : TypedLine(line'[o])
    BY <2>1, TypedFreed DEF Typed
  <2> QED BY <2>1, <2>2 DEF Typed, TypedLine
<1>10. ASSUME NEW o \in Offsets, OtherTakes(o) \/ OtherDrops(o) \/ Driven(o) PROVE Typed'
  <2>1. requested' = requested /\ DOMAIN line' = Offsets
        /\ \A p \in Offsets \ {o} : line'[p] = line[p]
    BY <1>10 DEF OtherTakes, OtherDrops, Driven, Typed
  <2>2. TypedLine(line[o]) /\ o \in DOMAIN line
    BY DEF Typed
  <2>3. TypedLine(line'[o])
    <3>1. CASE OtherTakes(o) \/ OtherDrops(o)
      <4>1. PICK u \in {"nobody", "fd", "other"} : line'[o] = [line[o] EXCEPT !.user = u]
        BY <2>2, <3>1 DEF OtherTakes, OtherDrops
      <4>2. TypedLine([line[o] EXCEPT !.user = u])
        BY <2>2, UserTyped
      <4> QED BY <4>1, <4>2
    <3>2. CASE Driven(o)
      <4>1. line'[o] = [line[o] EXCEPT !.value = 1 - line[o].value]
        BY <2>2, <3>2 DEF Driven
      <4>2. PICK v \in {0, 1} : v = 1 - line[o].value
        BY <2>2 DEF TypedLine
      <4>3. TypedLine([line[o] EXCEPT !.value = v])
        BY <2>2, ValueTyped
      <4> QED BY <4>1, <4>2, <4>3
    <3> QED BY <1>10, <3>1, <3>2
  <2>4. ASSUME NEW p \in Offsets PROVE TypedLine(line'[p])
    BY <2>1, <2>3 DEF Typed
  <2> QED BY <2>1, <2>4 DEF Typed, TypedLine
<1> QED BY <1>1, <1>2, <1>3, <1>4, <1>5, <1>6, <1>7, <1>8, <1>9, <1>10 DEF Next

-----------------------------------------------------------------------------
(* Values and configurations reach the lines *)

\* The lines of a granted or reconfigured request are as configured.
LEMMA GrantedAs ==
  ASSUME CInv, RInv, RequestLines \/ ReconfigureLines,
         NEW o \in ToSet(order), Directed(MakeKernelFlags(conf[o]))
  PROVE  AsConfigured(o)'
<1> DEFINE i == IndexIn(order, o)
           s == GetLineSettings(i)
           new == Applied(line[o], Encoded, i)
<1>1. i \in DOMAIN order /\ order[i] = o /\ o \in Offsets
  BY IndexIsOf DEF CInv, ToSet
<1>2. UNCHANGED config
  BY DEF RequestLines, ReconfigureLines
<1>3. Encoded.ok /\ KernelAccepts(Encoded, Len(order)) /\ Len(order) \in Nat
  BY DEF RequestLines, KernelGrants, ReconfigureLines, OffsetsEqual, RInv, CInv
<1>4. PerLine[i] = conf[o]
  BY <1>1, PerLineIs
<1>5. DOMAIN line[o] = Fields
  BY <1>1 DEF RInv
<1>6. /\ new.flags = MakeKernelFlags(s) /\ new.debounce = s.debounce % PeriodMod
      /\ new.output = (s.direction = "output")
      /\ new.output => new.value = s.value
  <2> HIDE DEF i
  <2> QED BY <1>1, <1>3, <1>4, <1>5, AppliedAs
<1>7. /\ line'[o].flags = new.flags /\ line'[o].debounce = new.debounce
      /\ line'[o].output = new.output /\ line'[o].value = new.value
  <2>1. CASE RequestLines
    <3>1. line'[o] = [new EXCEPT !.user = "fd"]
      BY <1>1, <2>1 DEF RequestLines, LinesTaken
    <3>2. DOMAIN new = Fields
      BY <1>1, <1>5, AppliedUser DEF RInv
    <3> HIDE DEF new
    <3> QED BY <3>1, <3>2 DEF Fields
  <2>2. CASE ReconfigureLines
    <3>1. fd = order
      BY <2>2 DEF ReconfigureLines, OffsetsEqual, RInv
    <3>2. Directed(KernelFlags(Encoded, i))
      <4> DEFINE cfg == PerLine
      <4>1. cfg \in Seq(AllSettings) /\ i \in DOMAIN cfg /\ Encoded = ToUapi(cfg, outs)
        BY <1>1, PerLineIs DEF Encoded
      <4> HIDE DEF cfg, i
      <4>2. KernelFlags(Encoded, i) = MakeKernelFlags(cfg[i])
        BY <1>3, <4>1, FlagsReach
      <4> QED BY <1>4, <4>2 DEF cfg
    <3>3. PICK skip \in BOOLEAN : line' = Reconfigured(skip)
      BY <2>2 DEF ReconfigureLines
    <3>4. line'[o] = new
      BY <1>1, <3>1, <3>2, <3>3 DEF Reconfigured
    <3> HIDE DEF new
    <3> QED BY <3>4
  <2> QED BY <2>1, <2>2
<1>8. s' = s /\ i' = i
  BY <1>2 DEF config, GetLineSettings, IndexIn
<1> HIDE DEF new
<1>9. /\ line'[o].flags = MakeKernelFlags(s) /\ line'[o].debounce = s.debounce % PeriodMod
      /\ line'[o].output = (s.direction = "output")
      /\ line'[o].output => line'[o].value = s.value
  <2> HIDE DEF s
  <2> QED BY <1>6, <1>7
<1> HIDE DEF s
<1>10. AsConfigured(o)' <=>
         /\ line'[o].flags = MakeKernelFlags(s') /\ line'[o].debounce = s'.debounce % PeriodMod
         /\ line'[o].output = (s'.direction = "output")
         /\ line'[o].output => line'[o].value = s'.value
  BY DEF AsConfigured, s
<1> QED BY <1>8, <1>9, <1>10

\* Setting values reaches the lines named, with the last of their values, and no other.
LEMMA SetReaches ==
  ASSUME RInv, NEW offs \in Seq(Offsets), NEW vals \in Seq({0, 1}),
         SetValuesSubset(offs, vals)
  PROVE  /\ \A i \in LastPlaces(offs) : line'[offs[i]].value = vals[i]
         /\ \A o \in Offsets \ ToSet(offs) : line'[o] = line[o]
<1>1. /\ ToSet(offs) \subseteq ToSet(fd) /\ fd = requested
      /\ Len(vals) = Len(offs)
  BY DEF RInv, SetValuesSubset
<1>2. \A o \in Offsets :
        line'[o] = IF o \in ToSet(fd) /\ IndexIn(fd, o) \in Mask(offs)
                   THEN [line[o] EXCEPT !.value = IF IndexIn(fd, o) \in Bits(offs, vals)
                                                  THEN 1 ELSE 0]
                   ELSE line[o]
  BY DEF SetValuesSubset
<1>3. \A o \in ToSet(fd) : fd[IndexIn(fd, o)] = o
  BY IndexIsOf
<1>4. ASSUME NEW i \in LastPlaces(offs) PROVE line'[offs[i]].value = vals[i]
  <2> DEFINE o == offs[i]
  <2>1. i \in DOMAIN offs /\ o \in ToSet(fd) /\ o \in Offsets /\ vals[i] \in {0, 1}
    <3>1. i \in DOMAIN offs
      BY DEF LastPlaces
    <3>2. i \in 1..Len(vals)
      BY <1>1, <3>1
    <3>3. vals[i] \in {0, 1} /\ o \in Offsets
      BY <1>1, <3>1, <3>2
    <3> QED BY <1>1, <3>1, <3>3 DEF ToSet
  <2>2. IndexIn(fd, o) \in Mask(offs)
    BY <1>1, <2>1 DEF Mask, OffsetToBit
  <2>3. IndexIn(fd, o) \in Bits(offs, vals) <=> vals[i] = 1
    <3>1. vals[i] = 1 => IndexIn(fd, o) \in Bits(offs, vals)
      BY <1>1 DEF Bits, OffsetToBit
    <3>2. ASSUME IndexIn(fd, o) \in Bits(offs, vals) PROVE vals[i] = 1
      <4>1. PICK j \in LastPlaces(offs) : vals[j] = 1 /\ IndexIn(fd, o) = IndexIn(fd, offs[j])
        BY <1>1, <3>2 DEF Bits, OffsetToBit
      <4>2. j \in DOMAIN offs /\ offs[j] \in ToSet(fd)
        BY <1>1 DEF LastPlaces, ToSet
      <4>3. offs[j] = offs[i]
        BY <1>3, <2>1, <4>1, <4>2
      <4>4. DOMAIN offs = 1..Len(offs) /\ Len(offs) \in Nat
        BY <1>1
      <4>5. ~(i < j) /\ ~(j < i)
        BY <2>1, <4>2, <4>3, <4>4 DEF LastPlaces
      <4>6. i = j
        BY <2>1, <4>2, <4>4, <4>5
      <4> QED BY <4>1, <4>6
    <3> QED BY <3>1, <3>2
  <2>4. line'[o] = [line[o] EXCEPT !.value = IF IndexIn(fd, o) \in Bits(offs, vals)
                                              THEN 1 ELSE 0]
    BY <1>2, <2>1, <2>2
  <2>5. DOMAIN line[o] = Fields
    BY <2>1 DEF RInv
  <2>6. line'[o].value = IF IndexIn(fd, o) \in Bits(offs, vals) THEN 1 ELSE 0
    <3> HIDE DEF o
    <3> QED BY <2>4, <2>5 DEF Fields
  <2> QED BY <2>1, <2>3, <2>6
<1>5. ASSUME NEW o \in Offsets \ ToSet(offs) PROVE line'[o] = line[o]
  <2>1. CASE o \in ToSet(fd) /\ IndexIn(fd, o) \in Mask(offs)
    <3>1. PICK j \in DOMAIN offs : IndexIn(fd, o) = IndexIn(fd, offs[j])
      BY <1>1, <2>1 DEF Mask, OffsetToBit
    <3>2. offs[j] \in ToSet(offs)
      BY DEF ToSet
    <3>3. offs[j] = o
      BY <1>1, <1>3, <2>1, <3>1, <3>2
    <3> QED BY <3>2, <3>3
  <2> QED BY <1>2, <2>1
<1> QED BY <1>4, <1>5

\* Getting values reads those of the lines named, place by place.
LEMMA ValuesAtIs ==
  ASSUME RInv, NEW offs \in Seq(Offsets), ToSet(offs) \subseteq ToSet(requested)
  PROVE  ValuesAt(offs) = [i \in DOMAIN offs |-> line[offs[i]].value]
<1>1. ASSUME NEW i \in DOMAIN offs
      PROVE  (IF OffsetToBit(offs[i]) \in KernelBits(Mask(offs)) THEN 1 ELSE 0)
               = line[offs[i]].value
  <2>1. offs[i] \in ToSet(offs) /\ offs[i] \in Offsets
    BY DEF ToSet
  <2>2. OffsetToBit(offs[i]) \in Mask(offs)
    BY DEF Mask
  <2>3. fd[OffsetToBit(offs[i])] = offs[i]
    BY <2>1, IndexIsOf DEF OffsetToBit, RInv
  <2>4. OffsetToBit(offs[i]) \in KernelBits(Mask(offs)) <=> line[offs[i]].value = 1
    BY <2>2, <2>3 DEF KernelBits
  <2>5. line[offs[i]].value \in {0, 1}
    BY <2>1 DEF RInv
  <2> QED BY <2>4, <2>5
<1> QED BY <1>1 DEF ValuesAt

-----------------------------------------------------------------------------
(* Paths to a request *)

Stages == {"build", "sent", "reading", "config", "granted", "shown", "py", "repy", "changed",
           "reset", "refused"}

\* Which path a request came by.
PathInv ==
  /\ stage \in Stages
  /\ stage = "build" => asked = NotAsked /\ sent = NoVariant /\ wanted = <<>>
  /\ stage \in {"sent", "reading", "config", "shown"} => sent # NoVariant
  /\ stage \in {"py", "repy", "changed", "reset"} => sent = NoVariant
  /\ sent # NoVariant => IsVariant(sent)
  /\ asked # NotAsked => sent # NoVariant
  /\ stage = "shown" => asked # NotAsked

\* A line is as its settings say, but for the value, which is set again and again.
Settled(o) ==
  /\ line[o].flags = MakeKernelFlags(conf[o])
  /\ line[o].debounce = conf[o].debounce % PeriodMod
  /\ line[o].output = (conf[o].direction = "output")

\* What was granted is what the configuration says, and what the kernel accepts.
GrantInv ==
  /\ requested \in Seq(Offsets)
  /\ stage \in {"granted", "shown", "changed", "reset"} =>
       /\ requested = order
       /\ \A o \in ToSet(order) :
            /\ ValidFlags(MakeKernelFlags(conf[o]))
            /\ Directed(MakeKernelFlags(conf[o])) => Settled(o)

\* gpiocli's options were valid, and it sent what they say.
AskInv ==
  asked # NotAsked /\ stage \in {"sent", "reading", "config", "granted", "shown"} =>
    /\ ValidOptions(Spelt(asked.opts), asked.debounce) /\ asked.debounce \in Nat
    /\ Len(sent.configs) = 1
    /\ sent.configs[1].settings = SettingsDict(Spelt(asked.opts), asked.debounce)
    /\ stage \in {"sent", "reading"} =>
         wanted = ByLine(sent.configs[1].offsets, sent.values)

\* The groups of a variant that hold a line, of those that were read.
GroupsOf(o) == {k \in 1..group : o \in ToSet(sent.configs[k].offsets)}

\* A line has the settings of the last of its groups, and the lines are in the order in
\* which they were named if none was named twice.
ReadInv ==
  sent # NoVariant =>
    /\ stage = "reading" =>
         /\ group \in 0..Len(sent.configs) /\ named \in Seq(Offsets)
         /\ Distinct(named) => order = named
         /\ group = 0 => named = <<>>
         /\ group = 1 => named = sent.configs[1].offsets
    /\ stage \in {"config", "granted", "shown"} => group = Len(sent.configs)
    /\ stage \in {"reading", "config", "granted", "shown"} =>
         \A o \in ToSet(order) :
           /\ GroupsOf(o) # {}
           /\ conf[o] = SettingsFrom(Defaults, sent.configs[Max(GroupsOf(o))].settings)

\* The values that are wanted are in the configuration at the place of their lines, and
\* then on the lines.
WantInv ==
  /\ stage \in {"config", "py"} =>
       \A o \in DOMAIN wanted \cap ToSet(order) :
         IndexIn(order, o) <= Len(outs) /\ outs[IndexIn(order, o)] = wanted[o]
  /\ stage = "granted" =>
       \A o \in DOMAIN wanted \cap ToSet(requested) :
         conf[o].direction = "output" => line[o].value = wanted[o]

\* A new configuration of a Python program has all lines of the request, those that it does
\* not name with the default settings, which leave alone what they drive, and all of them
\* where the kernel skips lines without a direction.
ChangeInv ==
  /\ stage = "repy" => requested # <<>> /\ order = requested /\ before = line
  /\ stage \in {"repy", "changed", "reset"} =>
       \A o \in ToSet(order) :
         conf[o] = IF o \in DOMAIN changed THEN ToExt(changed[o]) ELSE Defaults
  /\ stage = "changed" =>
       \A o \in ToSet(requested) \ GivenSettings : line[o] = before[o]
  /\ stage = "reset" =>
       \A o \in ToSet(requested) \ GivenSettings :
         line[o].output = before[o].output /\ line[o].value = before[o].value

\* What is shown is how the lines are.
Displayed(info) == PrintLineInfo(LineProperties(LineProps(info)))
ShownInv ==
  stage = "shown" => shown = [o \in ToSet(requested) |-> Displayed(GetLineInfo(o))]

PInv ==
  /\ RInv /\ CInv
  /\ PathInv /\ GrantInv /\ AskInv /\ ReadInv /\ WantInv /\ ChangeInv /\ ShownInv

-----------------------------------------------------------------------------
(* What the kernel tells of a line *)

LEMMA FlagsOf ==
  ASSUME NEW s \in AllSettings
  PROVE  LET f == MakeKernelFlags(s) IN
         /\ "INPUT" \in f <=> s.direction = "input" \/ s.edge # "none"
         /\ "OUTPUT" \in f <=> s.direction = "output"
         /\ "EDGE_RISING" \in f <=> s.edge \in {"rising", "both"}
         /\ "EDGE_FALLING" \in f <=> s.edge \in {"falling", "both"}
         /\ "OPEN_DRAIN" \in f <=> s.drive = "open_drain"
         /\ "OPEN_SOURCE" \in f <=> s.drive = "open_source"
         /\ "BIAS_DISABLED" \in f <=> s.bias = "disabled"
         /\ "BIAS_PULL_UP" \in f <=> s.bias = "pull_up"
         /\ "BIAS_PULL_DOWN" \in f <=> s.bias = "pull_down"
         /\ "ACTIVE_LOW" \in f <=> s.active_low
         /\ "CLOCK_REALTIME" \in f <=> s.clock = "realtime"
         /\ "CLOCK_HTE" \in f <=> s.clock = "hte"
         /\ "USED" \notin f
<1> DEFINE d == DirectionFlags(s)
           e == EdgeFlags(s)
           r == DriveFlags(s)
           b == BiasFlags(s)
           c == ClockFlags(s)
           a == IF s.active_low THEN {"ACTIVE_LOW"} ELSE {}
<1>1. /\ d \subseteq {"INPUT", "OUTPUT"}
      /\ "INPUT" \in d <=> s.direction = "input"
      /\ "OUTPUT" \in d <=> s.direction = "output"
  BY DEF DirectionFlags, AllSettings
<1>2. /\ e \subseteq {"INPUT", "EDGE_RISING", "EDGE_FALLING"}
      /\ "INPUT" \in e <=> s.edge # "none"
      /\ "EDGE_RISING" \in e <=> s.edge \in {"rising", "both"}
      /\ "EDGE_FALLING" \in e <=> s.edge \in {"falling", "both"}
  BY DEF EdgeFlags, AllSettings
<1>3. /\ r \subseteq {"OPEN_DRAIN", "OPEN_SOURCE"}
      /\ "OPEN_DRAIN" \in r <=> s.drive = "open_drain"
      /\ "OPEN_SOURCE" \in r <=> s.drive = "open_source"
  BY DEF DriveFlags, AllSettings
<1>4. /\ b \subseteq {"BIAS_DISABLED", "BIAS_PULL_UP", "BIAS_PULL_DOWN"}
      /\ "BIAS_DISABLED" \in b <=> s.bias = "disabled"
      /\ "BIAS_PULL_UP" \in b <=> s.bias = "pull_up"
      /\ "BIAS_PULL_DOWN" \in b <=> s.bias = "pull_down"
  BY DEF BiasFlags, AllSettings
<1>5. /\ c \subseteq {"CLOCK_REALTIME", "CLOCK_HTE"}
      /\ "CLOCK_REALTIME" \in c <=> s.clock = "realtime"
      /\ "CLOCK_HTE" \in c <=> s.clock = "hte"
  BY DEF ClockFlags, AllSettings
<1>6. a \subseteq {"ACTIVE_LOW"} /\ ("ACTIVE_LOW" \in a <=> s.active_low)
  OBVIOUS
<1>7. MakeKernelFlags(s) = d \cup e \cup r \cup b \cup a \cup c
  BY DEF MakeKernelFlags
<1> HIDE DEF d, e, r, b, c, a
<1> QED BY <1>1, <1>2, <1>3, <1>4, <1>5, <1>6, <1>7

\* What the kernel says of a line that has its settings is what they say.
LEMMA InfoTells ==
  ASSUME NEW o, conf[o] \in AllSettings, conf[o].direction # "as_is", Settled(o),
         ValidFlags(MakeKernelFlags(conf[o])), line[o].user = "fd"
  PROVE  Tells(GetLineInfo(o), conf[o])
<1> DEFINE s == conf[o]
           f == MakeKernelFlags(s)
           k == KernelInfo(o)
<1>1. k = (f \ {"INPUT", "OUTPUT"}) \cup {IF s.direction = "output" THEN "OUTPUT" ELSE "INPUT"}
            \cup {"USED"}
  BY DEF KernelInfo, Settled
<1>2. /\ "OUTPUT" \in f <=> s.direction = "output"
      /\ "INPUT" \in f <=> s.direction = "input" \/ s.edge # "none"
      /\ "EDGE_RISING" \in f <=> s.edge \in {"rising", "both"}
      /\ "EDGE_FALLING" \in f <=> s.edge \in {"falling", "both"}
      /\ "OPEN_DRAIN" \in f <=> s.drive = "open_drain"
      /\ "OPEN_SOURCE" \in f <=> s.drive = "open_source"
      /\ "BIAS_DISABLED" \in f <=> s.bias = "disabled"
      /\ "BIAS_PULL_UP" \in f <=> s.bias = "pull_up"
      /\ "BIAS_PULL_DOWN" \in f <=> s.bias = "pull_down"
      /\ "ACTIVE_LOW" \in f <=> s.active_low
      /\ "CLOCK_REALTIME" \in f <=> s.clock = "realtime"
      /\ "CLOCK_HTE" \in f <=> s.clock = "hte"
  BY FlagsOf
<1>3. s \in AllSettings /\ s.direction # "as_is"
  OBVIOUS
<1> HIDE DEF f, k, s
<1>4. /\ "USED" \in k /\ ("OUTPUT" \in k <=> s.direction = "output")
      /\ "EDGE_RISING" \in k <=> s.edge \in {"rising", "both"}
      /\ "EDGE_FALLING" \in k <=> s.edge \in {"falling", "both"}
      /\ "OPEN_DRAIN" \in k <=> s.drive = "open_drain"
      /\ "OPEN_SOURCE" \in k <=> s.drive = "open_source"
      /\ "BIAS_DISABLED" \in k <=> s.bias = "disabled"
      /\ "BIAS_PULL_UP" \in k <=> s.bias = "pull_up"
      /\ "BIAS_PULL_DOWN" \in k <=> s.bias = "pull_down"
      /\ "ACTIVE_LOW" \in k <=> s.active_low
      /\ "CLOCK_REALTIME" \in k <=> s.clock = "realtime"
      /\ "CLOCK_HTE" \in k <=> s.clock = "hte"
  BY <1>1, <1>2
<1>5. /\ s.direction \in {"input", "output"} /\ s.edge \in {"none", "rising", "falling", "both"}
      /\ s.bias \in {"as_is", "disabled", "pull_up", "pull_down"}
      /\ s.drive \in {"push_pull", "open_drain", "open_source"}
      /\ s.clock \in {"monotonic", "realtime", "hte"} /\ s.active_low \in BOOLEAN
  BY <1>3 DEF AllSettings
<1> DEFINE info == GetLineInfo(o)
<1>6. /\ info.used = ("USED" \in k)
      /\ info.direction = IF "OUTPUT" \in k THEN "output" ELSE "input"
      /\ info.active_low = ("ACTIVE_LOW" \in k)
      /\ info.bias = InfoBias(k) /\ info.drive = InfoDrive(k) /\ info.edge = InfoEdge(k)
      /\ info.clock = InfoClock(k) /\ info.debounce = line[o].debounce
  BY DEF GetLineInfo, InfoFromUapi, k
<1>7. InfoBias(k) = IF s.bias = "as_is" THEN "unknown" ELSE s.bias
  BY <1>4, <1>5 DEF InfoBias
<1>8. InfoDrive(k) = s.drive
  BY <1>4, <1>5 DEF InfoDrive
<1>9. InfoEdge(k) = s.edge
  BY <1>4, <1>5 DEF InfoEdge
<1>10. InfoClock(k) = s.clock
  BY <1>4, <1>5 DEF InfoClock
<1>11. info.debounce = s.debounce % PeriodMod
  BY <1>6 DEF Settled, s
<1>12. info.used /\ info.active_low = s.active_low
  <2>1. ("ACTIVE_LOW" \in k) = s.active_low
    BY <1>4, <1>5
  <2>2. info.used
    BY <1>4, <1>6, Zenon
  <2>3. info.active_low = ("ACTIVE_LOW" \in k)
    BY <1>6, Zenon
  <2> QED BY <2>1, <2>2, <2>3, Zenon
<1>13. info.direction = s.direction
  BY <1>4, <1>5, <1>6
<1> HIDE DEF info
<1>14. Tells(info, s)
  BY <1>6, <1>7, <1>8, <1>9, <1>10, <1>11, <1>12, <1>13, Zenon DEF Tells
<1> QED BY <1>14 DEF info, s

-----------------------------------------------------------------------------
(* Dictionaries *)

\* The manager's reading of a dictionary, setting by setting.
LEMMA SettingsFromIs ==
  ASSUME NEW dict
  PROVE  LET s == SettingsFrom(Defaults, dict) IN
         /\ s.direction = IF "direction" \in DOMAIN dict
                          THEN Stored("direction", LibraryName(dict["direction"])) ELSE "as_is"
         /\ s.edge = IF "edge" \in DOMAIN dict
                     THEN Stored("edge", LibraryName(dict["edge"])) ELSE "none"
         /\ s.bias = IF "bias" \in DOMAIN dict
                     THEN Stored("bias", LibraryName(dict["bias"])) ELSE "as_is"
         /\ s.drive = IF "drive" \in DOMAIN dict
                      THEN Stored("drive", LibraryName(dict["drive"])) ELSE "push_pull"
         /\ s.active_low = IF "active-low" \in DOMAIN dict /\ dict["active-low"]
                           THEN dict["active-low"] ELSE FALSE
         /\ s.clock = IF "event-clock" \in DOMAIN dict
                      THEN Stored("clock", LibraryName(dict["event-clock"])) ELSE "monotonic"
         /\ s.debounce = IF "debounce-period" \in DOMAIN dict
                         THEN dict["debounce-period"] ELSE 0
         /\ s.value = 0
         /\ s = [direction |-> s.direction, edge |-> s.edge, bias |-> s.bias,
                 drive |-> s.drive, active_low |-> s.active_low, clock |-> s.clock,
                 debounce |-> s.debounce, value |-> s.value]
<1> DEFINE s == SettingsFrom(Defaults, dict)
<1>1. DOMAIN Defaults = {"direction", "edge", "bias", "drive", "active_low", "clock",
                         "debounce", "value"}
  BY DEF Defaults
<1>2. /\ DOMAIN KeyOf = {"direction", "edge", "bias", "drive", "active_low", "clock", "debounce"}
      /\ KeyOf["direction"] = "direction" /\ KeyOf["edge"] = "edge" /\ KeyOf["bias"] = "bias"
      /\ KeyOf["drive"] = "drive" /\ KeyOf["active_low"] = "active-low"
      /\ KeyOf["clock"] = "event-clock" /\ KeyOf["debounce"] = "debounce-period"
  BY DEF KeyOf
<1>3. DOMAIN Takes = {"direction", "edge", "bias", "drive", "clock"}
  BY DEF Takes
<1>4. /\ Defaults["direction"] = "as_is" /\ Defaults["edge"] = "none"
      /\ Defaults["bias"] = "as_is" /\ Defaults["drive"] = "push_pull"
      /\ Defaults["active_low"] = FALSE /\ Defaults["clock"] = "monotonic"
      /\ Defaults["debounce"] = 0 /\ Defaults["value"] = 0
  BY DEF Defaults
<1>5. /\ DOMAIN s = DOMAIN Defaults
      /\ \A f \in DOMAIN Defaults :
           s[f] = IF f \in DOMAIN KeyOf /\ KeyOf[f] \in DOMAIN dict
                  THEN SetFromVariant(f, dict[KeyOf[f]], Defaults[f]) ELSE Defaults[f]
  BY DEF SettingsFrom
<1> HIDE DEF s
<1>6. \A f \in DOMAIN Takes : \A v, was :
        SetFromVariant(f, v, was) = Stored(f, LibraryName(v))
  BY DEF SetFromVariant
<1>7. \A v, was : SetFromVariant("debounce", v, was) = v
  BY <1>3 DEF SetFromVariant, Stored, Allowed
<1>8. "active_low" \notin DOMAIN Takes /\ "active_low" \notin DOMAIN Allowed
  BY <1>3 DEF Allowed
<1>9. /\ s["direction"] = IF "direction" \in DOMAIN dict
                          THEN Stored("direction", LibraryName(dict["direction"])) ELSE "as_is"
      /\ s["edge"] = IF "edge" \in DOMAIN dict
                     THEN Stored("edge", LibraryName(dict["edge"])) ELSE "none"
      /\ s["bias"] = IF "bias" \in DOMAIN dict
                     THEN Stored("bias", LibraryName(dict["bias"])) ELSE "as_is"
      /\ s["drive"] = IF "drive" \in DOMAIN dict
                      THEN Stored("drive", LibraryName(dict["drive"])) ELSE "push_pull"
      /\ s["clock"] = IF "event-clock" \in DOMAIN dict
                      THEN Stored("clock", LibraryName(dict["event-clock"])) ELSE "monotonic"
  BY <1>1, <1>2, <1>3, <1>4, <1>5, <1>6
<1>10. /\ s["debounce"] = IF "debounce-period" \in DOMAIN dict
                         THEN dict["debounce-period"] ELSE 0
       /\ s["value"] = 0
  BY <1>1, <1>2, <1>4, <1>5, <1>7
<1>11. s["active_low"] = IF "active-low" \in DOMAIN dict /\ dict["active-low"]
                         THEN dict["active-low"] ELSE FALSE
  <2>1. s["active_low"] = IF "active-low" \in DOMAIN dict
                          THEN IF ~dict["active-low"] THEN FALSE ELSE dict["active-low"]
                          ELSE FALSE
    <3>1. CASE "active-low" \in DOMAIN dict
      <4>1. s["active_low"] = SetFromVariant("active_low", dict["active-low"], FALSE)
        <5>1. /\ "active_low" \in DOMAIN Defaults /\ "active_low" \in DOMAIN KeyOf
              /\ KeyOf["active_low"] \in DOMAIN dict
          BY <1>1, <1>2, <3>1
        <5>2. s["active_low"] = SetFromVariant("active_low", dict[KeyOf["active_low"]],
                                               Defaults["active_low"])
          BY <1>5, <5>1, Zenon
        <5> QED BY <1>2, <1>4, <5>2, Zenon
      <4>2. SetFromVariant("active_low", dict["active-low"], FALSE)
              = IF ~dict["active-low"] THEN FALSE ELSE dict["active-low"]
        <5>1. Stored("active_low", dict["active-low"]) = dict["active-low"]
          BY <1>8, Zenon DEF Stored
        <5>2. CASE ~dict["active-low"]
          BY <1>8, <5>2, Zenon DEF SetFromVariant
        <5>3. CASE dict["active-low"]
          BY <1>8, <5>1, <5>3, Zenon DEF SetFromVariant
        <5> QED BY <5>2, <5>3, Zenon
      <4> QED BY <3>1, <4>1, <4>2, Zenon
    <3>2. CASE "active-low" \notin DOMAIN dict
      <4>1. s["active_low"] = FALSE
        BY <1>1, <1>2, <1>4, <1>5, <3>2
      <4> QED BY <3>2, <4>1, Zenon
    <3> QED BY <3>1, <3>2, Zenon
  <2>2. CASE "active-low" \in DOMAIN dict /\ dict["active-low"]
    BY <2>1, <2>2, Zenon
  <2>3. CASE ~("active-low" \in DOMAIN dict /\ dict["active-low"])
    BY <2>1, <2>3, Zenon
  <2> QED BY <2>2, <2>3, Zenon
<1>12. s = [direction |-> s["direction"], edge |-> s["edge"], bias |-> s["bias"],
            drive |-> s["drive"], active_low |-> s["active_low"], clock |-> s["clock"],
            debounce |-> s["debounce"], value |-> s["value"]]
  BY <1>1, <1>5 DEF SettingsFrom, s
<1> QED BY <1>9, <1>10, <1>11, <1>12 DEF s

\* What it accepts, it stores as a program of the library would.
LEMMA SettingsFromTyped ==
  ASSUME NEW dict, WellTyped(dict)
  PROVE  SettingsFrom(Defaults, dict) \in AllSettings
<1> DEFINE s == SettingsFrom(Defaults, dict)
<1>2. /\ s.direction \in {"as_is", "input", "output"}
      /\ s.edge \in {"none", "rising", "falling", "both"}
      /\ s.bias \in {"as_is", "disabled", "pull_up", "pull_down"}
      /\ s.drive \in {"push_pull", "open_drain", "open_source"}
      /\ s.clock \in {"monotonic", "realtime", "hte"}
  <2>1. /\ s.direction = IF "direction" \in DOMAIN dict
                         THEN Stored("direction", LibraryName(dict["direction"])) ELSE "as_is"
        /\ s.edge = IF "edge" \in DOMAIN dict
                    THEN Stored("edge", LibraryName(dict["edge"])) ELSE "none"
        /\ s.bias = IF "bias" \in DOMAIN dict
                    THEN Stored("bias", LibraryName(dict["bias"])) ELSE "as_is"
        /\ s.drive = IF "drive" \in DOMAIN dict
                     THEN Stored("drive", LibraryName(dict["drive"])) ELSE "push_pull"
        /\ s.clock = IF "event-clock" \in DOMAIN dict
                     THEN Stored("clock", LibraryName(dict["event-clock"])) ELSE "monotonic"
    BY SettingsFromIs
  <2> HIDE DEF s
  <2>2. /\ \A v : Stored("direction", v) \in {"as_is", "input", "output"}
        /\ \A v : Stored("edge", v) \in {"none", "rising", "falling", "both"}
        /\ \A v : Stored("bias", v) \in {"as_is", "disabled", "pull_up", "pull_down"}
        /\ \A v : Stored("drive", v) \in {"push_pull", "open_drain", "open_source"}
        /\ \A v : Stored("clock", v) \in {"monotonic", "realtime", "hte"}
    BY DEF Stored, Allowed, Defaults
  <2> QED BY <2>1, <2>2
<1>3. s.active_low \in BOOLEAN /\ s.debounce \in Nat /\ s.value \in {0, 1}
  <2>1. /\ s.active_low = IF "active-low" \in DOMAIN dict /\ dict["active-low"]
                          THEN dict["active-low"] ELSE FALSE
        /\ s.debounce = IF "debounce-period" \in DOMAIN dict
                        THEN dict["debounce-period"] ELSE 0
        /\ s.value = 0
    BY SettingsFromIs
  <2> HIDE DEF s
  <2>2. s.debounce \in Nat /\ s.value \in {0, 1}
    BY <2>1 DEF WellTyped
  <2>3. s.active_low \in BOOLEAN
    <3>1. CASE "active-low" \in DOMAIN dict /\ dict["active-low"]
      <4>1. s.active_low = dict["active-low"] /\ dict["active-low"] \in BOOLEAN
        BY <2>1, <3>1, Zenon DEF WellTyped
      <4> QED BY <4>1, Zenon
    <3>2. CASE ~("active-low" \in DOMAIN dict /\ dict["active-low"])
      <4>1. s.active_low = FALSE
        BY <2>1, <3>2, Zenon
      <4> QED BY <4>1, Zenon
    <3> QED BY <3>1, <3>2, Zenon
  <2> QED BY <2>2, <2>3, Zenon
<1>4. s = [direction |-> s.direction, edge |-> s.edge, bias |-> s.bias,
           drive |-> s.drive, active_low |-> s.active_low, clock |-> s.clock,
           debounce |-> s.debounce, value |-> s.value]
  BY SettingsFromIs
<1> HIDE DEF s
<1>5. s \in AllSettings
  BY <1>2, <1>3, <1>4 DEF AllSettings
<1> QED BY <1>5 DEF s

\* A field that the dictionary does not mention is the default.
LEMMA Unmentioned ==
  ASSUME NEW dict, NEW f \in DOMAIN Defaults, f \in DOMAIN KeyOf => KeyOf[f] \notin DOMAIN dict
  PROVE  SettingsFrom(Defaults, dict)[f] = Defaults[f]
BY DEF SettingsFrom

\* At most one of a group of options is given.
LEMMA OneOf ==
  ASSUME NEW S, IsFiniteSet(S), Cardinality(S) <= 1, NEW x \in S
  PROVE  (CHOOSE y \in S : TRUE) = x /\ \A y \in S : y = x
<1>1. \A y \in S : y = x
  <2> SUFFICES ASSUME NEW y \in S, y # x PROVE FALSE
    OBVIOUS
  <2>1. {x} \subseteq S \ {y} /\ IsFiniteSet(S \ {y})
    BY FS_RemoveElement
  <2>2. Cardinality(S \ {y}) = Cardinality(S) - 1
    BY FS_RemoveElement
  <2>3. Cardinality(S) \in Nat /\ Cardinality(S \ {y}) \in Nat
    BY <2>1, FS_CardinalityType
  <2>4. Cardinality(S \ {y}) = 0
    BY <2>2, <2>3
  <2>5. S \ {y} = {}
    BY <2>1, <2>4, FS_EmptySet
  <2> QED BY <2>1, <2>5
<1> QED BY <1>1

LEMMA OneGiven ==
  ASSUME NEW o, NEW d, ValidOptions(o, d), NEW g \in {Biases, Drives, Clocks},
         NEW x \in o \cap g
  PROVE  (CHOOSE y \in o \cap g : TRUE) = x /\ \A y \in o \cap g : y = x
<1>1. PICK a, b, c : g = {a, b, c}
  BY DEF Biases, Drives, Clocks
<1>2. IsFiniteSet({a}) /\ IsFiniteSet({b}) /\ IsFiniteSet({c})
  BY FS_Singleton
<1>3. IsFiniteSet({a} \cup {b})
  BY <1>2, FS_Union
<1>4. IsFiniteSet(({a} \cup {b}) \cup {c})
  BY <1>2, <1>3, FS_Union
<1>5. IsFiniteSet(g)
  <2>1. g = ({a} \cup {b}) \cup {c}
    BY <1>1
  <2> QED BY <1>4, <2>1
<1>6. IsFiniteSet(o \cap g) /\ Cardinality(o \cap g) <= 1
  <2>1. o \cap g \in SUBSET g
    OBVIOUS
  <2>2. IsFiniteSet(o \cap g)
    BY <1>5, <2>1, FS_Subset
  <2> QED BY <2>2 DEF ValidOptions
<1> DEFINE t == o \cap g
<1> HIDE DEF t
<1>7. (CHOOSE y \in t : TRUE) = x /\ \A y \in t : y = x
  BY <1>6, OneOf DEF t
<1> QED BY <1>7 DEF t

\* The manager reads out of gpiocli's dictionary what the options say.
LEMMA AskedSettings ==
  ASSUME NEW o, NEW d \in Nat, ValidOptions(o, d)
  PROVE  LET s == SettingsFrom(Defaults, SettingsDict(o, d)) IN
         /\ s.direction = IF "input" \in o THEN "input"
                          ELSE IF "output" \in o THEN "output" ELSE "as_is"
         /\ s.edge = IF Edges \subseteq o THEN "both"
                     ELSE IF "falling-edge" \in o THEN "falling"
                     ELSE IF "rising-edge" \in o THEN "rising" ELSE "none"
         /\ s.bias = IF "pull-up" \in o THEN "pull_up" ELSE IF "pull-down" \in o THEN "pull_down"
                     ELSE IF "bias-disabled" \in o THEN "disabled" ELSE "as_is"
         /\ s.drive = IF "open-drain" \in o THEN "open_drain"
                      ELSE IF "open-source" \in o THEN "open_source" ELSE "push_pull"
         /\ s.clock = IF "clock-realtime" \in o THEN "realtime"
                      ELSE IF "clock-hte" \in o THEN "hte" ELSE "monotonic"
         /\ s.active_low = ("active-low" \in o)
         /\ s.debounce = d
<1> DEFINE dict == SettingsDict(o, d)
           s == SettingsFrom(Defaults, dict)
<1>1. /\ Edges = {"rising-edge", "falling-edge"}
      /\ Drives = {"push-pull", "open-drain", "open-source"}
      /\ Biases = {"pull-up", "pull-down", "bias-disabled"}
      /\ Clocks = {"clock-monotonic", "clock-realtime", "clock-hte"}
  BY DEF Edges, Drives, Biases, Clocks
<1>2. /\ DOMAIN dict = Mentioned(o, d)
      /\ "direction" \in DOMAIN dict
      /\ "edge" \in DOMAIN dict <=> o \cap Edges # {}
      /\ "bias" \in DOMAIN dict <=> o \cap Biases # {}
      /\ "drive" \in DOMAIN dict <=> o \cap Drives # {}
      /\ "active-low" \in DOMAIN dict <=> "active-low" \in o
      /\ "debounce-period" \in DOMAIN dict <=> d # 0
      /\ "event-clock" \in DOMAIN dict <=> o \cap Clocks # {}
  BY DEF SettingsDict, Mentioned
<1>3. /\ dict["direction"] = IF "input" \in o THEN "input"
                             ELSE IF "output" \in o THEN "output" ELSE "as-is"
      /\ "edge" \in DOMAIN dict => dict["edge"] = EdgeGiven(o)
      /\ "bias" \in DOMAIN dict => dict["bias"] = Given(o, Biases)
      /\ "drive" \in DOMAIN dict => dict["drive"] = Given(o, Drives)
      /\ "active-low" \in DOMAIN dict => dict["active-low"] = TRUE
      /\ "debounce-period" \in DOMAIN dict => dict["debounce-period"] = d
      /\ "event-clock" \in DOMAIN dict => dict["event-clock"] = Given(o, Clocks)
  BY <1>2 DEF SettingsDict
<1>4. \A g \in {Biases, Drives, Clocks} : \A x \in o \cap g : Given(o, g) = Spelling(x)
  BY OneGiven DEF Given
<1>5. s.direction = IF "input" \in o THEN "input"
                    ELSE IF "output" \in o THEN "output" ELSE "as_is"
  <2>1. s.direction = Stored("direction", LibraryName(dict["direction"]))
    BY <1>2, SettingsFromIs
  <2> HIDE DEF s, dict
  <2> QED BY <1>3, <2>1 DEF Stored, LibraryName, Allowed
<1>6. s.edge = IF Edges \subseteq o THEN "both"
               ELSE IF "falling-edge" \in o THEN "falling"
               ELSE IF "rising-edge" \in o THEN "rising" ELSE "none"
  <2>1. s.edge = IF "edge" \in DOMAIN dict
                 THEN Stored("edge", LibraryName(dict["edge"])) ELSE "none"
    BY SettingsFromIs
  <2> HIDE DEF s, dict
  <2> QED BY <1>1, <1>2, <1>3, <2>1 DEF Stored, LibraryName, Allowed, EdgeGiven
<1>7. s.bias = IF "pull-up" \in o THEN "pull_up" ELSE IF "pull-down" \in o THEN "pull_down"
               ELSE IF "bias-disabled" \in o THEN "disabled" ELSE "as_is"
  <2>1. s.bias = IF "bias" \in DOMAIN dict
                 THEN Stored("bias", LibraryName(dict["bias"])) ELSE "as_is"
    BY SettingsFromIs
  <2> HIDE DEF s, dict
  <2>2. \A x \in o \cap Biases :
          s.bias = Stored("bias", LibraryName(Spelling(x)))
    BY <1>2, <1>3, <1>4, <2>1
  <2> QED BY <1>1, <1>2, <2>1, <2>2 DEF Stored, LibraryName, Spelling, Allowed
<1>8. s.drive = IF "open-drain" \in o THEN "open_drain"
                ELSE IF "open-source" \in o THEN "open_source" ELSE "push_pull"
  <2>1. s.drive = IF "drive" \in DOMAIN dict
                  THEN Stored("drive", LibraryName(dict["drive"])) ELSE "push_pull"
    BY SettingsFromIs
  <2> HIDE DEF s, dict
  <2>2. \A x \in o \cap Drives :
          s.drive = Stored("drive", LibraryName(Spelling(x)))
    BY <1>2, <1>3, <1>4, <2>1
  <2> QED BY <1>1, <1>2, <2>1, <2>2 DEF Stored, LibraryName, Spelling, Allowed
<1>9. s.clock = IF "clock-realtime" \in o THEN "realtime"
                ELSE IF "clock-hte" \in o THEN "hte" ELSE "monotonic"
  <2>1. s.clock = IF "event-clock" \in DOMAIN dict
                  THEN Stored("clock", LibraryName(dict["event-clock"])) ELSE "monotonic"
    BY SettingsFromIs
  <2> HIDE DEF s, dict
  <2>2. \A x \in o \cap Clocks :
          s.clock = Stored("clock", LibraryName(Spelling(x)))
    BY <1>2, <1>3, <1>4, <2>1
  <2> QED BY <1>1, <1>2, <2>1, <2>2 DEF Stored, LibraryName, Spelling, Allowed
<1>10. s.active_low = ("active-low" \in o) /\ s.debounce = d
  <2>1. /\ s.active_low = IF "active-low" \in DOMAIN dict /\ dict["active-low"]
                          THEN dict["active-low"] ELSE FALSE
        /\ s.debounce = IF "debounce-period" \in DOMAIN dict
                        THEN dict["debounce-period"] ELSE 0
    BY SettingsFromIs
  <2> HIDE DEF s, dict
  <2>2. s.debounce = d
    BY <1>2, <1>3, <2>1
  <2>3. s.active_low = IF "active-low" \in o THEN TRUE ELSE FALSE
    BY <1>2, <1>3, <2>1
  <2>4. s.active_low = ("active-low" \in o)
    <3>1. CASE "active-low" \in o
      BY <2>3, <3>1, Zenon
    <3>2. CASE "active-low" \notin o
      <4>1. s.active_low = FALSE
        BY <2>3, <3>2, Zenon
      <4>2. ("active-low" \in o) = FALSE
        BY <3>2
      <4> QED BY <4>1, <4>2, Zenon
    <3> QED BY <3>1, <3>2, Zenon
  <2> QED BY <2>2, <2>4, Zenon
<1> HIDE DEF s
<1> QED BY <1>5, <1>6, <1>7, <1>8, <1>9, <1>10 DEF s, dict

-----------------------------------------------------------------------------
(* What gpiocli shows *)

\* What gpiocli shows is the information, in its own words and without what goes with edges
\* or with outputs where there is none.
LEMMA DisplayedIs ==
  ASSUME NEW f, NEW period
  PROVE  LET info == InfoFromUapi(f, period) p == Displayed(info) IN
         /\ p.used = info.used /\ p.direction = info.direction
         /\ p.active_low = info.active_low
         /\ p.edge = IF info.edge = "none" THEN "" ELSE info.edge
         /\ p.bias = IF MapBias(info.bias) = "unknown" THEN "" ELSE MapBias(info.bias)
         /\ p.drive = IF info.direction = "output" THEN MapDrive(info.drive) ELSE ""
         /\ p.clock = IF p.edge # "" THEN info.clock ELSE ""
         /\ p.debounced = (info.debounced /\ p.edge # "")
         /\ p.debounce = IF p.edge # "" THEN info.debounce ELSE 0
<1> DEFINE info == InfoFromUapi(f, period)
           names == {"used", "direction", "active_low", "bias", "drive", "edge", "clock",
                     "debounced", "debounce"}
           q == LineProps(info)
           r == LineProperties(q)
           p == Displayed(info)
<1>1. DOMAIN info = names
  BY DEF InfoFromUapi
<1> HIDE DEF info
<1>2. /\ DOMAIN q = names
      /\ q.bias = MapBias(info.bias) /\ q.drive = MapDrive(info.drive)
      /\ q.used = info.used /\ q.direction = info.direction /\ q.active_low = info.active_low
      /\ q.edge = info.edge /\ q.clock = info.clock
      /\ q.debounced = info.debounced /\ q.debounce = info.debounce
  BY <1>1 DEF LineProps
<1> HIDE DEF q
<1>3. /\ DOMAIN r = names
      /\ r.bias = (IF q.bias = "unknown" THEN "" ELSE q.bias)
      /\ r.edge = (IF q.edge = "none" THEN "" ELSE q.edge)
      /\ r.used = q.used /\ r.direction = q.direction /\ r.active_low = q.active_low
      /\ r.drive = q.drive /\ r.clock = q.clock
      /\ r.debounced = q.debounced /\ r.debounce = q.debounce
  BY <1>2 DEF LineProperties
<1>4. p = PrintLineInfo(r)
  BY DEF Displayed, q
<1> HIDE DEF r, p
<1>5. /\ p.used = r.used /\ p.direction = r.direction /\ p.active_low = r.active_low
      /\ p.edge = r.edge /\ p.bias = r.bias
      /\ p.drive = (IF r.direction = "output" THEN r.drive ELSE "")
      /\ p.clock = (IF r.edge # "" THEN r.clock ELSE "")
      /\ p.debounced = (r.debounced /\ r.edge # "")
      /\ p.debounce = (IF r.edge # "" THEN r.debounce ELSE 0)
  <2> DEFINE edges == r.edge # ""
             d == IF r.direction = "output" THEN r.drive ELSE ""
             c == IF edges THEN r.clock ELSE ""
             b == r.debounced /\ edges
             t == IF edges THEN r.debounce ELSE 0
  <2>1. p = [r EXCEPT !.drive = d, !.clock = c, !.debounced = b, !.debounce = t]
    BY <1>4 DEF PrintLineInfo
  <2> HIDE DEF d, c, b, t
  <2>2. /\ p.used = r.used /\ p.direction = r.direction /\ p.active_low = r.active_low
        /\ p.edge = r.edge /\ p.bias = r.bias
        /\ p.drive = d /\ p.clock = c /\ p.debounced = b /\ p.debounce = t
    BY <1>3, <2>1
  <2> QED BY <2>2, Zenon DEF d, c, b, t
<1> QED BY <1>2, <1>3, <1>5, Zenon DEF info, p

\* ... so that it shows what the options said.
LEMMA ShownIs ==
  ASSUME NEW x, NEW o, NEW d \in Nat, ValidOptions(o, d),
         conf[x] = SettingsFrom(Defaults, SettingsDict(o, d)),
         conf[x] \in AllSettings, Tells(GetLineInfo(x), conf[x]),
         o \cap {"input", "output"} # {}
  PROVE  LET p == Displayed(GetLineInfo(x)) IN
         /\ p.used /\ p.direction \in o
         /\ p.active_low = ("active-low" \in o)
         /\ p.edge \in {"rising", "both"} <=> "rising-edge" \in o
         /\ p.edge \in {"falling", "both"} <=> "falling-edge" \in o
         /\ p.bias = Option(o, "pull-up", "pull-up", Option(o, "pull-down", "pull-down",
                       Option(o, "bias-disabled", "disabled", "")))
         /\ \A v \in {"open-drain", "open-source"} : p.drive = v <=> v \in o
         /\ p.clock = "realtime" <=> "clock-realtime" \in o
         /\ p.clock = "hte" <=> "clock-hte" \in o
         /\ p.debounce = d % PeriodMod /\ p.debounced = (p.debounce # 0)
<1> DEFINE s == conf[x]
           info == GetLineInfo(x)
           p == Displayed(info)
<1>1. /\ s.direction = IF "input" \in o THEN "input"
                       ELSE IF "output" \in o THEN "output" ELSE "as_is"
      /\ s.edge = IF Edges \subseteq o THEN "both"
                  ELSE IF "falling-edge" \in o THEN "falling"
                  ELSE IF "rising-edge" \in o THEN "rising" ELSE "none"
      /\ s.bias = IF "pull-up" \in o THEN "pull_up" ELSE IF "pull-down" \in o THEN "pull_down"
                  ELSE IF "bias-disabled" \in o THEN "disabled" ELSE "as_is"
      /\ s.drive = IF "open-drain" \in o THEN "open_drain"
                   ELSE IF "open-source" \in o THEN "open_source" ELSE "push_pull"
      /\ s.clock = IF "clock-realtime" \in o THEN "realtime"
                   ELSE IF "clock-hte" \in o THEN "hte" ELSE "monotonic"
      /\ s.active_low = ("active-low" \in o)
      /\ s.debounce = d
  BY AskedSettings
<1>2. /\ info.used
      /\ info.direction = s.direction /\ info.active_low = s.active_low
      /\ info.bias = IF s.bias = "as_is" THEN "unknown" ELSE s.bias
      /\ info.drive = s.drive /\ info.edge = s.edge /\ info.clock = s.clock
      /\ info.debounce = s.debounce % PeriodMod
  BY DEF Tells
<1>3. /\ p.used = info.used /\ p.direction = info.direction
      /\ p.active_low = info.active_low
      /\ p.edge = IF info.edge = "none" THEN "" ELSE info.edge
      /\ p.bias = IF MapBias(info.bias) = "unknown" THEN "" ELSE MapBias(info.bias)
      /\ p.drive = IF info.direction = "output" THEN MapDrive(info.drive) ELSE ""
      /\ p.clock = IF p.edge # "" THEN info.clock ELSE ""
      /\ p.debounced = (info.debounced /\ p.edge # "")
      /\ p.debounce = IF p.edge # "" THEN info.debounce ELSE 0
  <2> DEFINE f == KernelInfo(x)
             period == line[x].debounce
             i == InfoFromUapi(f, period)
             q == Displayed(i)
  <2>1. info = i
    BY DEF GetLineInfo
  <2>2. p = q
    BY <2>1
  <2>3. /\ q.used = i.used /\ q.direction = i.direction
        /\ q.active_low = i.active_low
        /\ q.edge = IF i.edge = "none" THEN "" ELSE i.edge
        /\ q.bias = IF MapBias(i.bias) = "unknown" THEN "" ELSE MapBias(i.bias)
        /\ q.drive = IF i.direction = "output" THEN MapDrive(i.drive) ELSE ""
        /\ q.clock = IF q.edge # "" THEN i.clock ELSE ""
        /\ q.debounced = (i.debounced /\ q.edge # "")
        /\ q.debounce = IF q.edge # "" THEN i.debounce ELSE 0
    <3> HIDE DEF f, period
    <3> QED BY DisplayedIs, Zenon
  <2> HIDE DEF info, p, q, i
  <2> QED BY <2>1, <2>2, <2>3, Zenon
<1>4. info.debounced = (info.debounce # 0)
  BY DEF GetLineInfo, InfoFromUapi
<1>5. d % PeriodMod \in Nat /\ (d = 0 => d % PeriodMod = 0)
  BY UapiAssumption DEF UapiAssumption
<1> HIDE DEF s, info, p
<1>6. /\ Edges = {"rising-edge", "falling-edge"}
      /\ o \cap Edges # {} => "input" \in o
      /\ o \cap Drives # {} => "output" \in o
      /\ o \cap Clocks # {} \/ d # 0 => o \cap Edges # {}
      /\ ~({"input", "output"} \subseteq o)
      /\ Cardinality(o \cap Biases) <= 1 /\ Cardinality(o \cap Drives) <= 1
      /\ Cardinality(o \cap Clocks) <= 1
  BY DEF ValidOptions, Edges
<1>7. p.used /\ p.direction \in o
  BY <1>1, <1>2, <1>3
<1>8. p.active_low = ("active-low" \in o)
  BY <1>1, <1>2, <1>3, Zenon
<1>9. /\ p.edge = IF Edges \subseteq o THEN "both"
                  ELSE IF "falling-edge" \in o THEN "falling"
                  ELSE IF "rising-edge" \in o THEN "rising" ELSE ""
      /\ p.edge \in {"rising", "both"} <=> "rising-edge" \in o
      /\ p.edge \in {"falling", "both"} <=> "falling-edge" \in o
      /\ p.edge # "" <=> o \cap Edges # {}
  BY <1>1, <1>2, <1>3, <1>6
<1>10. p.bias = Option(o, "pull-up", "pull-up", Option(o, "pull-down", "pull-down",
                  Option(o, "bias-disabled", "disabled", "")))
  BY <1>1, <1>2, <1>3 DEF Option, MapBias
<1>11. ~("open-drain" \in o /\ "open-source" \in o)
       /\ ~("clock-realtime" \in o /\ "clock-hte" \in o)
  <2>1. \A g \in {Drives, Clocks} : \A a, b \in o \cap g : a = b
    BY OneGiven
  <2> QED BY <2>1 DEF Drives, Clocks
<1>12. \A v \in {"open-drain", "open-source"} : p.drive = v <=> v \in o
  <2>1. p.drive = IF s.direction = "output" THEN MapDrive(s.drive) ELSE ""
    BY <1>2, <1>3
  <2>2. "open-drain" \in Drives /\ "open-source" \in Drives
    BY DEF Drives
  <2>3. o \cap Drives # {} => s.direction = "output"
    BY <1>1, <1>6
  <2>4. s.drive \in {"open_drain", "open_source", "push_pull"}
    BY <1>1
  <2>5. /\ MapDrive("open_drain") = "open-drain" /\ MapDrive("open_source") = "open-source"
        /\ MapDrive("push_pull") = "push-pull"
    BY DEF MapDrive
  <2> QED BY <1>1, <1>11, <2>1, <2>2, <2>3, <2>4, <2>5
<1>13. /\ p.clock = "realtime" <=> "clock-realtime" \in o
       /\ p.clock = "hte" <=> "clock-hte" \in o
  <2>1. p.clock = IF p.edge # "" THEN s.clock ELSE ""
    BY <1>2, <1>3
  <2>2. o \cap Clocks # {} => p.edge # ""
    BY <1>6, <1>9
  <2>3. "clock-realtime" \in Clocks /\ "clock-hte" \in Clocks
    BY DEF Clocks
  <2> QED BY <1>1, <1>11, <2>1, <2>2, <2>3
<1>14. p.debounce = d % PeriodMod
  <2>1. p.edge = "" => d = 0
    BY <1>6, <1>9
  <2>2. info.debounce = d % PeriodMod
    BY <1>1, <1>2
  <2> QED BY <1>3, <1>5, <2>1, <2>2
<1>15. p.debounced = (p.debounce # 0)
  <2>1. p.debounced = ((info.debounce # 0) /\ p.edge # "")
    BY <1>3, <1>4, Zenon
  <2>2. (info.debounce # 0 /\ p.edge # "") <=> p.debounce # 0
    BY <1>3
  <2>3. ((info.debounce # 0) /\ p.edge # "") = (p.debounce # 0)
    BY <2>2
  <2> QED BY <2>1, <2>3, Zenon
<1>16. /\ p.used /\ p.direction \in o
       /\ p.active_low = ("active-low" \in o)
       /\ p.edge \in {"rising", "both"} <=> "rising-edge" \in o
       /\ p.edge \in {"falling", "both"} <=> "falling-edge" \in o
       /\ p.bias = Option(o, "pull-up", "pull-up", Option(o, "pull-down", "pull-down",
                     Option(o, "bias-disabled", "disabled", "")))
       /\ \A v \in {"open-drain", "open-source"} : p.drive = v <=> v \in o
       /\ p.clock = "realtime" <=> "clock-realtime" \in o
       /\ p.clock = "hte" <=> "clock-hte" \in o
       /\ p.debounce = d % PeriodMod /\ p.debounced = (p.debounce # 0)
  BY <1>7, <1>8, <1>9, <1>10, <1>12, <1>13, <1>14, <1>15, Zenon
<1> QED BY <1>16, Zenon DEF p, info

-----------------------------------------------------------------------------
(* Requests on a path *)

\* What is granted is as configured, each value as it was set by position or with the
\* settings.
LEMMA Granted ==
  ASSUME CInv, RInv, RequestLines \/ ReconfigureLines
  PROVE  /\ requested' = order /\ UNCHANGED config
         /\ \A o \in ToSet(order) :
              /\ ValidFlags(MakeKernelFlags(conf[o]))
              /\ Directed(MakeKernelFlags(conf[o])) => Settled(o)'
              /\ conf[o].direction = "output" =>
                   line'[o].value = IF IndexIn(order, o) <= Len(outs)
                                    THEN outs[IndexIn(order, o)] ELSE conf[o].value
<1>1. requested' = order /\ UNCHANGED config
  BY DEF RequestLines, ReconfigureLines, OffsetsEqual
<1>2. Encoded.ok /\ KernelAccepts(Encoded, Len(order)) /\ Len(order) \in Nat
  BY DEF RequestLines, KernelGrants, ReconfigureLines, OffsetsEqual, RInv, CInv
<1>3. ASSUME NEW o \in ToSet(order)
      PROVE  /\ ValidFlags(MakeKernelFlags(conf[o]))
             /\ Directed(MakeKernelFlags(conf[o])) => Settled(o)'
             /\ conf[o].direction = "output" =>
                  line'[o].value = IF IndexIn(order, o) <= Len(outs)
                                   THEN outs[IndexIn(order, o)] ELSE conf[o].value
  <2> DEFINE i == IndexIn(order, o)
             s == GetLineSettings(i)
             cfg == PerLine
  <2>1. i \in DOMAIN order /\ order[i] = o /\ i \in 1..Len(order)
    BY IndexIsOf DEF CInv
  <2>2. cfg[i] = conf[o] /\ cfg \in Seq(AllSettings) /\ i \in DOMAIN cfg
        /\ conf[o] \in AllSettings /\ Encoded = ToUapi(cfg, outs)
    BY <2>1, PerLineIs DEF Encoded, CInv
  <2>3. ValidFlags(MakeKernelFlags(conf[o]))
    <3>1. KernelFlags(Encoded, i) = MakeKernelFlags(cfg[i])
      <4> HIDE DEF cfg, i
      <4> QED BY <1>2, <2>2, FlagsReach
    <3>2. ValidFlags(KernelFlags(Encoded, i))
      <4> HIDE DEF i
      <4> QED BY <1>2, <2>1 DEF KernelAccepts
    <3> HIDE DEF cfg, i
    <3> QED BY <2>2, <3>1, <3>2
  <2>4. /\ MakeKernelFlags(s) = MakeKernelFlags(conf[o])
        /\ s.debounce = conf[o].debounce /\ s.direction = conf[o].direction
        /\ s.value = IF i <= Len(outs) THEN outs[i] ELSE conf[o].value
    <3> HIDE DEF i
    <3> QED BY <2>1, <2>2, SettingsReadBack DEF s, cfg
  <2>5. ASSUME Directed(MakeKernelFlags(conf[o]))
        PROVE  /\ Settled(o)'
               /\ line'[o].output => line'[o].value = s.value
               /\ line'[o].output = (conf[o].direction = "output")
    <3>1. AsConfigured(o)'
      BY <2>5, GrantedAs
    <3>2. s' = s
      BY <1>1 DEF config, GetLineSettings, IndexIn
    <3>3. /\ line'[o].flags = MakeKernelFlags(s') /\ line'[o].debounce = s'.debounce % PeriodMod
          /\ line'[o].output = (s'.direction = "output")
          /\ line'[o].output => line'[o].value = s'.value
      BY <3>1 DEF AsConfigured
    <3>4. conf' = conf
      BY <1>1 DEF config
    <3> HIDE DEF s
    <3>5. /\ line'[o].flags = MakeKernelFlags(s) /\ line'[o].debounce = s.debounce % PeriodMod
          /\ line'[o].output = (s.direction = "output")
          /\ line'[o].output => line'[o].value = s.value
      BY <3>2, <3>3
    <3>6. Settled(o)' <=>
            /\ line'[o].flags = MakeKernelFlags(conf[o])
            /\ line'[o].debounce = conf[o].debounce % PeriodMod
            /\ line'[o].output = (conf[o].direction = "output")
      BY <3>4 DEF Settled
    <3> QED BY <2>4, <3>5, <3>6
  <2>6. conf[o].direction = "output" => Directed(MakeKernelFlags(conf[o]))
    BY <2>2, FlagsOf DEF Directed
  <2>7. ASSUME conf[o].direction = "output" PROVE line'[o].value = s.value
    <3>1. line'[o].output
      BY <2>5, <2>6, <2>7
    <3> QED BY <2>5, <2>6, <2>7, <3>1
  <2> HIDE DEF s
  <2> QED BY <2>3, <2>4, <2>5, <2>7 DEF i
<1> QED BY <1>1, <1>3

\* The lines without a direction keep their state and their value, and all of what they
\* are where the kernel skips them.
LEMMA Undirected ==
  ASSUME CInv, RInv, ReconfigureLines, NEW o \in ToSet(order),
         ~Directed(MakeKernelFlags(conf[o]))
  PROVE  /\ line'[o].output = line[o].output /\ line'[o].value = line[o].value
         /\ line' = Reconfigured(TRUE) => line'[o] = line[o]
<1> DEFINE i == IndexIn(order, o)
           f == KernelFlags(Encoded, i)
           new == Applied(line[o], Encoded, i)
           cfg == PerLine
<1>1. i \in DOMAIN order /\ order[i] = o /\ o \in Offsets
  BY IndexIsOf DEF CInv, ToSet
<1>2. cfg[i] = conf[o] /\ cfg \in Seq(AllSettings) /\ i \in DOMAIN cfg
      /\ Encoded = ToUapi(cfg, outs) /\ Encoded.ok /\ fd = order
  BY <1>1, PerLineIs DEF Encoded, ReconfigureLines, OffsetsEqual, RInv
<1>3. f = MakeKernelFlags(cfg[i])
  <2> HIDE DEF cfg, i
  <2> QED BY <1>2, FlagsReach
<1>4. ~Directed(f) /\ "OUTPUT" \notin f
  <2> HIDE DEF f
  <2> QED BY <1>2, <1>3 DEF Directed
<1>5. PICK skip \in BOOLEAN : line' = Reconfigured(skip)
  BY DEF ReconfigureLines
<1>6. line'[o] = line[o] \/ line'[o] = new
  BY <1>1, <1>2, <1>5 DEF Reconfigured
<1>7. new.output = line[o].output /\ new.value = line[o].value
  <2> DEFINE p == KernelDebounce(Encoded, i)
             v == IF "OUTPUT" \in f THEN KernelValue(Encoded, i) ELSE line[o].value
             out == IF Directed(f) THEN "OUTPUT" \in f ELSE line[o].output
  <2>1. new = [line[o] EXCEPT !.flags = f, !.debounce = p, !.output = out, !.value = v]
    BY <1>1 DEF Applied, RInv, Fields
  <2>2. v = line[o].value
    BY <1>4
  <2>3. out = line[o].output
    BY <1>4, Zenon
  <2>4. DOMAIN line[o] = Fields
    BY <1>1 DEF RInv
  <2> HIDE DEF p, v, out, f, new
  <2>5. new.output = out /\ new.value = v
    BY <2>1, <2>4 DEF Fields
  <2> QED BY <2>2, <2>3, <2>5, Zenon
<1>8. line' = Reconfigured(TRUE) => line'[o] = line[o]
  <2> HIDE DEF new
  <2> QED BY <1>1, <1>2, <1>4 DEF Reconfigured
<1> HIDE DEF new
<1> QED BY <1>6, <1>7, <1>8, Zenon

\* Setting values changes nothing else of the lines.
LEMMA SetKeeps ==
  ASSUME RInv, NEW offs, NEW vals, SetValuesSubset(offs, vals)
  PROVE  /\ UNCHANGED <<config, requested, fd>>
         /\ \A o \in Offsets : /\ line'[o].flags = line[o].flags
                               /\ line'[o].debounce = line[o].debounce
                               /\ line'[o].output = line[o].output
<1>1. UNCHANGED <<config, requested, fd>>
  BY DEF SetValuesSubset
<1>2. ASSUME NEW o \in Offsets
      PROVE  /\ line'[o].flags = line[o].flags
             /\ line'[o].debounce = line[o].debounce
             /\ line'[o].output = line[o].output
  <2>1. DOMAIN line[o] = Fields
    BY DEF RInv
  <2>2. line'[o] = line[o] \/ \E v \in {0, 1} : line'[o] = [line[o] EXCEPT !.value = v]
    BY DEF SetValuesSubset
  <2> QED BY <2>1, <2>2 DEF Fields
<1> QED BY <1>1, <1>2

-----------------------------------------------------------------------------
(* Steps of the paths *)

\* What the parts of the invariant say of the library's state.
LEMMA SameLines ==
  ASSUME RInv, CInv, UNCHANGED vars
  PROVE  RInv' /\ CInv'
<1>1. RInv'
  BY SameRequest DEF RInv, vars, config
<1> QED BY <1>1 DEF CInv, vars, config

\* A path that has ended.
LEMMA Ended ==
  ASSUME PInv, UNCHANGED <<vars, sent, asked>>, stage' = "refused"
  PROVE  PInv'
<1>1. RInv' /\ CInv'
  BY SameLines DEF PInv
<1>2. PathInv'
  BY DEF PInv, PathInv, Stages
<1>3. GrantInv' /\ AskInv' /\ ReadInv' /\ WantInv' /\ ChangeInv' /\ ShownInv'
  BY DEF PInv, GrantInv, AskInv, ReadInv, WantInv, ChangeInv, ShownInv, vars
<1> QED BY <1>1, <1>2, <1>3 DEF PInv

LEMMA PathsStart == PathsInit => PInv
<1> SUFFICES ASSUME PathsInit PROVE PInv
  OBVIOUS
<1>1. /\ stage = "build" /\ wanted = <<>> /\ sent = NoVariant /\ asked = NotAsked
      /\ requested = <<>> /\ Init
  BY DEF PathsInit, DbusInit, Init
<1>2. RInv /\ CInv
  BY <1>1, RequestInit, ConfigInit, UserConfigIs
<1>3. PathInv
  BY <1>1 DEF PathInv, Stages
<1>4. GrantInv /\ AskInv /\ ReadInv /\ WantInv /\ ChangeInv /\ ShownInv
  BY <1>1 DEF GrantInv, AskInv, ReadInv, WantInv, ChangeInv, ShownInv
<1> QED BY <1>2, <1>3, <1>4 DEF PInv

\* A C program stores settings that a program may store.
LEMMA BuildStep ==
  ASSUME PInv, Build
  PROVE  PInv'
<1>1. /\ stage = "build" /\ stage' = "build" /\ SpecNext
      /\ UNCHANGED <<requested, fd, line, sent, asked, wanted>>
  BY DEF Build, Configure, dbusVars
<1>2. RInv'
  BY <1>1, SameRequest DEF PInv, RInv
<1>3. CInv'
  <2>1. ASSUME NEW offs \in SeqOf(Offsets, MaxArg), NEW s \in Settings, Add(offs, s)
        PROVE  CInv'
    <3>1. offs \in Seq(Offsets) /\ outs' = outs /\ s \in AllSettings
      BY <2>1, SeqOfIsSeq, UapiAssumption DEF Add, UapiAssumption
    <3>2. order \in Seq(Offsets) /\ conf \in [ToSet(order) -> AllSettings]
      BY DEF PInv, CInv
    <3>3. order' \in Seq(Offsets) /\ conf' \in [ToSet(order') -> AllSettings]
      BY <2>1, <3>1, <3>2, AddKeeps
    <3> QED BY <3>1, <3>3 DEF PInv, CInv
  <2>2. ASSUME NEW vals \in SeqOf(Values, MaxArg), SetValues(vals)
        PROVE  CInv'
    <3>1. vals \in Seq(Values) /\ Values \subseteq {0, 1}
      BY SeqOfIsSeq, UapiAssumption DEF UapiAssumption
    <3>2. vals \in Seq({0, 1})
      BY <3>1, SeqMono
    <3> QED BY <2>2, <3>2 DEF SetValues, PInv, CInv
  <2>3. CASE Clear
    BY <2>3, EmptyConfig DEF Clear, CInv
  <2> QED BY <1>1, <2>1, <2>2, <2>3 DEF SpecNext
<1>4. PathInv'
  BY <1>1 DEF PInv, PathInv
<1>5. GrantInv' /\ AskInv' /\ ReadInv' /\ WantInv' /\ ChangeInv' /\ ShownInv'
  BY <1>1 DEF PInv, GrantInv, PathInv, AskInv, ReadInv, WantInv, ChangeInv, ShownInv
<1> QED BY <1>2, <1>3, <1>4, <1>5 DEF PInv

\* The lines of a request or of a reconfiguration that is granted are as configured and
\* drive the values that are wanted.
LEMMA GrantStep ==
  ASSUME PInv, RequestLines \/ ReconfigureLines,
         stage \in {"build", "py", "config"}, stage' = "granted",
         UNCHANGED <<wanted, sent, asked, group>>
  PROVE  PInv'
<1>1. /\ requested' = order /\ UNCHANGED config
      /\ \A o \in ToSet(order) :
           /\ ValidFlags(MakeKernelFlags(conf[o]))
           /\ Directed(MakeKernelFlags(conf[o])) => Settled(o)'
           /\ conf[o].direction = "output" =>
                line'[o].value = IF IndexIn(order, o) <= Len(outs)
                                 THEN outs[IndexIn(order, o)] ELSE conf[o].value
  BY Granted DEF PInv
<1>2. order' = order /\ conf' = conf /\ outs' = outs
  BY <1>1 DEF config
<1>3. RInv' /\ CInv'
  BY <1>2, GrantedInv, ReconfigureInv DEF PInv, CInv
<1>4. PathInv'
  BY DEF PInv, PathInv, Stages
<1>5. GrantInv'
  BY <1>1, <1>2 DEF GrantInv, PInv, CInv
<1>6. AskInv'
  <2>1. stage # "config" => asked' = NotAsked \/ sent' = NoVariant
    BY DEF PInv, PathInv
  <2>2. asked' # NotAsked => sent' # NoVariant
    BY DEF PInv, PathInv
  <2> QED BY <2>1, <2>2 DEF PInv, AskInv
<1>7. ReadInv'
  <2>1. stage # "config" => sent' = NoVariant
    BY DEF PInv, PathInv
  <2>2. CASE stage = "config"
    <3>1. \A o : GroupsOf(o)' = GroupsOf(o)
      BY DEF GroupsOf
    <3> QED BY <1>2, <2>2, <3>1 DEF PInv, ReadInv
  <2> QED BY <2>1, <2>2 DEF ReadInv
<1>8. WantInv'
  <2>1. stage = "build" => DOMAIN wanted = {}
    BY DEF PInv, PathInv
  <2>2. \A o \in DOMAIN wanted \cap ToSet(order) :
          IndexIn(order, o) <= Len(outs) /\ outs[IndexIn(order, o)] = wanted[o]
    BY <2>1 DEF PInv, WantInv
  <2>3. \A o \in DOMAIN wanted \cap ToSet(order) :
          conf[o].direction = "output" => line'[o].value = wanted[o]
    BY <1>1, <2>2
  <2> QED BY <1>1, <1>2, <2>3 DEF WantInv
<1>9. ChangeInv' /\ ShownInv'
  BY DEF ChangeInv, ShownInv
<1> QED BY <1>3, <1>4, <1>5, <1>6, <1>7, <1>8, <1>9 DEF PInv

\* A request of a C or Python program.
LEMMA ProgramRequests ==
  ASSUME PInv, CRequest \/ PyRequests
  PROVE  PInv'
<1>1. /\ stage \in {"build", "py"} /\ UNCHANGED <<wanted, sent, asked, group>>
      /\ \/ RequestLines /\ stage' = "granted"
         \/ (RequestTooBig \/ RequestRejected) /\ stage' = "refused"
  BY DEF CRequest, PyRequests, Request, dbusVars, reading
<1>2. CASE RequestLines /\ stage' = "granted"
  BY <1>1, <1>2, GrantStep
<1>3. CASE (RequestTooBig \/ RequestRejected) /\ stage' = "refused"
  <2>1. UNCHANGED vars
    BY <1>3 DEF RequestTooBig, RequestRejected, Fail
  <2> QED BY <1>1, <1>3, <2>1, Ended
<1> QED BY <1>1, <1>2, <1>3

LEMMA DbusCallStep ==
  ASSUME PInv, DbusCall
  PROVE  PInv'
<1>1. /\ stage = "config" /\ UNCHANGED <<wanted, sent, asked, group>>
      /\ \/ (RequestLines \/ ReconfigureLines) /\ stage' = "granted"
         \/ /\ RequestTooBig \/ RequestRejected \/ ReconfigureTooBig \/ ReconfigureRejected
            /\ stage' = "refused"
  BY DEF DbusCall, dbusVars, reading
<1>2. CASE (RequestLines \/ ReconfigureLines) /\ stage' = "granted"
  BY <1>1, <1>2, GrantStep
<1>3. CASE /\ RequestTooBig \/ RequestRejected \/ ReconfigureTooBig \/ ReconfigureRejected
           /\ stage' = "refused"
  <2>1. UNCHANGED vars
    BY <1>3 DEF RequestTooBig, RequestRejected, ReconfigureTooBig, ReconfigureRejected, Fail
  <2> QED BY <1>1, <1>3, <2>1, Ended
<1> QED BY <1>1, <1>2, <1>3

\* What gpiocli sends, it sends as a variant that its options say.
LEMMA CallStep ==
  ASSUME PInv, NEW offs \in Seq(Offsets), NEW o, NEW d \in Nat, NEW vals \in Seq(Values),
         NEW fit, Call(offs, o, d, vals, fit), UNCHANGED vars
  PROVE  PInv'
<1>1. CASE ~(ValidOptions(Spelt(o), d) /\ ValuesFit(vals, offs) /\ fit)
  <2>1. stage' = "refused" /\ UNCHANGED <<sent, asked>>
    BY <1>1 DEF Call
  <2> QED BY <2>1, Ended
<1>2. CASE ValidOptions(Spelt(o), d) /\ ValuesFit(vals, offs) /\ fit
  <2> DEFINE v == MakeLineConfig(offs, Spelt(o), d, vals)
             dict == SettingsDict(Spelt(o), d)
             a == [opts |-> o, debounce |-> d]
  <2>1. stage' = "sent" /\ sent' = v /\ asked' = a /\ wanted' = ByLine(offs, vals)
    BY <1>2 DEF Call
  <2>2. RInv' /\ CInv'
    BY SameLines DEF PInv
  <2>3. WellTyped(dict)
    BY DEF WellTyped, SettingsDict
  <2>4. /\ DOMAIN v = {"configs", "values"} /\ v.values = vals
        /\ Len(v.configs) = 1 /\ DOMAIN v.configs = 1..1
        /\ v.configs[1].offsets = offs /\ v.configs[1].settings = dict
    <3> HIDE DEF dict
    <3> QED BY DEF MakeLineConfig, dict
  <2> HIDE DEF v, dict
  <2>5. IsVariant(v)
    BY <2>3, <2>4 DEF IsVariant
  <2>6. v # NoVariant /\ a # NotAsked
    <3>1. DOMAIN v = {"configs", "values"} /\ "opts" \in DOMAIN a
      BY <2>4
    <3>2. DOMAIN NoVariant = {"none"} /\ DOMAIN NotAsked = {"none"}
      BY DEF NoVariant, NotAsked
    <3>3. v # NoVariant
      <4>1. "configs" \in DOMAIN v /\ "configs" \notin DOMAIN NoVariant
        BY <3>1, <3>2
      <4> QED BY <4>1, Zenon
    <3>4. a # NotAsked
      <4>1. "opts" \in DOMAIN a /\ "opts" \notin DOMAIN NotAsked
        BY <3>1, <3>2
      <4> HIDE DEF a
      <4> QED BY <4>1, Zenon
    <3> QED BY <3>3, <3>4
  <2>7. PathInv'
    BY <2>1, <2>5, <2>6 DEF PathInv, Stages
  <2>8. GrantInv'
    BY <2>1 DEF PInv, GrantInv, vars
  <2>9. AskInv'
    <3>1. ValidOptions(Spelt(asked'.opts), asked'.debounce) /\ asked'.debounce = d
          /\ asked'.opts = o
      BY <1>2, <2>1
    <3>2. Len(sent'.configs) = 1 /\ sent'.configs[1].settings = dict
          /\ wanted' = ByLine(sent'.configs[1].offsets, sent'.values)
      BY <2>1, <2>4
    <3> QED BY <2>1, <3>1, <3>2 DEF AskInv, dict
  <2>10. ReadInv' /\ WantInv' /\ ChangeInv' /\ ShownInv'
    BY <2>1 DEF ReadInv, WantInv, ChangeInv, ShownInv
  <2> QED BY <2>2, <2>7, <2>8, <2>9, <2>10 DEF PInv
<1> QED BY <1>1, <1>2

LEMMA CliRequestStep ==
  ASSUME PInv, NEW offs \in LineLists, NEW o, NEW d \in Periods,
         NEW vals \in SeqOf(Values, MaxArg), CliRequest(offs, o, d, vals)
  PROVE  PInv'
<1>1. offs \in Seq(Offsets) /\ d \in Nat
  BY DbusAssumption DEF DbusAssumption
<1>2. vals \in Seq(Values)
  BY SeqOfIsSeq
<1>3. Call(offs, o, d, vals, ValuesOfOutputs(vals, o)) /\ UNCHANGED vars
  BY DEF CliRequest
<1> QED BY <1>1, <1>2, <1>3, CallStep

LEMMA CliReconfigureStep ==
  ASSUME PInv, NEW o, NEW d \in Periods,
         NEW vals \in SeqOf(Values, MaxArg), CliReconfigure(o, d, vals)
  PROVE  PInv'
<1>1. requested \in Seq(Offsets) /\ d \in Nat
  BY DbusAssumption DEF DbusAssumption, PInv, GrantInv
<1>2. vals \in Seq(Values)
  BY SeqOfIsSeq
<1>3. Call(requested, o, d, vals, TRUE) /\ UNCHANGED vars
  BY DEF CliReconfigure
<1> DEFINE r == requested
<1> HIDE DEF r
<1>4. ASSUME NEW offs \in Seq(Offsets), offs = requested PROVE PInv'
  <2>1. Call(offs, o, d, vals, TRUE)
    BY <1>3, <1>4
  <2> QED BY <1>1, <1>2, <1>3, <2>1, CallStep
<1> QED BY <1>1, <1>4

LEMMA SendStep ==
  ASSUME PInv, NEW v \in Variants, Send(v)
  PROVE  PInv'
<1>1. stage = "build" /\ stage' = "sent" /\ sent' = v /\ UNCHANGED <<vars, wanted, asked>>
  BY DEF Send
<1>2. IsVariant(v) /\ asked = NotAsked
  BY <1>1, DbusAssumption DEF DbusAssumption, PInv, PathInv
<1>3. v # NoVariant
  BY <1>2 DEF IsVariant, NoVariant
<1>4. RInv' /\ CInv'
  BY <1>1, SameLines DEF PInv
<1>5. PathInv'
  BY <1>1, <1>2, <1>3 DEF PathInv, Stages
<1>6. GrantInv' /\ AskInv' /\ ReadInv' /\ WantInv' /\ ChangeInv' /\ ShownInv'
  BY <1>1, <1>2 DEF PInv, GrantInv, AskInv, ReadInv, WantInv, ChangeInv, ShownInv, vars
<1> QED BY <1>4, <1>5, <1>6 DEF PInv

LEMMA ReceiveStep ==
  ASSUME PInv, Receive
  PROVE  PInv'
<1>1. /\ stage = "sent" /\ stage' = "reading" /\ Clear /\ group' = 0 /\ named' = <<>>
      /\ UNCHANGED <<requested, fd, line, wanted, sent, asked>>
  BY DEF Receive
<1>2. RInv'
  BY <1>1, SameRequest DEF PInv, RInv
<1>3. CInv' /\ order' = <<>> /\ ToSet(order') = {}
  BY <1>1, EmptyConfig DEF Clear, CInv
<1>4. PathInv'
  BY <1>1 DEF PInv, PathInv, Stages
<1>5. GrantInv' /\ AskInv' /\ WantInv' /\ ChangeInv' /\ ShownInv'
  BY <1>1 DEF PInv, GrantInv, AskInv, WantInv, ChangeInv, ShownInv
<1>6. ReadInv'
  <2>1. sent # NoVariant => Len(sent.configs) \in Nat
    BY DEF PInv, PathInv, IsVariant
  <2>2. <<>> \in Seq(Offsets)
    OBVIOUS
  <2> QED BY <1>1, <1>3, <2>1, <2>2 DEF ReadInv
<1> QED BY <1>2, <1>3, <1>4, <1>5, <1>6 DEF PInv

LEMMA UnreadableStep ==
  ASSUME PInv, Unreadable
  PROVE  PInv'
<1>1. stage' = "refused" /\ UNCHANGED <<vars, sent, asked>>
  BY DEF Unreadable, dbusVars
<1> QED BY <1>1, Ended

\* A group of lines gets its own settings, whatever the earlier groups had.
LEMMA ReadGroupStep ==
  ASSUME PInv, ReadGroup
  PROVE  PInv'
<1> DEFINE g == sent.configs[group + 1]
           offs == g.offsets
           s == SettingsFrom(Defaults, g.settings)
<1>1. /\ stage = "reading" /\ stage' = "reading" /\ group < Len(sent.configs)
      /\ last' = s /\ Add(offs, s)
      /\ group' = group + 1 /\ named' = named \o offs
      /\ UNCHANGED <<requested, fd, line, wanted, sent, asked>>
  BY DEF ReadGroup, NextGroup, Fresh
<1>2. /\ IsVariant(sent) /\ sent # NoVariant /\ group \in 0..Len(sent.configs)
      /\ named \in Seq(Offsets) /\ (Distinct(named) => order = named)
      /\ group = 0 => named = <<>>
      /\ \A o \in ToSet(order) :
           /\ GroupsOf(o) # {}
           /\ conf[o] = SettingsFrom(Defaults, sent.configs[Max(GroupsOf(o))].settings)
  BY <1>1 DEF PInv, PathInv, ReadInv
<1>3. Len(sent.configs) \in Nat /\ group \in Nat /\ group + 1 \in DOMAIN sent.configs
  BY <1>1, <1>2 DEF IsVariant
<1>4. offs \in Seq(Offsets) /\ s \in AllSettings
  <2>1. offs \in Seq(Offsets) /\ WellTyped(g.settings)
    BY <1>2, <1>3 DEF IsVariant
  <2> HIDE DEF g
  <2> QED BY <2>1, SettingsFromTyped
<1> HIDE DEF s
<1>5. /\ order' \in Seq(Offsets) /\ ToSet(order') = ToSet(order) \cup ToSet(offs)
      /\ conf' \in [ToSet(order') -> AllSettings] /\ outs' = outs
      /\ order' = FirstOccurrences(order \o offs)
      /\ \A o \in ToSet(order') : conf'[o] = IF o \in ToSet(offs) THEN s ELSE conf[o]
  <2>1. order \in Seq(Offsets) /\ conf \in [ToSet(order) -> AllSettings]
    BY DEF PInv, CInv
  <2>2. /\ order' \in Seq(Offsets) /\ ToSet(order') = ToSet(order) \cup ToSet(offs)
        /\ conf' \in [ToSet(order') -> AllSettings]
    BY <1>1, <1>4, <2>1, AddKeeps
  <2> QED BY <1>1, <2>2 DEF Add
<1>6. RInv' /\ CInv'
  <2>1. RInv'
    BY <1>1, SameRequest DEF PInv, RInv
  <2> QED BY <1>5, <2>1 DEF PInv, CInv
<1>7. PathInv' /\ GrantInv' /\ AskInv' /\ WantInv' /\ ChangeInv' /\ ShownInv'
  BY <1>1 DEF PInv, PathInv, GrantInv, AskInv, WantInv, ChangeInv, ShownInv
<1>8. Distinct(named') => order' = named'
  <2> SUFFICES ASSUME IsInjective(named \o offs) PROVE order' = named \o offs
    BY <1>1 DEF Distinct
  <2>1. IsInjective(named)
    BY <1>2, <1>4, DistinctPrefix
  <2>2. order = named
    BY <1>2, <2>1 DEF Distinct
  <2> DEFINE t == named \o offs
  <2>3. t \in Seq(Offsets) /\ IsInjective(t) /\ order' = FirstOccurrences(t)
    BY <1>2, <1>4, <1>5, <2>2
  <2> HIDE DEF t
  <2>4. order' = t
    BY <2>3, DistinctFirst
  <2> QED BY <2>4 DEF t
<1>9. \A o : GroupsOf(o)' = GroupsOf(o) \cup (IF o \in ToSet(offs) THEN {group + 1} ELSE {})
  <2> TAKE o
  <2>1. GroupsOf(o)' = {k \in 1..(group + 1) : o \in ToSet(sent.configs[k].offsets)}
    BY <1>1 DEF GroupsOf
  <2>2. \A k : k \in 1..(group + 1) <=> k \in 1..group \/ k = group + 1
    BY <1>3
  <2> QED BY <2>1, <2>2 DEF GroupsOf
<1>10. ASSUME NEW o \in ToSet(order')
       PROVE  /\ GroupsOf(o)' # {}
              /\ conf'[o] = SettingsFrom(Defaults, sent.configs[Max(GroupsOf(o)')].settings)
  <2>1. CASE o \in ToSet(offs)
    <3> DEFINE G == GroupsOf(o)'
    <3>1. G \in SUBSET (0..(group + 1)) /\ group + 1 \in G /\ group + 1 \in Nat
      <4>1. GroupsOf(o) \subseteq 1..group
        BY DEF GroupsOf
      <4> QED BY <1>3, <1>9, <2>1, <4>1
    <3> HIDE DEF G
    <3>2. Max(G) \in G /\ \A x \in G : x <= Max(G)
      <4> DEFINE n == group + 1
      <4> HIDE DEF n
      <4>1. G \in SUBSET (0..n) /\ n \in Nat /\ G # {}
        BY <3>1 DEF n
      <4> QED BY <4>1, MaxIs
    <3>3. Max(G) = group + 1
      <4>1. Max(G) \in 0..(group + 1) /\ group + 1 <= Max(G)
        BY <3>1, <3>2
      <4> QED BY <1>3, <4>1
    <3>4. conf'[o] = s
      BY <1>5, <2>1
    <3> QED BY <3>1, <3>3, <3>4 DEF s, G
  <2>2. CASE o \notin ToSet(offs)
    <3>1. GroupsOf(o)' = GroupsOf(o) /\ o \in ToSet(order) /\ conf'[o] = conf[o]
      BY <1>5, <1>9, <2>2
    <3> QED BY <1>2, <3>1
  <2> QED BY <2>1, <2>2
<1>11. ReadInv'
  <2>1. named' \in Seq(Offsets)
    BY <1>1, <1>2, <1>4
  <2>2. group' \in 0..Len(sent.configs) /\ group' # 0
    BY <1>1, <1>3
  <2>3. group' = 1 => named' = sent.configs[1].offsets
    <3> SUFFICES ASSUME group' = 1 PROVE named' = sent.configs[1].offsets
      OBVIOUS
    <3>1. group = 0
      BY <1>1, <1>3
    <3>2. named' = <<>> \o offs /\ g = sent.configs[1]
      BY <1>1, <1>2, <3>1
    <3> HIDE DEF g
    <3>3. <<>> \o offs = offs
      BY <1>4
    <3> QED BY <3>2, <3>3
  <2>4. sent' = sent /\ stage' = "reading"
    BY <1>1
  <2>5. \A o \in ToSet(order') :
           /\ GroupsOf(o)' # {}
           /\ conf'[o] = SettingsFrom(Defaults, sent.configs[Max(GroupsOf(o)')].settings)
    BY <1>10
  <2> QED BY <1>8, <2>1, <2>2, <2>3, <2>4, <2>5 DEF ReadInv
<1> QED BY <1>6, <1>7, <1>11 DEF PInv

\* Values go to the places of the lines that they were given for, the first lines if nothing
\* was named twice.
LEMMA ReadValuesStep ==
  ASSUME PInv, ReadValues
  PROVE  PInv'
<1> DEFINE vals == sent.values
<1>1. /\ stage = "reading" /\ stage' = "config" /\ group = Len(sent.configs)
      /\ SetValues(vals)
      /\ wanted' = IF asked = NotAsked THEN ByLine(named, vals) ELSE wanted
      /\ UNCHANGED <<requested, fd, line, sent, asked, group>>
  BY DEF ReadValues, dbusVars, reading
<1>2. /\ IsVariant(sent) /\ sent # NoVariant
      /\ named \in Seq(Offsets) /\ (Distinct(named) => order = named)
      /\ group = 1 => named = sent.configs[1].offsets
      /\ \A o \in ToSet(order) :
           /\ GroupsOf(o) # {}
           /\ conf[o] = SettingsFrom(Defaults, sent.configs[Max(GroupsOf(o))].settings)
  BY <1>1 DEF PInv, PathInv, ReadInv
<1>3. vals \in Seq(Values) /\ vals \in Seq({0, 1})
  <2>1. vals \in Seq(Values) /\ Values \subseteq {0, 1}
    BY <1>2, UapiAssumption DEF IsVariant, UapiAssumption
  <2> HIDE DEF vals
  <2> QED BY <2>1, SeqMono
<1> HIDE DEF vals
<1>4. order' = order /\ conf' = conf /\ outs' = vals
  BY <1>1 DEF SetValues
<1>5. RInv' /\ CInv'
  <2>1. RInv'
    BY <1>1, SameRequest DEF PInv, RInv
  <2> QED BY <1>3, <1>4, <2>1 DEF PInv, CInv
<1>6. PathInv' /\ GrantInv' /\ AskInv' /\ ChangeInv' /\ ShownInv'
  BY <1>1 DEF PInv, PathInv, Stages, GrantInv, AskInv, ChangeInv, ShownInv
<1>7. ReadInv'
  <2>1. \A o : GroupsOf(o)' = GroupsOf(o)
    BY <1>1 DEF GroupsOf
  <2> QED BY <1>1, <1>2, <1>4, <2>1 DEF ReadInv
<1>8. wanted' = ByLine(named, vals)
  <2>1. CASE asked = NotAsked
    BY <1>1, <2>1
  <2>2. CASE asked # NotAsked
    <3>1. Len(sent.configs) = 1 /\ wanted = ByLine(sent.configs[1].offsets, sent.values)
      BY <1>1, <2>2 DEF PInv, AskInv
    <3> QED BY <1>1, <1>2, <2>2, <3>1 DEF vals
  <2> QED BY <2>1, <2>2
<1>9. ASSUME NEW o \in DOMAIN wanted'
      PROVE  IndexIn(order, o) <= Len(vals) /\ vals[IndexIn(order, o)] = wanted'[o]
  <2>1. Distinct(named)
    BY <1>8, <1>9 DEF ByLine
  <2>2. DOMAIN wanted' = {named[k] : k \in DOMAIN vals \cap DOMAIN named}
        /\ \A x \in DOMAIN wanted' :
             wanted'[x] = vals[CHOOSE k \in DOMAIN named : named[k] = x]
    BY <1>8, <2>1 DEF ByLine
  <2>3. PICK k \in DOMAIN vals \cap DOMAIN named : named[k] = o
    BY <1>9, <2>2
  <2>4. IndexIn(named, named[k]) = k /\ order = named
    BY <1>2, <2>1, IndexOfDistinct DEF Distinct
  <2>5. wanted'[o] = vals[IndexIn(named, o)]
    BY <1>9, <2>2 DEF IndexIn
  <2>6. k \in 1..Len(vals)
    BY <1>3
  <2> QED BY <2>3, <2>4, <2>5, <2>6
<1>10. WantInv'
  BY <1>1, <1>4, <1>9 DEF WantInv
<1> QED BY <1>5, <1>6, <1>7, <1>10 DEF PInv

LEMMA ShowStep ==
  ASSUME PInv, Show
  PROVE  PInv'
<1>1. /\ stage = "granted" /\ stage' = "shown" /\ sent # NoVariant /\ asked # NotAsked
      /\ shown' = [o \in ToSet(requested) |-> Displayed(GetLineInfo(o))]
      /\ UNCHANGED <<vars, sent, asked, wanted, group>>
  BY DEF Show, Displayed, reading
<1>2. RInv' /\ CInv'
  BY <1>1, SameLines DEF PInv
<1>3. order' = order /\ conf' = conf /\ line' = line /\ requested' = requested
  BY <1>1 DEF vars, config
<1>4. PathInv' /\ AskInv' /\ WantInv' /\ ChangeInv'
  BY <1>1 DEF PInv, PathInv, Stages, AskInv, WantInv, ChangeInv
<1>5. GrantInv'
  BY <1>1, <1>3 DEF PInv, GrantInv, Settled
<1>6. ReadInv'
  <2>1. \A o : GroupsOf(o)' = GroupsOf(o)
    BY <1>1 DEF GroupsOf
  <2> QED BY <1>1, <1>3, <2>1 DEF PInv, ReadInv
<1>7. ShownInv'
  <2>1. \A o : GetLineInfo(o)' = GetLineInfo(o)
    BY <1>3 DEF GetLineInfo, KernelInfo
  <2>2. \A o : Displayed(GetLineInfo(o))' = Displayed(GetLineInfo(o))
    BY <2>1, Zenon
  <2> QED BY <1>1, <1>3, <2>2 DEF ShownInv
<1> QED BY <1>2, <1>4, <1>5, <1>6, <1>7 DEF PInv

LEMMA DbusStep ==
  ASSUME PInv, DbusNext
  PROVE  PInv'
<1>1. ASSUME NEW offs \in LineLists, NEW o \in OptionSets, NEW d \in Periods,
             NEW vals \in SeqOf(Values, MaxArg), CliRequest(offs, o, d, vals)
      PROVE  PInv'
  BY <1>1, CliRequestStep
<1>2. ASSUME NEW o \in OptionSets, NEW d \in Periods, NEW vals \in SeqOf(Values, MaxArg),
             CliReconfigure(o, d, vals)
      PROVE  PInv'
  BY <1>2, CliReconfigureStep
<1>3. ASSUME NEW v \in Variants, Send(v) PROVE PInv'
  BY <1>3, SendStep
<1> QED BY <1>1, <1>2, <1>3, ReceiveStep, ReadGroupStep, ReadValuesStep, UnreadableStep,
           DbusCallStep, ShowStep DEF DbusNext

-----------------------------------------------------------------------------
(* A Python program *)

\* An id that is known is a line of the chip.
LEMMA LineOfId ==
  ASSUME NEW id
  PROVE  /\ LineOffsetFromId(id) \in Offsets \cup {Unknown}
         /\ LineOffsetFromId(id) # Unknown => LineOffsetFromId(id) \in Offsets
<1> DEFINE bearing == {o \in Offsets : NameAt[o] = id}
<1>1. OffsetFromName(id) = IF bearing = {} THEN Unknown ELSE Min(bearing)
  BY DEF OffsetFromName
<1>2. bearing \in SUBSET Nat /\ bearing \subseteq Offsets
  BY PyAssumption DEF PyAssumption
<1>3. bearing # {} => Min(bearing) \in bearing
  <2> HIDE DEF bearing
  <2> QED BY <1>2, LeastIs
<1> HIDE DEF bearing
<1>4. OffsetFromName(id) \in Offsets \cup {Unknown}
  BY <1>1, <1>2, <1>3
<1> QED BY <1>4 DEF LineOffsetFromId

\* A dictionary of values has 0 or 1 for each of its lines, the last that is given.
LEMMA DictIs ==
  ASSUME NEW vals \in PyValues, NEW offs, DOMAIN offs = DOMAIN vals
  PROVE  /\ DOMAIN ByOffset(offs, vals) = Range(offs)
         /\ \A o \in Range(offs) : ByOffset(offs, vals)[o] \in {0, 1}
<1>1. vals \in Seq([id : Ids, value : Values]) /\ Values \subseteq {0, 1}
  BY PyAssumption, UapiAssumption DEF PyAssumption, UapiAssumption
<1>2. Len(vals) \in Nat /\ DOMAIN offs = 1..Len(vals)
  BY <1>1
<1>3. \A k \in DOMAIN vals : vals[k].value \in {0, 1}
  <2> TAKE k \in DOMAIN vals
  <2>1. vals[k] \in [id : Ids, value : Values]
    <3> DEFINE R == [id : Ids, value : Values]
    <3>1. vals \in Seq(R)
      BY <1>1
    <3> HIDE DEF R
    <3>2. vals[k] \in R
      BY <3>1
    <3> QED BY <3>2 DEF R
  <2>2. vals[k].value \in Values
    BY <2>1
  <2> QED BY <1>1, <2>2
<1>4. \A o \in Range(offs) : LastFor(offs, o) \in DOMAIN vals
  <2> DEFINE n == Len(vals)
  <2> HIDE DEF n
  <2>1. n \in Nat /\ DOMAIN offs = 1..n
    BY <1>2 DEF n
  <2> QED BY <2>1, LastPlaceIs
<1> QED BY <1>3, <1>4 DEF ByOffset

\* Settings that are given, and None.
LEMMA ToExtTyped ==
  ASSUME NEW cfg \in PyConfigs, NEW k \in DOMAIN cfg
  PROVE  ToExt(cfg[k].settings) \in AllSettings
<1>1. cfg \in Seq([id : Ids, settings : AllSettings \cup {NoSettings}])
  BY PyAssumption DEF PyAssumption
<1>2. cfg[k].settings \in AllSettings \cup {NoSettings}
  <2> DEFINE A == AllSettings \cup {NoSettings}
  <2> HIDE DEF A
  <2>1. cfg[k] \in [id : Ids, settings : A]
    <3> DEFINE R == [id : Ids, settings : A]
    <3>1. cfg \in Seq(R)
      BY <1>1 DEF A
    <3> HIDE DEF R
    <3>2. cfg[k] \in R
      BY <3>1
    <3> QED BY <3>2 DEF R
  <2>2. cfg[k].settings \in A
    BY <2>1
  <2> QED BY <2>2 DEF A
<1>3. Defaults \in AllSettings
  BY DEF Defaults, AllSettings
<1> QED BY <1>2, <1>3 DEF ToExt

LEMMA PyStartStep ==
  ASSUME PInv, NEW cfg \in PyConfigs, NEW vals \in PyValues, PyStart(cfg, vals)
  PROVE  PInv'
<1> DEFINE offs == OffsetsOf(cfg)
<1>1. /\ stage = "build" /\ stage' = "py" /\ wanted' = MappedValues(vals)
      /\ UNCHANGED <<sent, asked, requested, fd, line>>
      /\ Unknown \notin Range(offs) /\ Unknown \notin Range(OffsetsOf(vals))
      /\ order' = offs
      /\ conf' = [o \in Range(offs) |-> ToExt(cfg[IndexIn(offs, o)].settings)]
      /\ outs' = GlobalValues(offs, vals)
  BY DEF PyStart, PyConfigure, Sane, dbusVars
<1>2. cfg \in Seq([id : Ids, settings : AllSettings \cup {NoSettings}])
  BY PyAssumption DEF PyAssumption
<1>3. Len(cfg) \in Nat /\ DOMAIN cfg = 1..Len(cfg)
      /\ DOMAIN offs = DOMAIN cfg /\ \A k \in DOMAIN offs : offs[k] \in Offsets
  <2>1. DOMAIN offs = DOMAIN cfg
    BY DEF OffsetsOf
  <2>2. \A k \in DOMAIN offs : offs[k] = LineOffsetFromId(cfg[k].id) /\ offs[k] # Unknown
    BY <1>1 DEF OffsetsOf, Range
  <2> HIDE DEF offs
  <2>3. \A k \in DOMAIN offs : offs[k] \in Offsets
    BY <2>2, LineOfId
  <2> QED BY <1>2, <2>1, <2>3
<1> HIDE DEF offs
<1>4. offs \in Seq(Offsets) /\ Range(offs) = ToSet(offs)
  <2>1. offs \in [1..Len(cfg) -> Offsets]
    <3>1. offs = [k \in DOMAIN offs |-> offs[k]]
      BY DEF offs, OffsetsOf
    <3> QED BY <1>3, <3>1
  <2> QED BY <1>3, <2>1 DEF Range, ToSet
<1>5. conf' \in [ToSet(offs) -> AllSettings]
  <2>1. \A o \in Range(offs) : IndexIn(offs, o) \in DOMAIN cfg
    BY <1>3, <1>4, IndexIsOf
  <2>2. \A o \in Range(offs) : ToExt(cfg[IndexIn(offs, o)].settings) \in AllSettings
    BY <2>1, ToExtTyped
  <2> QED BY <1>1, <1>4, <2>2
<1> DEFINE dict == MappedValues(vals)
<1>6. \A o \in DOMAIN dict : dict[o] \in {0, 1}
  <2>1. DOMAIN OffsetsOf(vals) = DOMAIN vals
    BY DEF OffsetsOf
  <2>2. DOMAIN ByOffset(OffsetsOf(vals), vals) = Range(OffsetsOf(vals))
        /\ \A o \in Range(OffsetsOf(vals)) : ByOffset(OffsetsOf(vals), vals)[o] \in {0, 1}
    BY <2>1, DictIs
  <2> QED BY <2>2 DEF MappedValues
<1>7. vals = <<>> => DOMAIN dict = {}
  BY DEF MappedValues, ByOffset, OffsetsOf, Range
<1> HIDE DEF dict
<1>8. outs' = IF vals = <<>> THEN <<>>
              ELSE [k \in 1..Len(cfg) |-> IF offs[k] \in DOMAIN dict THEN dict[offs[k]] ELSE 0]
  BY <1>1, <1>3 DEF GlobalValues, dict
<1>9. CInv'
  <2>1. outs' \in Seq({0, 1})
    <3>1. CASE vals = <<>>
      BY <1>8, <3>1
    <3>2. CASE vals # <<>>
      <4>1. outs' \in [1..Len(cfg) -> {0, 1}]
        BY <1>6, <1>8, <3>2
      <4> QED BY <1>3, <4>1
    <3> QED BY <3>1, <3>2
  <2> QED BY <1>1, <1>4, <1>5, <2>1 DEF CInv
<1>10. RInv'
  BY <1>1, SameRequest DEF PInv, RInv
<1>11. sent = NoVariant /\ asked = NotAsked
  BY <1>1 DEF PInv, PathInv
<1>12. PathInv'
  BY <1>1, <1>11 DEF PathInv, Stages
<1>13. GrantInv' /\ AskInv' /\ ReadInv' /\ ChangeInv' /\ ShownInv'
  BY <1>1, <1>11 DEF PInv, GrantInv, AskInv, ReadInv, ChangeInv, ShownInv
<1>14. ASSUME NEW o \in DOMAIN wanted' \cap ToSet(order')
       PROVE  IndexIn(order', o) <= Len(outs') /\ outs'[IndexIn(order', o)] = wanted'[o]
  <2>1. o \in DOMAIN dict /\ o \in ToSet(offs) /\ wanted' = dict /\ order' = offs
    BY <1>1, <1>14 DEF dict
  <2>2. IndexIn(offs, o) \in 1..Len(cfg) /\ offs[IndexIn(offs, o)] = o
    BY <1>3, <2>1, IndexIsOf
  <2>3. outs' = [k \in 1..Len(cfg) |-> IF offs[k] \in DOMAIN dict THEN dict[offs[k]] ELSE 0]
    BY <1>7, <1>8, <2>1
  <2>4. Len(outs') = Len(cfg)
    <3>1. outs' \in Seq({0, 1})
      BY <1>9 DEF CInv
    <3> QED BY <1>3, <2>3, <3>1
  <2> DEFINE i == IndexIn(offs, o)
  <2> HIDE DEF i
  <2>5. outs'[i] = dict[o] /\ i <= Len(outs')
    BY <1>3, <2>1, <2>2, <2>3, <2>4 DEF i
  <2> QED BY <2>1, <2>5 DEF i
<1>15. WantInv'
  BY <1>1, <1>14 DEF WantInv
<1> QED BY <1>9, <1>10, <1>12, <1>13, <1>15 DEF PInv

LEMMA PyStartFailsStep ==
  ASSUME PInv, NEW cfg, NEW vals, PyStartFails(cfg, vals)
  PROVE  PInv'
<1>1. stage' = "refused" /\ UNCHANGED <<vars, sent, asked>>
  BY DEF PyStartFails, dbusVars
<1> QED BY <1>1, Ended

\* The dictionary's values reach the lines that it names, the last of each.
LEMMA PySetsStep ==
  ASSUME PInv, NEW vals \in PyValues, PySets(vals)
  PROVE  PInv'
<1>1. stage = "granted" /\ stage' = "granted" /\ UNCHANGED <<sent, asked, group, named>>
  BY DEF PySets, dbusVars, reading
<1>2. CASE PySetRefused(vals) /\ UNCHANGED wanted
  <2>1. UNCHANGED vars
    BY <1>2 DEF PySetRefused, ValuesBadOffsets, SetValuesNotOutput, Fail
  <2>2. RInv' /\ CInv'
    BY <2>1, SameLines DEF PInv
  <2>3. order' = order /\ conf' = conf /\ line' = line /\ requested' = requested
    BY <2>1 DEF vars, config
  <2>4. PathInv' /\ AskInv'
    BY <1>1, <1>2 DEF PInv, PathInv, AskInv
  <2>5. GrantInv'
    BY <1>1, <2>3 DEF PInv, GrantInv, Settled
  <2>6. ReadInv'
    <3>1. \A o : GroupsOf(o)' = GroupsOf(o)
      BY <1>1 DEF GroupsOf
    <3> QED BY <1>1, <2>3, <3>1 DEF PInv, ReadInv
  <2>7. WantInv' /\ ChangeInv' /\ ShownInv'
    BY <1>1, <1>2, <2>3 DEF PInv, WantInv, ChangeInv, ShownInv
  <2> QED BY <2>2, <2>4, <2>5, <2>6, <2>7 DEF PInv
<1>3. CASE /\ PySetValues(vals)
           /\ wanted' = [o \in DOMAIN Mapped(vals) \cup DOMAIN wanted |->
                          IF o \in DOMAIN Mapped(vals) THEN Mapped(vals)[o] ELSE wanted[o]]
  <2> DEFINE keys == OffsetsNamed(vals)
             dict == Mapped(vals)
             offs == Keys(vals)
             new == [k \in DOMAIN offs |-> dict[offs[k]]]
  <2>1. SetValuesSubset(offs, new)
    BY <1>3 DEF PySetValues
  <2>2. /\ UNCHANGED config /\ requested' = requested
        /\ \A o \in Offsets : /\ line'[o].flags = line[o].flags
                              /\ line'[o].debounce = line[o].debounce
                              /\ line'[o].output = line[o].output
    <3> HIDE DEF offs, new
    <3> QED BY <2>1, SetKeeps DEF PInv
  <2>3. order' = order /\ conf' = conf /\ outs' = outs
    BY <2>2 DEF config
  <2>4. RInv' /\ CInv'
    <3> HIDE DEF offs, new
    <3>1. RInv'
      BY <2>1, SetValuesInv DEF PInv
    <3> QED BY <2>3, <3>1 DEF PInv, CInv
  <2>5. PathInv' /\ AskInv'
    BY <1>1 DEF PInv, PathInv, AskInv
  <2>6. GrantInv'
    <3>1. \A o \in ToSet(order) : o \in Offsets
      BY DEF PInv, CInv, ToSet
    <3> QED BY <1>1, <2>2, <2>3, <3>1 DEF PInv, GrantInv, Settled
  <2>7. ReadInv'
    <3>1. \A o : GroupsOf(o)' = GroupsOf(o)
      BY <1>1 DEF GroupsOf
    <3> QED BY <1>1, <2>3, <3>1 DEF PInv, ReadInv
  <2>8. /\ DOMAIN dict = Range(keys)
        /\ \A o \in Range(keys) : dict[o] \in {0, 1}
    <3>1. DOMAIN keys = DOMAIN vals
      BY DEF OffsetsNamed
    <3> HIDE DEF keys
    <3>2. DOMAIN ByOffset(keys, vals) = Range(keys)
          /\ \A o \in Range(keys) : ByOffset(keys, vals)[o] \in {0, 1}
      BY <3>1, DictIs
    <3> QED BY <3>2 DEF Mapped, keys
  <2>9. ToSet(offs) = Range(keys) /\ \E n \in Nat : DOMAIN offs = 1..n
    <3>1. vals \in Seq([id : Ids, value : Values])
      BY PyAssumption DEF PyAssumption
    <3>2. Len(vals) \in Nat /\ DOMAIN keys = 1..Len(vals) /\ keys = [k \in DOMAIN keys |-> keys[k]]
      BY <3>1 DEF OffsetsNamed
    <3> DEFINE R == Range(keys)
               n == Len(vals)
    <3> HIDE DEF keys, n
    <3>3. keys \in [1..n -> R]
      BY <3>2 DEF Range, n
    <3>4. keys \in Seq(R) /\ ToSet(keys) = R
      <4> HIDE DEF R
      <4>1. keys \in Seq(R)
        BY <3>2, <3>3 DEF n
      <4>2. ToSet(keys) = Range(keys)
        BY <4>1 DEF ToSet, Range
      <4> QED BY <4>1, <4>2 DEF R
    <3> HIDE DEF R
    <3>5. offs \in Seq(R) /\ ToSet(offs) = ToSet(keys)
      BY <3>4, FirstOccurrencesMembers DEF Keys, keys
    <3> HIDE DEF offs
    <3>6. DOMAIN offs = 1..Len(offs) /\ Len(offs) \in Nat
      BY <3>5
    <3> QED BY <3>4, <3>5, <3>6 DEF R
  <2> HIDE DEF keys, dict
  <2>10. PICK n \in Nat : DOMAIN offs = 1..n
    BY <2>9
  <2> HIDE DEF offs
  <2>11. /\ \A k \in DOMAIN offs : offs[k] \in ToSet(offs)
         /\ \A o \in ToSet(offs) : o \in Offsets
    <3>1. ToSet(offs) \subseteq ToSet(requested)
      BY <2>1 DEF SetValuesSubset
    <3>2. requested \in Seq(Offsets)
      BY DEF PInv, GrantInv
    <3>3. ToSet(requested) \subseteq Offsets
      BY <3>2 DEF ToSet
    <3> QED BY <3>1, <3>3 DEF ToSet
  <2>12. offs \in Seq(Offsets) /\ new \in Seq({0, 1})
    <3>1. offs = [k \in 1..n |-> offs[k]]
      BY <2>10 DEF offs, Keys, FirstOccurrences
    <3>2. offs \in [1..n -> Offsets]
      BY <2>10, <2>11, <3>1
    <3>3. new \in [1..n -> {0, 1}]
      BY <2>8, <2>9, <2>10, <2>11
    <3> HIDE DEF new
    <3> QED BY <3>2, <3>3
  <2>13. ASSUME NEW o \in ToSet(offs) PROVE line'[o].value = dict[o]
    <3> DEFINE i == LastFor(offs, o)
    <3>1. /\ i \in DOMAIN offs /\ offs[i] = o
          /\ \A k \in DOMAIN offs : offs[k] = o => k <= i
      <4>1. o \in Range(offs)
        BY DEF ToSet, Range
      <4> QED BY <2>10, <4>1, LastPlaceIs
    <3> HIDE DEF i
    <3>2. i \in LastPlaces(offs)
      <4> SUFFICES ASSUME NEW j \in (i + 1)..Len(offs), offs[j] = offs[i] PROVE FALSE
        BY <3>1 DEF LastPlaces
      <4>1. DOMAIN offs = 1..Len(offs) /\ Len(offs) \in Nat /\ i \in Nat
        BY <2>12, <3>1
      <4>2. j \in DOMAIN offs /\ ~(j <= i)
        BY <3>1, <4>1
      <4> QED BY <3>1, <4>2
    <3>3. \A x \in LastPlaces(offs) : line'[offs[x]].value = new[x]
      <4> HIDE DEF new
      <4> QED BY <2>1, <2>12, SetReaches DEF PInv
    <3> QED BY <3>1, <3>2, <3>3
  <2>14. \A o \in Offsets \ ToSet(offs) : line'[o] = line[o]
    <3> HIDE DEF new
    <3> QED BY <2>1, <2>12, SetReaches DEF PInv
  <2>15. ASSUME NEW o \in DOMAIN wanted' \cap ToSet(requested),
                conf[o].direction = "output"
         PROVE  line'[o].value = wanted'[o]
    <3>1. wanted' = [x \in DOMAIN dict \cup DOMAIN wanted |->
                       IF x \in DOMAIN dict THEN dict[x] ELSE wanted[x]]
      BY <1>3 DEF dict
    <3>2. CASE o \in DOMAIN dict
      <4>1. o \in ToSet(offs) /\ wanted'[o] = dict[o]
        BY <2>8, <2>9, <3>1, <3>2
      <4> QED BY <2>13, <4>1
    <3>3. CASE o \notin DOMAIN dict
      <4>1. o \in DOMAIN wanted \cap ToSet(requested) /\ wanted'[o] = wanted[o]
            /\ o \notin ToSet(offs)
        BY <2>8, <2>9, <2>15, <3>1, <3>3
      <4>2. o \in Offsets
        BY DEF PInv, GrantInv, ToSet
      <4>3. line[o].value = wanted[o]
        BY <1>1, <2>15, <4>1 DEF PInv, WantInv
      <4> QED BY <2>14, <4>1, <4>2, <4>3
    <3> QED BY <3>2, <3>3
  <2>16. WantInv'
    BY <1>1, <2>2, <2>3, <2>15 DEF WantInv
  <2>17. ChangeInv' /\ ShownInv'
    BY <1>1 DEF ChangeInv, ShownInv
  <2> QED BY <2>4, <2>5, <2>6, <2>7, <2>16, <2>17 DEF PInv
<1> QED BY <1>2, <1>3 DEF PySets

LEMMA PyReconfiguresStep ==
  ASSUME PInv, NEW cfg \in PyConfigs, PyReconfigures(cfg)
  PROVE  PInv'
<1> DEFINE dict == SettingsByOffset(cfg)
           offs == OffsetsNamed(cfg)
<1>1. /\ stage' = "repy" /\ sent = NoVariant /\ requested # <<>>
      /\ UNCHANGED <<sent, asked, requested, fd, line>>
      /\ order' = requested /\ outs' = <<>> /\ changed' = dict /\ before' = line
      /\ conf' = [o \in Range(requested) |->
                    IF o \in DOMAIN dict THEN ToExt(dict[o]) ELSE Defaults]
  BY DEF PyReconfigures, PyReconfig, PyOffsets, dbusVars
<1>2. requested \in Seq(Offsets) /\ Range(requested) = ToSet(requested)
  BY DEF PInv, GrantInv, Range, ToSet
<1>3. \A o \in DOMAIN dict : ToExt(dict[o]) \in AllSettings
  <2> TAKE o \in DOMAIN dict
  <2>1. o \in Range(offs) /\ dict[o] = cfg[LastFor(offs, o)].settings
    BY DEF SettingsByOffset
  <2>2. cfg \in Seq([id : Ids, settings : AllSettings \cup {NoSettings}])
    BY PyAssumption DEF PyAssumption
  <2> DEFINE n == Len(cfg)
  <2>3. n \in Nat /\ DOMAIN cfg = 1..n /\ DOMAIN offs = DOMAIN cfg
    BY <2>2 DEF OffsetsNamed
  <2> HIDE DEF n, offs, dict
  <2>4. LastFor(offs, o) \in DOMAIN cfg
    BY <2>1, <2>3, LastPlaceIs
  <2> QED BY <2>1, <2>4, ToExtTyped
<1> HIDE DEF dict
<1>4. Defaults \in AllSettings
  BY DEF Defaults, AllSettings
<1>5. conf' \in [ToSet(requested) -> AllSettings]
  BY <1>1, <1>2, <1>3, <1>4
<1>6. CInv'
  <2>1. <<>> \in Seq({0, 1})
    OBVIOUS
  <2> QED BY <1>1, <1>2, <1>5, <2>1 DEF CInv
<1>7. RInv'
  BY <1>1, SameRequest DEF PInv, RInv
<1>8. asked = NotAsked
  BY <1>1 DEF PInv, PathInv
<1>9. PathInv'
  BY <1>1, <1>8 DEF PathInv, Stages
<1>10. GrantInv' /\ AskInv' /\ ReadInv' /\ WantInv' /\ ShownInv'
  BY <1>1, <1>8 DEF PInv, GrantInv, AskInv, ReadInv, WantInv, ShownInv
<1>11. ChangeInv'
  BY <1>1, <1>2 DEF ChangeInv
<1> QED BY <1>6, <1>7, <1>9, <1>10, <1>11 DEF PInv

LEMMA PyReconfiguredStep ==
  ASSUME PInv, PyReconfigured
  PROVE  PInv'
<1>1. /\ stage = "repy" /\ UNCHANGED <<sent, asked, wanted, changed, before, nameMap>>
      /\ requested = order /\ before = line /\ sent = NoVariant
      /\ \A o \in ToSet(order) :
           conf[o] = IF o \in DOMAIN changed THEN ToExt(changed[o]) ELSE Defaults
  BY DEF PyReconfigured, dbusVars, pyVars, PInv, ChangeInv, PathInv
<1>2. CASE /\ ReconfigureLines
           /\ stage' = IF line' = Reconfigured(TRUE) THEN "changed" ELSE "reset"
  <2>1. /\ requested' = order /\ UNCHANGED config
        /\ \A o \in ToSet(order) :
             /\ ValidFlags(MakeKernelFlags(conf[o]))
             /\ Directed(MakeKernelFlags(conf[o])) => Settled(o)'
    BY <1>2, Granted DEF PInv
  <2>2. order' = order /\ conf' = conf /\ outs' = outs
    BY <2>1 DEF config
  <2>3. RInv' /\ CInv'
    BY <1>2, <2>2, ReconfigureInv DEF PInv, CInv
  <2>4. asked = NotAsked /\ stage' \in {"changed", "reset"}
    BY <1>1, <1>2 DEF PInv, PathInv
  <2>5. PathInv'
    BY <1>1, <2>4 DEF PathInv, Stages
  <2>6. GrantInv'
    BY <1>2, <2>1, <2>2 DEF GrantInv, PInv, CInv
  <2>7. AskInv' /\ ReadInv' /\ WantInv' /\ ShownInv'
    BY <1>1, <1>2, <2>4 DEF AskInv, ReadInv, WantInv, ShownInv
  <2>8. ~Directed(MakeKernelFlags(Defaults))
    BY DEF Defaults, MakeKernelFlags, DirectionFlags, EdgeFlags, DriveFlags, BiasFlags,
           ClockFlags, Directed
  <2>9. ASSUME NEW o \in ToSet(order) \ GivenSettings
        PROVE  /\ line'[o].output = before[o].output /\ line'[o].value = before[o].value
               /\ stage' = "changed" => line'[o] = before[o]
    <3>1. conf[o] = Defaults
      BY <1>1, <2>9 DEF GivenSettings, ToExt
    <3>2. /\ line'[o].output = line[o].output /\ line'[o].value = line[o].value
          /\ stage' = "changed" => line'[o] = line[o]
      BY <1>2, <2>8, <3>1, Undirected DEF PInv
    <3>3. before = line
      BY <1>1
    <3> QED BY <3>2, <3>3, Zenon
  <2>10. ChangeInv'
    <3>1. GivenSettings' = GivenSettings
      BY <1>1 DEF GivenSettings
    <3>2. \A o \in ToSet(requested') \ GivenSettings' :
            /\ line'[o].output = before'[o].output /\ line'[o].value = before'[o].value
            /\ stage' = "changed" => line'[o] = before'[o]
      BY <1>1, <2>1, <2>9, <3>1
    <3> QED BY <1>1, <2>2, <2>4, <3>2 DEF ChangeInv
  <2> QED BY <2>3, <2>5, <2>6, <2>7, <2>10 DEF PInv
<1>3. CASE /\ ReconfigureTooBig \/ ReconfigureOtherLines \/ ReconfigureRejected
           /\ stage' = IF OffsetsEqual THEN "refused" ELSE "misplaced"
  <2>1. UNCHANGED vars
    BY <1>3 DEF ReconfigureTooBig, ReconfigureOtherLines, ReconfigureRejected, Fail
  <2>2. stage' = "refused"
    BY <1>1, <1>3 DEF OffsetsEqual
  <2> QED BY <1>1, <2>1, <2>2, Ended
<1> QED BY <1>2, <1>3 DEF PyReconfigured

\* Every step of every path keeps the invariant.
LEMMA PathsStep ==
  ASSUME PInv, [PathsNext]_allVars
  PROVE  PInv'
<1>1. CASE UNCHANGED allVars
  <2>1. /\ UNCHANGED vars
        /\ UNCHANGED <<stage, wanted, sent, asked, shown, group, named, changed, before>>
    BY <1>1 DEF allVars, dbusVars, reading, pyVars
  <2>2. RInv' /\ CInv'
    BY <2>1, SameLines DEF PInv
  <2>3. /\ order' = order /\ conf' = conf /\ outs' = outs /\ line' = line
        /\ requested' = requested
    BY <2>1 DEF vars, config
  <2>4. PathInv' /\ AskInv'
    BY <2>1 DEF PInv, PathInv, AskInv
  <2>5. GrantInv'
    BY <2>1, <2>3 DEF PInv, GrantInv, Settled
  <2>6. ReadInv'
    <3>1. \A o : GroupsOf(o)' = GroupsOf(o)
      BY <2>1 DEF GroupsOf
    <3> QED BY <2>1, <2>3, <3>1 DEF PInv, ReadInv
  <2>7. WantInv' /\ ChangeInv'
    BY <2>1, <2>3 DEF PInv, WantInv, ChangeInv, GivenSettings
  <2>8. ShownInv'
    <3>1. \A o : GetLineInfo(o)' = GetLineInfo(o)
      BY <2>3 DEF GetLineInfo, KernelInfo
    <3>2. \A o : Displayed(GetLineInfo(o))' = Displayed(GetLineInfo(o))
      BY <3>1, Zenon
    <3> QED BY <2>1, <2>3, <3>2 DEF PInv, ShownInv
  <2> QED BY <2>2, <2>4, <2>5, <2>6, <2>7, <2>8 DEF PInv
<1>2. CASE Build \/ CRequest \/ PyRequests
  BY <1>2, BuildStep, ProgramRequests
<1>3. CASE DbusNext
  BY <1>3, DbusStep
<1>4. ASSUME NEW cfg \in PyConfigs, NEW vals \in PyValues,
             PyStart(cfg, vals) \/ PyStartFails(cfg, vals)
      PROVE  PInv'
  BY <1>4, PyStartStep, PyStartFailsStep
<1>5. ASSUME NEW vals \in PyValues, PySets(vals) PROVE PInv'
  BY <1>5, PySetsStep
<1>6. ASSUME NEW cfg \in PyConfigs, PyReconfigures(cfg) PROVE PInv'
  BY <1>6, PyReconfiguresStep
<1>7. CASE PyReconfigured
  BY <1>7, PyReconfiguredStep
<1> QED BY <1>1, <1>2, <1>3, <1>4, <1>5, <1>6, <1>7 DEF PathsNext

-----------------------------------------------------------------------------
(* The invariant says what was asked for *)

LEMMA InfoIsTold == PInv => InfoTellsSettings
<1> SUFFICES ASSUME PInv, stage = "granted", NEW o \in ToSet(requested),
                    conf[o].direction # "as_is"
             PROVE  Tells(GetLineInfo(o), conf[o])
  BY DEF InfoTellsSettings
<1>1. o \in ToSet(order) /\ conf[o] \in AllSettings /\ o \in Offsets
  BY DEF PInv, GrantInv, CInv, ToSet
<1>2. Directed(MakeKernelFlags(conf[o]))
  BY <1>1, FlagsOf DEF Directed, AllSettings
<1>3. ValidFlags(MakeKernelFlags(conf[o])) /\ Settled(o)
  BY <1>1, <1>2 DEF PInv, GrantInv
<1>4. line[o].user = "fd"
  BY <1>1 DEF PInv, RInv, HeldWhileRequested
<1> QED BY <1>1, <1>3, <1>4, InfoTells

LEMMA ShownRight == PInv => ShownAsAsked
<1> SUFFICES ASSUME PInv, stage = "shown", asked.opts \cap {"input", "output"} # {},
                    NEW x \in ToSet(requested)
             PROVE  LET o == Spelt(asked.opts) p == shown[x] IN
                    /\ p.used /\ p.direction \in o
                    /\ p.active_low = ("active-low" \in o)
                    /\ p.edge \in {"rising", "both"} <=> "rising-edge" \in o
                    /\ p.edge \in {"falling", "both"} <=> "falling-edge" \in o
                    /\ p.bias = Option(o, "pull-up", "pull-up", Option(o, "pull-down", "pull-down",
                                  Option(o, "bias-disabled", "disabled", "")))
                    /\ \A d \in {"open-drain", "open-source"} : p.drive = d <=> d \in o
                    /\ p.clock = "realtime" <=> "clock-realtime" \in o
                    /\ p.clock = "hte" <=> "clock-hte" \in o
                    /\ p.debounce = asked.debounce % PeriodMod /\ p.debounced = (p.debounce # 0)
  BY DEF ShownAsAsked
<1> DEFINE o == Spelt(asked.opts)
           d == asked.debounce
           p == Displayed(GetLineInfo(x))
<1>1. /\ ValidOptions(o, d) /\ d \in Nat /\ Len(sent.configs) = 1
      /\ sent.configs[1].settings = SettingsDict(o, d)
  BY DEF PInv, PathInv, AskInv
<1>2. requested = order /\ x \in ToSet(order) /\ x \in Offsets /\ conf[x] \in AllSettings
  BY DEF PInv, GrantInv, CInv, ToSet
<1>3. conf[x] = SettingsFrom(Defaults, SettingsDict(o, d))
  <2>1. /\ group = 1 /\ GroupsOf(x) # {}
        /\ conf[x] = SettingsFrom(Defaults, sent.configs[Max(GroupsOf(x))].settings)
    BY <1>1, <1>2 DEF PInv, PathInv, ReadInv
  <2> DEFINE G == GroupsOf(x)
  <2>2. G \in SUBSET (0..1) /\ G \subseteq 1..1
    BY <2>1 DEF GroupsOf
  <2> HIDE DEF G
  <2>3. Max(G) \in G
    BY <2>1, <2>2, MaxIs DEF G
  <2>4. Max(G) = 1
    <3>1. \A k \in G : k = 1
      BY <2>2
    <3> QED BY <2>3, <3>1
  <2> QED BY <1>1, <2>1, <2>4 DEF G
<1>4. o \cap {"input", "output"} # {}
  BY DEF Spelt
<1>5. Tells(GetLineInfo(x), conf[x])
  <2>1. conf[x].direction = IF "input" \in o THEN "input"
                            ELSE IF "output" \in o THEN "output" ELSE "as_is"
    <3> DEFINE s == SettingsFrom(Defaults, SettingsDict(o, d))
    <3>1. s.direction = IF "input" \in o THEN "input"
                        ELSE IF "output" \in o THEN "output" ELSE "as_is"
      <4> HIDE DEF o, d
      <4> QED BY <1>1, AskedSettings DEF s
    <3> QED BY <1>3, <3>1
  <2>2. conf[x].direction # "as_is" /\ Directed(MakeKernelFlags(conf[x]))
    <3>1. conf[x].direction \in {"input", "output"}
      <4> HIDE DEF o
      <4> QED BY <1>4, <2>1
    <3> QED BY <1>2, <3>1, FlagsOf DEF Directed
  <2>3. ValidFlags(MakeKernelFlags(conf[x])) /\ Settled(x)
    BY <1>2, <2>2 DEF PInv, GrantInv
  <2>4. line[x].user = "fd"
    BY <1>2 DEF PInv, RInv, HeldWhileRequested
  <2> QED BY <1>2, <2>2, <2>3, <2>4, InfoTells
<1>6. shown[x] = p
  BY DEF PInv, ShownInv
<1> HIDE DEF o, d
<1>7. /\ p.used /\ p.direction \in o
      /\ p.active_low = ("active-low" \in o)
      /\ p.edge \in {"rising", "both"} <=> "rising-edge" \in o
      /\ p.edge \in {"falling", "both"} <=> "falling-edge" \in o
      /\ p.bias = Option(o, "pull-up", "pull-up", Option(o, "pull-down", "pull-down",
                    Option(o, "bias-disabled", "disabled", "")))
      /\ \A v \in {"open-drain", "open-source"} : p.drive = v <=> v \in o
      /\ p.clock = "realtime" <=> "clock-realtime" \in o
      /\ p.clock = "hte" <=> "clock-hte" \in o
      /\ p.debounce = d % PeriodMod /\ p.debounced = (p.debounce # 0)
  BY <1>1, <1>2, <1>3, <1>4, <1>5, ShownIs
<1> HIDE DEF p
<1> QED BY <1>6, <1>7, Zenon DEF o, d

LEMMA GroupsApart == PInv => KeptApart
<1> SUFFICES ASSUME PInv, stage = "config", NEW o \in ToSet(order), NEW f \in DOMAIN Defaults
             PROVE  LET own == sent.configs[Max({k \in DOMAIN sent.configs :
                                              o \in ToSet(sent.configs[k].offsets)})].settings
                    IN  (f \in DOMAIN KeyOf => KeyOf[f] \notin DOMAIN own)
                          => conf[o][f] = Defaults[f]
  BY DEF KeptApart
<1> DEFINE G == {k \in DOMAIN sent.configs : o \in ToSet(sent.configs[k].offsets)}
           own == sent.configs[Max(G)].settings
<1>1. /\ IsVariant(sent) /\ group = Len(sent.configs)
      /\ conf[o] = SettingsFrom(Defaults, sent.configs[Max(GroupsOf(o))].settings)
  BY DEF PInv, PathInv, ReadInv
<1>2. GroupsOf(o) = G
  BY <1>1 DEF GroupsOf, IsVariant
<1>3. conf[o] = SettingsFrom(Defaults, own)
  BY <1>1, <1>2
<1> HIDE DEF own, G
<1>4. (f \in DOMAIN KeyOf => KeyOf[f] \notin DOMAIN own) => conf[o][f] = Defaults[f]
  BY <1>3, Unmentioned
<1> QED BY <1>4 DEF own, G

LEMMA ValuesRight == PInv => ValuesAsAsked
<1> SUFFICES ASSUME PInv, stage = "granted" PROVE
      /\ \A o \in DOMAIN wanted \cap ToSet(requested) :
           conf[o].direction = "output" => line[o].value = wanted[o]
      /\ \A i, j \in {id \in Ids : KnownHere(id) /\ LineToOffset(id) \in ToSet(requested)} :
           PyGetValues(<<i, j>>) = <<line[LineToOffset(i)].value, line[LineToOffset(j)].value>>
  BY DEF ValuesAsAsked
<1>1. \A o \in DOMAIN wanted \cap ToSet(requested) :
        conf[o].direction = "output" => line[o].value = wanted[o]
  BY DEF PInv, WantInv
<1>2. ASSUME NEW i, NEW j, LineToOffset(i) \in ToSet(requested),
             LineToOffset(j) \in ToSet(requested)
      PROVE  PyGetValues(<<i, j>>)
               = <<line[LineToOffset(i)].value, line[LineToOffset(j)].value>>
  <2> DEFINE x == LineToOffset(i)
             y == LineToOffset(j)
             offs == <<x, y>>
  <2>1. ToSet(requested) \subseteq Offsets
    BY DEF PInv, GrantInv, ToSet
  <2>2. PyGetValues(<<i, j>>) = ValuesAt(offs)
    <3>1. [k \in DOMAIN <<i, j>> |-> LineToOffset(<<i, j>>[k])] = offs
      OBVIOUS
    <3> HIDE DEF offs
    <3> QED BY <3>1 DEF PyGetValues
  <2> HIDE DEF x, y
  <2>3. offs \in Seq(Offsets) /\ ToSet(offs) \subseteq ToSet(requested)
    BY <1>2, <2>1 DEF x, y, ToSet
  <2>4. ValuesAt(offs) = [k \in DOMAIN offs |-> line[offs[k]].value]
    <3> HIDE DEF offs
    <3> QED BY <2>3, ValuesAtIs DEF PInv
  <2>5. [k \in DOMAIN offs |-> line[offs[k]].value] = <<line[x].value, line[y].value>>
    OBVIOUS
  <2> QED BY <2>2, <2>4, <2>5 DEF x, y
<1> QED BY <1>1, <1>2

LEMMA NamedChange == PInv => NamedLinesChange
<1> SUFFICES ASSUME PInv PROVE NamedLinesChange
  OBVIOUS
<1>1. stage # "misplaced"
  BY DEF PInv, PathInv, Stages
<1>2. ASSUME stage \in {"changed", "reset"}, NEW o \in GivenSettings \cap ToSet(requested),
             changed[o].direction # "as_is"
      PROVE  Tells(GetLineInfo(o), changed[o])
  <2>1. o \in ToSet(order) /\ conf[o] \in AllSettings /\ o \in Offsets
        /\ conf[o] = changed[o]
    BY <1>2 DEF PInv, GrantInv, ChangeInv, CInv, ToSet, GivenSettings, ToExt
  <2>2. Directed(MakeKernelFlags(conf[o]))
    BY <1>2, <2>1, FlagsOf DEF Directed, AllSettings
  <2>3. ValidFlags(MakeKernelFlags(conf[o])) /\ Settled(o)
    BY <1>2, <2>1, <2>2 DEF PInv, GrantInv
  <2>4. line[o].user = "fd"
    BY <2>1 DEF PInv, RInv, HeldWhileRequested
  <2>5. Tells(GetLineInfo(o), conf[o])
    BY <1>2, <2>1, <2>3, <2>4, InfoTells
  <2> QED BY <2>1, <2>5
<1>3. /\ stage = "changed" =>
           \A o \in ToSet(requested) \ GivenSettings : line[o] = before[o]
      /\ stage = "reset" =>
           \A o \in ToSet(requested) \ GivenSettings :
             line[o].output = before[o].output /\ line[o].value = before[o].value
  BY DEF PInv, ChangeInv
<1> QED BY <1>1, <1>2, <1>3 DEF NamedLinesChange

-----------------------------------------------------------------------------
(* Theorems *)

\* The file and the lines are those of the request in every reachable state.
THEOREM Invariance == Spec => []RInv
<1>1. Init => RInv
  BY RequestInit
<1>2. RInv /\ [Next]_vars => RInv'
  BY RequestStep
<1> QED BY <1>1, <1>2, PTL DEF Spec

\* The kernel holds lines for the request exactly while the request is there: none stays
\* taken when a request fails half-way (gpiod_chip_request_lines).
THEOREM LinesHeld == Spec => []HeldWhileRequested
<1>1. RInv => HeldWhileRequested
  BY DEF RInv
<1> QED BY <1>1, Invariance, PTL

\* Values are read place by place off the lines that are named, in any order and twice
\* (gpiod_line_request_get_values_subset).
THEOREM ReadByPlace == Spec => []GetReadsNamedLines
<1>1. RInv => GetReadsNamedLines
  <2> SUFFICES ASSUME RInv, NEW offs \in OffsetArgs, ToSet(offs) \subseteq ToSet(requested)
               PROVE  ValuesAt(offs) = [i \in DOMAIN offs |-> line[offs[i]].value]
    BY DEF GetReadsNamedLines
  <2>1. offs \in Seq(Offsets)
    BY SeqOfIsSeq DEF OffsetArgs
  <2> QED BY <2>1, ValuesAtIs
<1> QED BY <1>1, Invariance, PTL

\* The configuration is an ordered map from offsets to settings and a list of values in
\* every reachable state.
THEOREM ConfigInvariance == Spec => [](UserConfig /\ CInv)
<1>1. UserConfig /\ [Next]_vars => UserConfig'
  BY ConfigStep
<1> QED BY <1>1, ConfigInit, UserConfigIs, PTL DEF Spec

\* Every variable has its type: the object, the request, the kernel's lines with the flags
\* and periods that an encoding can give them, and the encoding itself fits its array.
THEOREM TypeCorrect == Spec => []TypeOK
<1>1. CInv /\ RInv /\ Typed /\ [Next]_vars => Typed'
  BY TypedStep
<1>2. Spec => []Typed
  BY <1>1, TypedInit, ConfigInvariance, Invariance, PTL DEF Spec
<1>3. UserConfig /\ CInv /\ RInv /\ Typed => TypeOK
  <2> SUFFICES ASSUME UserConfig, CInv, RInv, Typed PROVE TypeOK
    OBVIOUS
  <2>1. UapiTypeOK
    <3> DEFINE u == ToUapi(PerLine, outs)
    <3>1. ASSUME u.ok PROVE Len(u.attrs) \in 0..NumAttrsMax
      <4>1. PerLine \in Seq(AllSettings)
        BY PerLineIs
      <4> QED BY <3>1, <4>1, EncodedIs
    <3> HIDE DEF u
    <3> QED BY <3>1 DEF UapiTypeOK, UserConfig, u
  <2> QED BY <2>1 DEF TypeOK, Typed, TypedLine, RInv
<1> QED BY <1>2, <1>3, ConfigInvariance, Invariance, PTL

\* The kernel drives each output to the value the configuration reads for it, however the
\* lines share the attributes of the encoding (set_kernel_output_values).
THEOREM ValuesGoThrough == Spec => []ValuesReachLines
BY ValuesReach, ConfigInvariance, PTL

\* A configuration is refused exactly when the distinct things it asks for need more
\* attributes than there are (gpiod_line_config_to_uapi).
THEOREM RefusedRightly == Spec => []RefusedWhenFull
BY FullRefused, ConfigInvariance, PTL

\* A request or a reconfiguration that is granted leaves every line that a direction was
\* asked for as the configuration reads, whatever the settings and the order of the lines
\* (gpiod_line_config_to_uapi, gpiod_line_request_reconfigure_lines).
THEOREM ConfigGoesThrough == Spec => ConfigReachesLines
<1>1. CInv /\ RInv /\ [Next]_vars =>
        [RequestLines \/ ReconfigureLines =>
           \A o \in ToSet(order) : Directed(MakeKernelFlags(conf[o])) => AsConfigured(o)']_vars
  BY GrantedAs
<1> QED BY <1>1, ConfigInvariance, Invariance, PTL DEF Spec, ConfigReachesLines

\* Setting values drives the lines named to the last of their values and leaves the others
\* alone, for any order and repetition (gpiod_line_request_set_values_subset).
THEOREM SetGoesThrough == Spec => SetReachesNamedLines
<1> DEFINE A == \A offs \in OffsetArgs, vals \in ValueArgs :
                  SetValuesSubset(offs, vals) =>
                    /\ \A i \in DOMAIN offs :
                         (\A j \in (i + 1)..Len(offs) : offs[j] # offs[i])
                           => line'[offs[i]].value = vals[i]
                    /\ \A o \in Offsets \ ToSet(offs) : line'[o] = line[o]
<1>1. RInv /\ [Next]_vars => [A]_vars
  <2> SUFFICES ASSUME RInv PROVE A
    OBVIOUS
  <2>1. ASSUME NEW offs \in OffsetArgs, NEW vals \in ValueArgs, SetValuesSubset(offs, vals)
        PROVE  /\ \A i \in DOMAIN offs :
                    (\A j \in (i + 1)..Len(offs) : offs[j] # offs[i])
                      => line'[offs[i]].value = vals[i]
               /\ \A o \in Offsets \ ToSet(offs) : line'[o] = line[o]
    <3>1. offs \in Seq(Offsets) /\ vals \in Seq({0, 1})
      BY SeqOfIsSeq DEF OffsetArgs, ValueArgs
    <3> QED BY <2>1, <3>1, SetReaches DEF LastPlaces
  <2> QED BY <2>1
<1> QED BY <1>1, Invariance, PTL DEF Spec, SetReachesNamedLines

\* On every path to a request, what its author asked for is what the configuration holds,
\* and what is granted is what it says.
THEOREM PathsInvariance == PathsSpec => []PInv
<1>1. PathsInit => PInv
  BY PathsStart
<1>2. PInv /\ [PathsNext]_allVars => PInv'
  BY PathsStep
<1> QED BY <1>1, <1>2, PTL DEF PathsSpec

\* The information of a requested line says what its settings were, for every way of giving
\* them (gpiod_line_config_to_uapi, gpiod_line_info_from_uapi).
THEOREM SettingsAreTold == PathsSpec => []InfoTellsSettings
BY InfoIsTold, PathsInvariance, PTL

\* The values given to any front end reach the outputs through the encoding
\* (set_kernel_output_values).
THEOREM PathValuesGoThrough == PathsSpec => []ValuesReachLines
<1>1. PInv => ValuesReachLines
  BY ValuesReach DEF PInv
<1> QED BY <1>1, PathsInvariance, PTL

\* No front end's configuration is refused while it fits (gpiod_line_config_to_uapi).
THEOREM PathRefusedRightly == PathsSpec => []RefusedWhenFull
<1>1. PInv => RefusedWhenFull
  BY FullRefused DEF PInv
<1> QED BY <1>1, PathsInvariance, PTL

\* gpiocli shows of its lines what its options said, through the variant, the manager, the
\* kernel and the line properties (make_line_config to do_print_line_info).
THEOREM OptionsAreShown == PathsSpec => []ShownAsAsked
BY ShownRight, PathsInvariance, PTL

\* The groups of a variant do not leak settings into each other
\* (gpiodbus_line_config_from_variant).
THEOREM GroupsKeptApart == PathsSpec => []KeptApart
BY GroupsApart, PathsInvariance, PTL

\* Values reach the lines they were given for by name, by place or in a dictionary, and are
\* read back off them (set_values, get_values, gpiodbus_line_config_from_variant).
THEOREM ValuesArrive == PathsSpec => []ValuesAsAsked
BY ValuesRight, PathsInvariance, PTL

\* Python's reconfiguration changes the lines it gives settings as they say, leaves the
\* others driving what they drove, and does not change them at all where the kernel skips
\* lines that no direction is asked for (reconfigure_lines).
THEOREM ChangeArrives == PathsSpec => []NamedLinesChange
BY NamedChange, PathsInvariance, PTL
=================================================================================
