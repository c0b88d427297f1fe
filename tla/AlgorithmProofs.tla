--------------------------- MODULE AlgorithmProofs --------------------------
(***************************************************************************)
(* What the algorithms of TemplateAlgorithms and StorageLocation compute,  *)
(* for arguments of any length. They loop by the folds of the community    *)
(* modules, MapThenSumSet and FoldLeft: the first two sections have        *)
(* induction over finite data, by least counterexamples, and the meaning   *)
(* of those folds.                                                         *)
(***************************************************************************)
EXTENDS TemplateAlgorithms, FiniteSetTheorems, Integers, TLAPS

-----------------------------------------------------------------------------
(* Induction *)

\* A set of natural numbers with 0 and every successor has them all.
LEMMA Induction ==
    ASSUME NEW P \in SUBSET Nat, 0 \in P, \A n \in P : n + 1 \in P
    PROVE  P = Nat
<1> SUFFICES ASSUME P # Nat PROVE FALSE
    OBVIOUS
<1>1. IsWellFoundedOn(OpToRel(<, Nat), Nat)
  BY NatLessThanWellFounded
<1>2. PICK n \in Nat \ P : \A m \in Nat \ P : ~(<<m, n>> \in OpToRel(<, Nat))
  BY <1>1, WFMin
<1>3. n # 0 /\ n - 1 \in Nat /\ <<n - 1, n>> \in OpToRel(<, Nat)
  BY DEF OpToRel
<1>4. n - 1 \in P
  BY <1>2, <1>3
<1> QED BY <1>4

\* A nonempty set of natural numbers has a least member, which is what Min chooses.
LEMMA MinMember ==
    ASSUME NEW S \in SUBSET Nat, S # {}
    PROVE  Min(S) \in S /\ \A x \in S : Min(S) <= x
<1>1. IsWellFoundedOn(OpToRel(<, Nat), Nat)
  BY NatLessThanWellFounded
<1>2. PICK n \in S : \A m \in S : ~(<<m, n>> \in OpToRel(<, Nat))
  BY <1>1, WFMin
<1>3. \A m \in S : ~(m < n)
  BY <1>2 DEF OpToRel
<1>4. n \in S /\ \A m \in S : n <= m
  BY <1>3
<1> QED BY <1>4 DEF Min

\* One with a bound has a greatest member, which is what Max chooses.
LEMMA MaxMember ==
    ASSUME NEW n \in Nat, NEW S \in SUBSET (0..n), S # {}
    PROVE  Max(S) \in S /\ \A x \in S : x <= Max(S)
<1> DEFINE T == {n - x : x \in S}
<1>1. T \in SUBSET Nat /\ T # {}
  <2>1. \A x \in S : x \in 0..n /\ n - x \in Nat
    OBVIOUS
  <2> QED BY <2>1
<1> HIDE DEF T
<1>2. Min(T) \in T /\ \A y \in T : Min(T) <= y
  BY <1>1, MinMember
<1>3. PICK m \in S : Min(T) = n - m
  BY <1>2 DEF T
<1>4. \A x \in S : n - m <= n - x
  BY <1>2, <1>3 DEF T
<1>5. \A x \in S : m >= x
  BY <1>4
<1>6. \E x \in S : \A y \in S : x >= y
  BY <1>5
<1>7. Max(S) \in S /\ \A y \in S : Max(S) >= y
  BY <1>6 DEF Max
<1> QED BY <1>7

\* The greatest of the first k numbers.
LEMMA MaxInterval == ASSUME NEW k \in Nat \ {0} PROVE Max(1..k) = k
<1>1. 1..k \in SUBSET (0..k) /\ 1..k # {} /\ k \in 1..k
  OBVIOUS
<1>2. Max(1..k) \in 1..k /\ \A x \in 1..k : x <= Max(1..k)
  BY <1>1, MaxMember
<1> QED BY <1>1, <1>2

\* In a finite set, a set of subsets that has a subset whenever it has all the
\* smaller ones has all subsets.
LEMMA SubsetInduction ==
    ASSUME NEW S, IsFiniteSet(S), NEW P \in SUBSET (SUBSET S),
           \A T \in SUBSET S : (\A U \in SUBSET T : U # T => U \in P) => T \in P
    PROVE  P = SUBSET S
<1> SUFFICES ASSUME P # SUBSET S PROVE FALSE
    OBVIOUS
<1> DEFINE B == (SUBSET S) \ P
<1>1. IsWellFoundedOn(StrictSubsetOrdering(S), FiniteSubsetsOf(S))
  BY FS_StrictSubsetOrderingWellFounded
<1>2. B \in SUBSET FiniteSubsetsOf(S) /\ B # {}
  BY FS_FiniteSubsetsOfFinite
<1> HIDE DEF B
<1>3. PICK T \in B : \A U \in B : ~(<<U, T>> \in StrictSubsetOrdering(S))
  BY <1>1, <1>2, WFMin
<1>4. \A U \in SUBSET T : U # T => U \in P
  BY <1>3 DEF StrictSubsetOrdering, B
<1> QED BY <1>4 DEF B

\* The numbers in a sequence have a bound.
LEMMA SequenceBounded ==
    ASSUME NEW n \in Nat, NEW f \in [1..n -> Nat]
    PROVE  \E b \in Nat : \A i \in 1..n : f[i] <= b
<1> DEFINE P == {k \in Nat : k <= n => \E b \in Nat : \A i \in 1..k : f[i] <= b}
<1>1. 0 \in P
  OBVIOUS
<1>2. ASSUME NEW k \in P PROVE k + 1 \in P
  <2> SUFFICES ASSUME k + 1 <= n PROVE \E b \in Nat : \A i \in 1..(k + 1) : f[i] <= b
      OBVIOUS
  <2>1. k \in Nat /\ k <= n /\ f[k + 1] \in Nat
    OBVIOUS
  <2>2. PICK b \in Nat : \A i \in 1..k : f[i] <= b
    BY <2>1
  <2>3. \A i \in 1..(k + 1) : f[i] <= b + f[k + 1]
    <3> SUFFICES ASSUME NEW i \in 1..(k + 1) PROVE f[i] <= b + f[k + 1]
        OBVIOUS
    <3>1. CASE i = k + 1
      BY <2>1, <3>1
    <3>2. CASE i # k + 1
      <4>1. i \in 1..k /\ f[i] \in Nat
        BY <2>1, <3>2
      <4> QED BY <2>1, <2>2, <4>1
    <3> QED BY <3>1, <3>2
  <2>4. b + f[k + 1] \in Nat
    BY <2>1
  <2> QED BY <2>3, <2>4
<1>3. P \in SUBSET Nat
  OBVIOUS
<1> HIDE DEF P
<1>4. n \in P
  BY <1>1, <1>2, <1>3, Induction
<1> QED BY <1>4 DEF P

\* A sequence has finitely many elements.
LEMMA ElementsFinite ==
    ASSUME NEW V, NEW s \in Seq(V)
    PROVE  IsFiniteSet(ToSet(s))
<1>1. s \in Surjection(1..Len(s), ToSet(s))
  BY DEF Surjection, ToSet
<1>2. IsFiniteSet(1..Len(s))
  BY FS_Interval
<1> QED BY <1>1, <1>2, FS_Surjection

-----------------------------------------------------------------------------
(* Recursion over the subsets of a finite set *)

\* ch picks an element of each nonempty subset of S, and F takes one into a value.
Picks(ch, S) == \A s \in SUBSET S : s # {} => ch[s] \in s

TakesIn(F, S, V) == \A x \in S : \A v \in V : F[<<x, v>>] \in V

\* g starts with base and takes the elements of a subset in as ch picks them.
Folds(g, S, V, base, ch, F) ==
    /\ g \in [SUBSET S -> V]
    /\ \A s \in SUBSET S : g[s] = IF s = {} THEN base ELSE F[<<ch[s], g[s \ {ch[s]}]>>]

\* The elements of a finite set can be folded one by one.
LEMMA FoldExists ==
    ASSUME NEW S, IsFiniteSet(S), NEW V, NEW base \in V,
           NEW ch, Picks(ch, S), NEW F, TakesIn(F, S, V)
    PROVE  \E g : Folds(g, S, V, base, ch, F)
<1> USE DEF Picks, TakesIn
<1> DEFINE D(n) == {s \in SUBSET S : Cardinality(s) <= n}
           Rec(g, n) == \A s \in D(n) :
                 g[s] = IF s = {} THEN base ELSE F[<<ch[s], g[s \ {ch[s]}]>>]
           P == {n \in Nat : \E g \in [D(n) -> V] : Rec(g, n)}
<1>1. \A s \in SUBSET S : /\ IsFiniteSet(s) /\ Cardinality(s) \in Nat
                          /\ Cardinality(s) <= Cardinality(S)
                          /\ (Cardinality(s) = 0 <=> s = {})
  BY FS_Subset, FS_CardinalityType, FS_EmptySet
<1>2. \A s \in SUBSET S : s # {} => /\ ch[s] \in s /\ s \ {ch[s]} \in SUBSET S
                                    /\ Cardinality(s \ {ch[s]}) = Cardinality(s) - 1
  BY <1>1, FS_RemoveElement
<1>3. 0 \in P
  <2>1. D(0) = {{}}
    BY <1>1
  <2> DEFINE g == [s \in D(0) |-> base]
  <2>2. g \in [D(0) -> V] /\ Rec(g, 0)
    BY <2>1
  <2> QED BY <2>2
<1>4. ASSUME NEW n \in P PROVE n + 1 \in P
  <2>1. n \in Nat
    OBVIOUS
  <2>2. PICK h \in [D(n) -> V] : Rec(h, n)
    BY <1>4
  <2> DEFINE g == [s \in D(n + 1) |-> IF s \in D(n) THEN h[s]
                                      ELSE F[<<ch[s], h[s \ {ch[s]}]>>]]
  <2>3. {} \in D(n)
    BY <1>1, <2>1
  <2>4. \A s \in D(n + 1) : s # {} => ch[s] \in S /\ s \ {ch[s]} \in D(n)
    <3> SUFFICES ASSUME NEW s \in D(n + 1), s # {} PROVE ch[s] \in S /\ s \ {ch[s]} \in D(n)
        OBVIOUS
    <3> QED BY <1>1, <1>2, <2>1
  <2>5. \A s \in D(n) : s \in D(n + 1)
    BY <1>1, <2>1
  <2> HIDE DEF D
  <2>6. \A s \in D(n + 1) : g[s] \in V
    BY <2>2, <2>3, <2>4
  <2>7. \A s \in D(n) : g[s] = h[s]
    BY <2>5
  <2>8. Rec(g, n + 1)
    <3> SUFFICES ASSUME NEW s \in D(n + 1)
                 PROVE  g[s] = IF s = {} THEN base ELSE F[<<ch[s], g[s \ {ch[s]}]>>]
        OBVIOUS
    <3>1. CASE s = {}
      BY <2>2, <2>3, <2>7, <3>1
    <3>2. CASE s # {}
      <4>1. g[s \ {ch[s]}] = h[s \ {ch[s]}]
        BY <2>4, <2>7, <3>2
      <4>2. g[s] = F[<<ch[s], h[s \ {ch[s]}]>>]
        BY <2>2, <2>7, <3>2
      <4> QED BY <3>2, <4>1, <4>2
    <3> QED BY <3>1, <3>2
  <2>9. g \in [D(n + 1) -> V]
    BY <2>6
  <2> HIDE DEF g
  <2>10. \E k \in [D(n + 1) -> V] : Rec(k, n + 1)
    BY <2>8, <2>9
  <2> HIDE DEF Rec
  <2> QED BY <2>1, <2>10
<1>5. P = Nat
  <2> HIDE DEF P
  <2>1. P \in SUBSET Nat
    BY DEF P
  <2> QED BY <1>3, <1>4, <2>1, Induction
<1>6. Cardinality(S) \in Nat /\ D(Cardinality(S)) = SUBSET S
  BY <1>1, FS_CardinalityType
<1>7. PICK g \in [D(Cardinality(S)) -> V] : Rec(g, Cardinality(S))
  <2>1. Cardinality(S) \in P
    BY <1>5, <1>6
  <2> HIDE DEF D, Rec
  <2> QED BY <2>1
<1> QED BY <1>6, <1>7 DEF Folds

\* FoldLeft takes the last position in last.
Latest(n) == [s \in SUBSET (1..n) |-> Max(s)]

\* The elements at the first n positions of a sequence can be folded from the left.
LEMMA FoldLeftExists ==
    ASSUME NEW n \in Nat, NEW V, NEW base \in V, NEW F, TakesIn(F, 1..n, V)
    PROVE  \E g : Folds(g, 1..n, V, base, Latest(n), F)
<1>1. IsFiniteSet(1..n)
  BY FS_Interval
<1>2. Picks(Latest(n), 1..n)
  <2> SUFFICES ASSUME NEW s \in SUBSET (1..n), s # {} PROVE Max(s) \in s
      BY DEF Picks, Latest
  <2>1. s \in SUBSET (0..n)
    OBVIOUS
  <2> QED BY <2>1, MaxMember
<1> QED BY <1>1, <1>2, FoldExists

\* The last position of a prefix is the one that is folded in last.
LEMMA PrefixSteps ==
    ASSUME NEW n \in Nat, NEW k \in 1..n
    PROVE  /\ 1..k \in SUBSET (1..n) /\ 1..k # {} /\ 1..(k - 1) \in SUBSET (1..n)
           /\ Max(1..k) = k /\ (1..k) \ {k} = 1..(k - 1)
<1>1. k \in Nat \ {0} /\ k <= n
  OBVIOUS
<1>2. Max(1..k) = k
  BY <1>1, MaxInterval
<1>3. k \in 1..k /\ \A i \in 1..k : i \in 1..n
  BY <1>1
<1>4. \A i : i \in (1..k) \ {k} <=> i \in 1..(k - 1)
  BY <1>1
<1>5. \A i \in 1..(k - 1) : i \in 1..n
  BY <1>1
<1> QED BY <1>2, <1>3, <1>4, <1>5

-----------------------------------------------------------------------------
(* The version of the Cluster Observability Operator, and of an image *)

\* In a chain of replacements with one newest CSV, cooInstalledCSVVersion finds it.
LEMMA ChainEnds ==
    ASSUME NEW csvs \in Seq(CSVType), IsInjective(csvs), NEW extension,
           NEW installed, installed = {c \in ToSet(csvs) : ~c.copied /\ c.succeeded},
           NEW newest, newest = Max({c.version : c \in installed}),
           \A c \in installed : c.replaces < c.version,
           \A c \in installed :
              \/ c.version = newest
              \/ \E d \in installed : d.namespace = c.namespace /\ d.replaces = c.version,
           Cardinality({c \in installed : c.version = newest}) = 1
    PROVE  cooInstalledCSVVersion(csvs, extension) = newest
<1> DEFINE I == {i \in DOMAIN csvs : ~csvs[i].copied /\ csvs[i].succeeded}
           replaced == {<<csvs[i].namespace, csvs[i].replaces>> : i \in I}
           current == {i \in I : <<csvs[i].namespace, csvs[i].version>> \notin replaced}
           N == {c \in installed : c.version = newest}
<1>1. \A i \in DOMAIN csvs : csvs[i] \in CSVType
  OBVIOUS
<1>2. \A i \in I : csvs[i] \in installed
  BY DEF ToSet
<1>3. \A c \in installed : c \in CSVType /\ \E i \in I : csvs[i] = c
  BY <1>1 DEF ToSet
<1>4. PICK c0 : N = {c0}
  <2>1. IsFiniteSet(N)
    <3>1. IsFiniteSet(ToSet(csvs)) /\ N \in SUBSET ToSet(csvs)
      BY ElementsFinite
    <3> QED BY <3>1, FS_Subset
  <2> HIDE DEF N
  <2>2. Cardinality(N) = 1
    BY DEF N
  <2> QED BY <2>1, <2>2, FS_Singleton
<1>5. c0 \in installed /\ c0.version = newest /\ newest \in Nat
  <2>1. c0 \in N
    BY <1>4
  <2>2. c0 \in installed /\ c0.version = newest
    BY <2>1
  <2>3. c0 \in CSVType
    BY <1>3, <2>2
  <2> QED BY <2>2, <2>3 DEF CSVType
<1>6. \A c \in installed : c.version <= newest
  <2> DEFINE V == {c.version : c \in installed}
             f == [i \in 1..Len(csvs) |-> csvs[i].version]
  <2>1. f \in [1..Len(csvs) -> Nat] /\ Len(csvs) \in Nat
    BY <1>1 DEF CSVType
  <2> HIDE DEF f
  <2>2. PICK b \in Nat : \A i \in 1..Len(csvs) : f[i] <= b
    BY <2>1, SequenceBounded
  <2>3. \A i \in 1..Len(csvs) : csvs[i].version <= b
    BY <2>2 DEF f
  <2>4. \A c \in installed : c.version \in 0..b
    <3> SUFFICES ASSUME NEW c \in installed PROVE c.version \in 0..b
        OBVIOUS
    <3>1. PICK i \in DOMAIN csvs : csvs[i] = c
      BY <1>3
    <3>2. c.version \in Nat
      BY <1>3 DEF CSVType
    <3> QED BY <2>3, <3>1, <3>2
  <2>5. V \in SUBSET (0..b) /\ V # {}
    BY <1>5, <2>4
  <2>6. newest = Max(V)
    OBVIOUS
  <2>7. \A c \in installed : c.version \in V
    OBVIOUS
  <2> HIDE DEF V
  <2>8. \A x \in V : x <= newest
    BY <2>5, <2>6, MaxMember
  <2> QED BY <2>7, <2>8
<1>7. PICK i0 \in I : csvs[i0] = c0
  BY <1>3, <1>5
<1>8. i0 \in current
  <2> SUFFICES ASSUME NEW j \in I, csvs[j].replaces = newest PROVE FALSE
      BY <1>5, <1>7
  <2>1. csvs[j] \in installed /\ csvs[j] \in CSVType
    BY <1>1, <1>2
  <2>2. newest < csvs[j].version /\ csvs[j].version <= newest
    BY <1>6, <2>1
  <2> QED BY <1>5, <2>1, <2>2 DEF CSVType
<1>9. ASSUME NEW i \in current PROVE i = i0
  <2>1. csvs[i] \in installed /\ i \in DOMAIN csvs
    BY <1>2
  <2>2. csvs[i].version = newest
    <3> SUFFICES ASSUME csvs[i].version # newest PROVE FALSE
        OBVIOUS
    <3>1. PICK d \in installed : d.namespace = csvs[i].namespace /\ d.replaces = csvs[i].version
      BY <2>1
    <3>2. PICK j \in I : csvs[j] = d
      BY <1>3
    <3>3. <<csvs[i].namespace, csvs[i].version>> \in replaced
      BY <3>1, <3>2
    <3> QED BY <3>3
  <2>3. csvs[i] = c0
    BY <1>4, <2>1, <2>2
  <2> QED BY <1>7, <2>1, <2>3 DEF IsInjective
<1>10. current = {i0}
  <2> HIDE DEF current
  <2> QED BY <1>8, <1>9
<1>11. Cardinality(current) = 1 /\ (CHOOSE i \in current : TRUE) = i0
  <2> HIDE DEF current
  <2> QED BY <1>10, FS_Singleton
<1>12. cooInstalledCSVVersion(csvs, extension)
         = IF Cardinality(current) = 1 THEN csvs[CHOOSE i \in current : TRUE].version
           ELSE extension
  BY DEF cooInstalledCSVVersion
<1> HIDE DEF current
<1> QED BY <1>5, <1>7, <1>11, <1>12

\* The three comparisons of validatePromLabelProxyImageSupportsQueryParamOnly are
\* the order of versions.
LEMMA VersionOrder ==
    ASSUME NEW v \in [1..3 -> Nat]
    PROVE  (v[1] > 0 \/ v[2] > 16 \/ (v[2] = 16 /\ v[3] >= 2))
           <=> (\/ v = <<0, 16, 2>>
                \/ \E i \in 1..3 : /\ v[i] > <<0, 16, 2>>[i]
                                   /\ \A j \in 1..(i - 1) : v[j] = <<0, 16, 2>>[j])
<1> DEFINE min == <<0, 16, 2>>
<1>1. min[1] = 0 /\ min[2] = 16 /\ min[3] = 2 /\ min \in [1..3 -> Nat]
  OBVIOUS
<1>2. v = min <=> v[1] = 0 /\ v[2] = 16 /\ v[3] = 2
  <2>1. (\A i \in 1..3 : v[i] = min[i]) => v = min
    BY <1>1
  <2> QED BY <1>1, <2>1
<1> HIDE DEF min
<1>3. (\E i \in 1..3 : v[i] > min[i] /\ \A j \in 1..(i - 1) : v[j] = min[j])
      <=> \/ v[1] > 0
          \/ v[2] > 16 /\ v[1] = 0
          \/ v[3] > 2 /\ v[1] = 0 /\ v[2] = 16
  <2> DEFINE P(i) == v[i] > min[i] /\ \A j \in 1..(i - 1) : v[j] = min[j]
  <2>1. P(1) <=> v[1] > 0
    BY <1>1
  <2>2. P(2) <=> v[2] > 16 /\ v[1] = 0
    BY <1>1
  <2>3. P(3) <=> v[3] > 2 /\ v[1] = 0 /\ v[2] = 16
    BY <1>1
  <2> HIDE DEF P
  <2>4. (\E i \in 1..3 : P(i)) <=> P(1) \/ P(2) \/ P(3)
    OBVIOUS
  <2> QED BY <2>1, <2>2, <2>3, <2>4 DEF P
<1>4. v[1] \in Nat /\ v[2] \in Nat /\ v[3] \in Nat
  OBVIOUS
<1>5. (v[1] > 0 \/ v[2] > 16 \/ (v[2] = 16 /\ v[3] >= 2))
      <=> \/ v[1] = 0 /\ v[2] = 16 /\ v[3] = 2
          \/ v[1] > 0
          \/ v[2] > 16 /\ v[1] = 0
          \/ v[3] > 2 /\ v[1] = 0 /\ v[2] = 16
  BY <1>4
<1> QED BY <1>2, <1>3, <1>5 DEF min

-----------------------------------------------------------------------------
(* The size of a set of exporters *)

\* Finitely many exporters, each with a size.
Sized(es) == IsFiniteSet(es) /\ \A e \in es : e.bytes \in Nat

\* The recursion by which TotalBytes adds up.
Some(s) == CHOOSE x \in s : TRUE

BytesOf(es) ==
    CHOOSE sum : sum = [s \in SUBSET es |->
                          IF s = {} THEN 0 ELSE Some(s).bytes + sum[s \ {Some(s)}]]

\* TotalBytes is that recursion.
LEMMA TotalBytesOf == ASSUME NEW es PROVE TotalBytes(es) = BytesOf(es)[es]
BY DEF TotalBytes, MapThenSumSet, MapThenFoldSet, BytesOf, Some

\* Parts of a set of exporters are sets of exporters.
LEMMA SizedParts == ASSUME NEW es, Sized(es), NEW T \in SUBSET es PROVE Sized(T)
BY FS_Subset DEF Sized

\* The recursion is well-founded.
LEMMA BytesRecursion ==
    ASSUME NEW es, Sized(es)
    PROVE  \A s \in SUBSET es :
              /\ BytesOf(es)[s] = IF s = {} THEN 0
                                  ELSE Some(s).bytes + BytesOf(es)[s \ {Some(s)}]
              /\ BytesOf(es)[s] \in Nat
<1> DEFINE ch == [s \in SUBSET es |-> Some(s)]
           F == [p \in es \X Nat |-> p[1].bytes + p[2]]
           b == BytesOf(es)
<1>1. \A s \in SUBSET es : s # {} => Some(s) \in s
  BY DEF Some
<1>2. Picks(ch, es) /\ TakesIn(F, es, Nat)
  BY <1>1 DEF Picks, TakesIn, Sized
<1>3. \A x \in es : \A v \in Nat : F[<<x, v>>] = x.bytes + v
  OBVIOUS
<1>4. \A s \in SUBSET es : ch[s] = Some(s)
  OBVIOUS
<1> HIDE DEF ch, F
<1>5. PICK g : Folds(g, es, Nat, 0, ch, F)
  BY <1>2, FoldExists DEF Sized
<1>6. g \in [SUBSET es -> Nat]
  BY <1>5 DEF Folds
<1>7. ASSUME NEW s \in SUBSET es
      PROVE  g[s] = IF s = {} THEN 0 ELSE Some(s).bytes + g[s \ {Some(s)}]
  <2>1. g[s] = IF s = {} THEN 0 ELSE F[<<Some(s), g[s \ {Some(s)}]>>]
    BY <1>4, <1>5 DEF Folds
  <2>2. s # {} => Some(s) \in es /\ g[s \ {Some(s)}] \in Nat
    BY <1>1, <1>6
  <2> QED BY <1>3, <2>1, <2>2
<1>8. g = [s \in SUBSET es |-> IF s = {} THEN 0 ELSE Some(s).bytes + g[s \ {Some(s)}]]
  BY <1>6, <1>7
<1>9. b = [s \in SUBSET es |-> IF s = {} THEN 0 ELSE Some(s).bytes + b[s \ {Some(s)}]]
  BY <1>8 DEF BytesOf
<1> HIDE DEF b
<1>10. \A s \in SUBSET es : b[s] = IF s = {} THEN 0 ELSE Some(s).bytes + b[s \ {Some(s)}]
  BY <1>9
<1> DEFINE P == {s \in SUBSET es : b[s] \in Nat}
<1>11. ASSUME NEW T \in SUBSET es, \A U \in SUBSET T : U # T => U \in P PROVE T \in P
  <2>0. b[T] = IF T = {} THEN 0 ELSE Some(T).bytes + b[T \ {Some(T)}]
    BY <1>10
  <2>1. CASE T = {}
    <3>1. b[T] = 0
      BY <2>0, <2>1
    <3> QED BY <3>1
  <2>2. CASE T # {}
    <3>1. Some(T) \in T /\ Some(T).bytes \in Nat
      BY <1>1, <2>2 DEF Sized
    <3>2. b[T \ {Some(T)}] \in Nat
      BY <1>11, <3>1
    <3>3. b[T] = Some(T).bytes + b[T \ {Some(T)}]
      BY <2>0, <2>2
    <3>4. b[T] \in Nat
      BY <3>1, <3>2, <3>3
    <3> QED BY <3>4
  <2> QED BY <2>1, <2>2
<1>12. P = SUBSET es
  <2>1. P \in SUBSET (SUBSET es)
    OBVIOUS
  <2> HIDE DEF P
  <2> QED BY <1>11, <2>1, SubsetInduction DEF Sized
<1> QED BY <1>10, <1>12 DEF b

\* The sum over a part is the same wherever it is taken from.
LEMMA BytesAgree ==
    ASSUME NEW es, Sized(es), NEW T \in SUBSET es
    PROVE  TotalBytes(T) = BytesOf(es)[T]
<1> DEFINE P == {U \in SUBSET T : BytesOf(T)[U] = BytesOf(es)[U]}
<1>1. Sized(T)
  BY SizedParts
<1>2. ASSUME NEW S \in SUBSET T, \A U \in SUBSET S : U # S => U \in P PROVE S \in P
  <2>1. CASE S = {}
    BY <1>1, <2>1, BytesRecursion
  <2>2. CASE S # {}
    <3>1. Some(S) \in S
      BY <2>2 DEF Some
    <3>2. BytesOf(T)[S \ {Some(S)}] = BytesOf(es)[S \ {Some(S)}]
      BY <1>2, <3>1
    <3>3. BytesOf(T)[S] = Some(S).bytes + BytesOf(T)[S \ {Some(S)}]
      BY <1>1, <2>2, BytesRecursion
    <3>4. BytesOf(es)[S] = Some(S).bytes + BytesOf(es)[S \ {Some(S)}]
      BY <2>2, BytesRecursion
    <3> QED BY <3>2, <3>3, <3>4
  <2> QED BY <2>1, <2>2
<1>3. P = SUBSET T
  <2>1. P \in SUBSET (SUBSET T)
    OBVIOUS
  <2> HIDE DEF P
  <2> QED BY <1>1, <1>2, <2>1, SubsetInduction DEF Sized
<1>4. T \in P
  BY <1>3
<1> QED BY <1>4, TotalBytesOf

\* The total is a number, zero of no exporters, and takes any of them in first.
LEMMA TotalTypes ==
    ASSUME NEW es, Sized(es)
    PROVE  /\ TotalBytes(es) \in Nat
           /\ es = {} => TotalBytes(es) = 0
           /\ es # {} => TotalBytes(es) = Some(es).bytes + TotalBytes(es \ {Some(es)})
<1>1. \A T \in SUBSET es : TotalBytes(T) = BytesOf(es)[T]
  BY BytesAgree
<1>2. es \in SUBSET es /\ es \ {Some(es)} \in SUBSET es
  OBVIOUS
<1>3. /\ BytesOf(es)[es] = IF es = {} THEN 0
                           ELSE Some(es).bytes + BytesOf(es)[es \ {Some(es)}]
      /\ BytesOf(es)[es] \in Nat
  BY <1>2, BytesRecursion
<1>4. TotalBytes(es) = BytesOf(es)[es]
      /\ TotalBytes(es \ {Some(es)}) = BytesOf(es)[es \ {Some(es)}]
  BY <1>1, <1>2
<1> QED BY <1>3, <1>4

\* Any exporter can be taken out of the sum.
LEMMA TotalRemove ==
    ASSUME NEW es, Sized(es), NEW e \in es
    PROVE  TotalBytes(es) = e.bytes + TotalBytes(es \ {e})
<1> DEFINE P == {T \in SUBSET es : \A x \in T : TotalBytes(T) = x.bytes + TotalBytes(T \ {x})}
<1>1. ASSUME NEW T \in SUBSET es, \A U \in SUBSET T : U # T => U \in P PROVE T \in P
  <2> SUFFICES ASSUME NEW x \in T PROVE TotalBytes(T) = x.bytes + TotalBytes(T \ {x})
      OBVIOUS
  <2> DEFINE y == Some(T)
  <2>1. y \in T
    BY DEF Some
  <2>2. TotalBytes(T) = y.bytes + TotalBytes(T \ {y})
    BY SizedParts, TotalTypes
  <2> HIDE DEF y
  <2>3. CASE x = y
    BY <2>2, <2>3
  <2>4. CASE x # y
    <3>1. TotalBytes(T \ {y}) = x.bytes + TotalBytes((T \ {y}) \ {x})
      BY <1>1, <2>1, <2>4
    <3>2. TotalBytes(T \ {x}) = y.bytes + TotalBytes((T \ {x}) \ {y})
      BY <1>1, <2>1, <2>4
    <3>3. (T \ {x}) \ {y} = (T \ {y}) \ {x}
      OBVIOUS
    <3>4. x.bytes \in Nat /\ y.bytes \in Nat /\ TotalBytes((T \ {y}) \ {x}) \in Nat
      BY <2>1, SizedParts, TotalTypes DEF Sized
    <3> DEFINE r == TotalBytes((T \ {y}) \ {x})
    <3>5. /\ TotalBytes(T) = y.bytes + TotalBytes(T \ {y})
          /\ TotalBytes(T \ {y}) = x.bytes + r
          /\ TotalBytes(T \ {x}) = y.bytes + r
          /\ x.bytes \in Nat /\ y.bytes \in Nat /\ r \in Nat
      BY <2>2, <3>1, <3>2, <3>3, <3>4
    <3> HIDE DEF r
    <3> QED BY <3>5
  <2> QED BY <2>3, <2>4
<1>2. P \in SUBSET (SUBSET es)
  OBVIOUS
<1> HIDE DEF P
<1>3. P = SUBSET es
  BY <1>1, <1>2, SubsetInduction DEF Sized
<1> QED BY <1>3 DEF P

\* A part is no larger than the whole.
LEMMA TotalMonotone ==
    ASSUME NEW es, Sized(es), NEW T \in SUBSET es
    PROVE  TotalBytes(T) <= TotalBytes(es)
<1> DEFINE P == {U \in SUBSET es : T \subseteq U => TotalBytes(T) <= TotalBytes(U)}
<1>1. ASSUME NEW S \in SUBSET es, \A U \in SUBSET S : U # S => U \in P PROVE S \in P
  <2> SUFFICES ASSUME T \subseteq S PROVE TotalBytes(T) <= TotalBytes(S)
      OBVIOUS
  <2>0. TotalBytes(T) \in Nat /\ TotalBytes(S) \in Nat
    BY SizedParts, TotalTypes
  <2>1. CASE S = T
    BY <2>0, <2>1
  <2>2. CASE S # T
    <3>1. PICK x \in S : x \notin T
      BY <2>2
    <3>2. TotalBytes(T) <= TotalBytes(S \ {x})
      BY <1>1, <3>1
    <3>3. TotalBytes(S) = x.bytes + TotalBytes(S \ {x})
      BY SizedParts, TotalRemove
    <3>4. x.bytes \in Nat /\ TotalBytes(S \ {x}) \in Nat
      BY SizedParts, TotalTypes DEF Sized
    <3> QED BY <2>0, <3>2, <3>3, <3>4
  <2> QED BY <2>1, <2>2
<1>2. P \in SUBSET (SUBSET es)
  OBVIOUS
<1> HIDE DEF P
<1>3. P = SUBSET es
  BY <1>1, <1>2, SubsetInduction DEF Sized
<1> QED BY <1>3 DEF P

-----------------------------------------------------------------------------
(* Curves in order of preference *)

Usable(fips) == IF fips THEN fipsApprovedProxyCurveIDs ELSE proxyCurveIDs

\* One turn of the loop of filterProxyCurvePreferences.
Keep(kept, c, fips) ==
    IF c \notin Usable(fips) \/ c \in ToSet(kept) THEN kept ELSE Append(kept, c)

\* What it keeps of the curves at given positions.
KeptOf(curves, fips) ==
    CHOOSE it : it = [s \in SUBSET DOMAIN curves |->
                        IF s = {} THEN <<>>
                        ELSE Keep(it[s \ {Max(s)}], curves[Max(s)], fips)]

\* filterProxyCurvePreferences is that loop.
LEMMA FilterLoop ==
    ASSUME NEW curves, NEW fips
    PROVE  filterProxyCurvePreferences(curves, fips) = KeptOf(curves, fips)[DOMAIN curves]
BY DEF filterProxyCurvePreferences, FoldLeft, MapThenFoldSet, KeptOf, Keep, Usable

\* The loop keeps sequences of curves.
LEMMA KeepType ==
    ASSUME NEW kept \in Seq(Nat), NEW c \in Nat, NEW fips
    PROVE  Keep(kept, c, fips) \in Seq(Nat)
BY DEF Keep

\* The loop takes the curves from first to last.
LEMMA FilterTurns ==
    ASSUME NEW curves \in Seq(Nat), NEW fips
    PROVE  /\ KeptOf(curves, fips)[1..0] = <<>>
           /\ \A k \in 1..Len(curves) :
                 KeptOf(curves, fips)[1..k]
                   = Keep(KeptOf(curves, fips)[1..(k - 1)], curves[k], fips)
<1> DEFINE n == Len(curves)
           F == [p \in (1..n) \X Seq(Nat) |-> Keep(p[2], curves[p[1]], fips)]
           K == KeptOf(curves, fips)
<1>1. n \in Nat /\ DOMAIN curves = 1..n /\ \A i \in 1..n : curves[i] \in Nat
  OBVIOUS
<1>2. \A i \in 1..n : \A v \in Seq(Nat) : F[<<i, v>>] = Keep(v, curves[i], fips)
  OBVIOUS
<1>3. TakesIn(F, 1..n, Seq(Nat)) /\ <<>> \in Seq(Nat)
  BY <1>1, <1>2, KeepType DEF TakesIn
<1> HIDE DEF n, F
<1>4. PICK g : Folds(g, 1..n, Seq(Nat), <<>>, Latest(n), F)
  BY <1>1, <1>3, FoldLeftExists
<1>5. g \in [SUBSET (1..n) -> Seq(Nat)]
  BY <1>4 DEF Folds
<1>6. ASSUME NEW s \in SUBSET (1..n)
      PROVE  g[s] = IF s = {} THEN <<>> ELSE Keep(g[s \ {Max(s)}], curves[Max(s)], fips)
  <2>1. g[s] = IF s = {} THEN <<>> ELSE F[<<Max(s), g[s \ {Max(s)}]>>]
    BY <1>4 DEF Folds, Latest
  <2>2. s # {} => Max(s) \in 1..n /\ g[s \ {Max(s)}] \in Seq(Nat)
    <3>1. s \in SUBSET (0..n)
      BY <1>1
    <3>2. s # {} => Max(s) \in s
      BY <1>1, <3>1, MaxMember
    <3> QED BY <1>5, <3>2
  <2> QED BY <1>2, <2>1, <2>2
<1>7. g = [s \in SUBSET DOMAIN curves |->
             IF s = {} THEN <<>> ELSE Keep(g[s \ {Max(s)}], curves[Max(s)], fips)]
  BY <1>1, <1>5, <1>6
<1>8. K = [s \in SUBSET DOMAIN curves |->
             IF s = {} THEN <<>> ELSE Keep(K[s \ {Max(s)}], curves[Max(s)], fips)]
  BY <1>7 DEF KeptOf
<1> HIDE DEF K
<1>9. \A s \in SUBSET (1..n) :
         K[s] = IF s = {} THEN <<>> ELSE Keep(K[s \ {Max(s)}], curves[Max(s)], fips)
  BY <1>1, <1>8
<1>10. K[1..0] = <<>>
  <2>1. 1..0 = {}
    OBVIOUS
  <2> QED BY <1>9, <2>1
<1>11. ASSUME NEW k \in 1..n PROVE K[1..k] = Keep(K[1..(k - 1)], curves[k], fips)
  BY <1>1, <1>9, PrefixSteps
<1> QED BY <1>10, <1>11 DEF K, n

\* Where a curve occurs first.
First(curves, c) == Min({i \in DOMAIN curves : curves[i] = c})

\* The loop has kept the usable ones of the first k curves, in their order.
KeptWell(kept, curves, fips, k) ==
    /\ kept \in Seq(Nat)
    /\ \A c : c \in ToSet(kept) <=> c \in Usable(fips) /\ \E i \in 1..k : curves[i] = c
    /\ \A i, j \in DOMAIN kept : i < j => First(curves, kept[i]) < First(curves, kept[j])

\* A curve that occurs has a first position.
LEMMA FirstPosition ==
    ASSUME NEW curves \in Seq(Nat), NEW i \in DOMAIN curves
    PROVE  /\ First(curves, curves[i]) \in DOMAIN curves
           /\ curves[First(curves, curves[i])] = curves[i]
           /\ First(curves, curves[i]) <= i
<1> DEFINE S == {j \in DOMAIN curves : curves[j] = curves[i]}
<1>1. S \in SUBSET Nat /\ S # {} /\ i \in S
  OBVIOUS
<1>2. First(curves, curves[i]) = Min(S)
  BY DEF First
<1>3. \A j \in S : j \in DOMAIN curves /\ curves[j] = curves[i]
  OBVIOUS
<1> HIDE DEF S
<1>4. Min(S) \in S /\ Min(S) <= i
  BY <1>1, MinMember
<1> QED BY <1>2, <1>3, <1>4

\* A turn of the loop keeps that up.
LEMMA KeptTurn ==
    ASSUME NEW curves \in Seq(Nat), NEW fips, NEW k \in 1..Len(curves), NEW kept,
           KeptWell(kept, curves, fips, k - 1)
    PROVE  KeptWell(Keep(kept, curves[k], fips), curves, fips, k)
<1> DEFINE c == curves[k]
           new == Keep(kept, c, fips)
<1>1. kept \in Seq(Nat) /\ c \in Nat /\ k \in DOMAIN curves /\ new \in Seq(Nat)
  BY KeepType DEF KeptWell
<1>2. \A x : (\E i \in 1..k : curves[i] = x) <=> x = c \/ \E i \in 1..(k - 1) : curves[i] = x
  <2>1. \A i : i \in 1..k <=> i = k \/ i \in 1..(k - 1)
    OBVIOUS
  <2> QED BY <2>1
<1>3. \A x : x \in ToSet(kept) <=> x \in Usable(fips) /\ \E i \in 1..(k - 1) : curves[i] = x
  BY DEF KeptWell
<1>4. CASE c \notin Usable(fips) \/ c \in ToSet(kept)
  <2>1. new = kept
    BY <1>4 DEF Keep
  <2>2. \A x : x \in ToSet(kept) <=> x \in Usable(fips) /\ \E i \in 1..k : curves[i] = x
    BY <1>2, <1>3, <1>4
  <2> QED BY <2>1, <2>2 DEF KeptWell
<1>5. CASE c \in Usable(fips) /\ c \notin ToSet(kept)
  <2>1. new = Append(kept, c)
    BY <1>5 DEF Keep
  <2>2. /\ DOMAIN new = 1..(Len(kept) + 1) /\ new[Len(kept) + 1] = c
        /\ \A i \in 1..Len(kept) : new[i] = kept[i]
        /\ DOMAIN kept = 1..Len(kept) /\ Len(kept) \in Nat
    BY <1>1, <2>1
  <2>3. ToSet(new) = ToSet(kept) \cup {c}
    <3> HIDE DEF new, c
    <3> QED BY <2>2 DEF ToSet
  <2>4. \A x : x \in ToSet(new) <=> x \in Usable(fips) /\ \E i \in 1..k : curves[i] = x
    BY <1>2, <1>3, <1>5, <2>3
  <2>5. First(curves, c) = k
    <3>1. /\ First(curves, c) \in DOMAIN curves /\ curves[First(curves, c)] = c
          /\ First(curves, c) <= k
      BY <1>1, FirstPosition
    <3>2. First(curves, c) \notin 1..(k - 1)
      BY <1>3, <1>5, <3>1
    <3> QED BY <3>1, <3>2
  <2>6. ASSUME NEW i \in DOMAIN kept PROVE First(curves, kept[i]) < k
    <3>1. kept[i] \in ToSet(kept)
      BY DEF ToSet
    <3>2. PICK j \in 1..(k - 1) : curves[j] = kept[i]
      BY <1>3, <3>1
    <3>3. j \in DOMAIN curves
      OBVIOUS
    <3>4. First(curves, kept[i]) \in DOMAIN curves /\ First(curves, kept[i]) <= j
      BY <3>2, <3>3, FirstPosition
    <3> QED BY <3>4
  <2>7. ASSUME NEW i \in DOMAIN new, NEW j \in DOMAIN new, i < j
        PROVE  First(curves, new[i]) < First(curves, new[j])
    <3>1. i \in DOMAIN kept /\ new[i] = kept[i]
      BY <2>2, <2>7
    <3>2. CASE j \in DOMAIN kept
      BY <2>2, <2>7, <3>1, <3>2 DEF KeptWell
    <3>3. CASE j \notin DOMAIN kept
      <4>1. new[j] = c
        BY <2>2, <3>3
      <4> QED BY <2>5, <2>6, <3>1, <4>1
    <3> QED BY <3>2, <3>3
  <2> HIDE DEF new, c
  <2> QED BY <1>1, <2>4, <2>7 DEF KeptWell, new, c
<1> QED BY <1>4, <1>5

\* filterProxyCurvePreferences keeps the usable curves, in their order.
LEMMA CurvesKept ==
    ASSUME NEW curves \in Seq(Nat), NEW fips
    PROVE  KeptWell(filterProxyCurvePreferences(curves, fips), curves, fips, Len(curves))
<1> DEFINE K == KeptOf(curves, fips)
           P == {k \in Nat : k <= Len(curves) => KeptWell(K[1..k], curves, fips, k)}
<1>1. /\ K[1..0] = <<>>
      /\ \A k \in 1..Len(curves) : K[1..k] = Keep(K[1..(k - 1)], curves[k], fips)
  BY FilterTurns
<1>2. Len(curves) \in Nat /\ DOMAIN curves = 1..Len(curves)
  OBVIOUS
<1> HIDE DEF K
<1>3. 0 \in P
  <2>1. KeptWell(<<>>, curves, fips, 0)
    BY DEF KeptWell, ToSet
  <2> QED BY <1>1, <2>1
<1>4. ASSUME NEW k \in P PROVE k + 1 \in P
  <2> SUFFICES ASSUME k + 1 <= Len(curves) PROVE KeptWell(K[1..(k + 1)], curves, fips, k + 1)
      OBVIOUS
  <2>1. k \in Nat /\ k + 1 \in 1..Len(curves) /\ (k + 1) - 1 = k /\ k <= Len(curves)
    BY <1>2
  <2>2. KeptWell(K[1..k], curves, fips, k)
    BY <2>1
  <2>3. K[1..(k + 1)] = Keep(K[1..k], curves[k + 1], fips)
    BY <1>1, <2>1
  <2>4. KeptWell(K[1..k], curves, fips, (k + 1) - 1)
    BY <2>1, <2>2
  <2>5. KeptWell(Keep(K[1..k], curves[k + 1], fips), curves, fips, k + 1)
    BY <2>1, <2>4, KeptTurn
  <2> QED BY <2>3, <2>5
<1>5. P \in SUBSET Nat
  OBVIOUS
<1> HIDE DEF P
<1>6. Len(curves) \in P
  BY <1>2, <1>3, <1>4, <1>5, Induction
<1>7. KeptWell(K[1..Len(curves)], curves, fips, Len(curves))
  BY <1>2, <1>6 DEF P
<1> QED BY <1>2, <1>7, FilterLoop DEF K

-----------------------------------------------------------------------------
(* One key for one place *)

\* The segments that go, and the one that takes another one with it.
Blank == {"", "."}
Up == ".."

\* What Clean does with a segment.
Segment(done, seg) ==
    IF seg \in Blank THEN done
    ELSE IF seg = Up THEN (IF done = <<>> THEN done ELSE Front(done))
    ELSE Append(done, seg)

\* What it makes of the segments at given positions.
CleanedOf(path) ==
    CHOOSE it : it = [s \in SUBSET DOMAIN path |->
                        IF s = {} THEN <<>> ELSE Segment(it[s \ {Max(s)}], path[Max(s)])]

\* Clean goes through the segments like that.
LEMMA CleanLoop == ASSUME NEW path PROVE Clean(path) = CleanedOf(path)[DOMAIN path]
BY DEF Clean, FoldLeft, MapThenFoldSet, CleanedOf, Segment, Blank, Up

\* Clean makes paths of paths.
LEMMA SegmentType ==
    ASSUME NEW V, NEW done \in Seq(V), NEW seg \in V
    PROVE  Segment(done, seg) \in Seq(V)
<1>1. done # <<>> => Front(done) \in Seq(V)
  BY DEF Front
<1> QED BY <1>1 DEF Segment

\* Clean takes the segments from first to last.
LEMMA CleanTurns ==
    ASSUME NEW V, NEW path \in Seq(V)
    PROVE  /\ CleanedOf(path)[1..0] = <<>>
           /\ \A k \in 1..Len(path) :
                 CleanedOf(path)[1..k] = Segment(CleanedOf(path)[1..(k - 1)], path[k])
<1> DEFINE n == Len(path)
           F == [p \in (1..n) \X Seq(V) |-> Segment(p[2], path[p[1]])]
           C == CleanedOf(path)
<1>1. n \in Nat /\ DOMAIN path = 1..n /\ \A i \in 1..n : path[i] \in V
  OBVIOUS
<1>2. \A i \in 1..n : \A v \in Seq(V) : F[<<i, v>>] = Segment(v, path[i])
  OBVIOUS
<1>3. TakesIn(F, 1..n, Seq(V)) /\ <<>> \in Seq(V)
  <2>1. \A i \in 1..n : \A v \in Seq(V) : Segment(v, path[i]) \in Seq(V)
    BY <1>1, SegmentType
  <2>2. <<>> \in Seq(V)
    OBVIOUS
  <2> HIDE DEF F
  <2> QED BY <1>2, <2>1, <2>2 DEF TakesIn
<1> HIDE DEF n, F
<1>4. PICK g : Folds(g, 1..n, Seq(V), <<>>, Latest(n), F)
  BY <1>1, <1>3, FoldLeftExists
<1>5. g \in [SUBSET (1..n) -> Seq(V)]
  BY <1>4 DEF Folds
<1>6. ASSUME NEW s \in SUBSET (1..n)
      PROVE  g[s] = IF s = {} THEN <<>> ELSE Segment(g[s \ {Max(s)}], path[Max(s)])
  <2>1. g[s] = IF s = {} THEN <<>> ELSE F[<<Max(s), g[s \ {Max(s)}]>>]
    BY <1>4 DEF Folds, Latest
  <2>2. s # {} => Max(s) \in 1..n /\ g[s \ {Max(s)}] \in Seq(V)
    <3>1. s \in SUBSET (0..n)
      BY <1>1
    <3>2. s # {} => Max(s) \in s
      BY <1>1, <3>1, MaxMember
    <3> QED BY <1>5, <3>2
  <2> QED BY <1>2, <2>1, <2>2
<1>7. g = [s \in SUBSET DOMAIN path |->
             IF s = {} THEN <<>> ELSE Segment(g[s \ {Max(s)}], path[Max(s)])]
  BY <1>1, <1>5, <1>6
<1>8. C = [s \in SUBSET DOMAIN path |->
             IF s = {} THEN <<>> ELSE Segment(C[s \ {Max(s)}], path[Max(s)])]
  BY <1>7 DEF CleanedOf
<1> HIDE DEF C
<1>9. \A s \in SUBSET (1..n) :
         C[s] = IF s = {} THEN <<>> ELSE Segment(C[s \ {Max(s)}], path[Max(s)])
  BY <1>1, <1>8
<1>10. C[1..0] = <<>>
  <2>1. 1..0 = {}
    OBVIOUS
  <2> QED BY <1>9, <2>1
<1>11. ASSUME NEW k \in 1..n PROVE C[1..k] = Segment(C[1..(k - 1)], path[k])
  BY <1>1, <1>9, PrefixSteps
<1> QED BY <1>10, <1>11 DEF C, n

\* Segments that cancel out: none, or blank ones and one that is taken back.
Cancels(noise, V) ==
    \/ noise = <<>>
    \/ \E a, b \in Blank, c \in V \ (Blank \cup {Up}) : noise = <<a, b, c, Up>>

\* Four segments in front of others.
LEMMA FourAhead ==
    ASSUME NEW V, NEW a \in V, NEW b \in V, NEW c \in V, NEW d \in V, NEW q \in Seq(V)
    PROVE  LET p == <<a, b, c, d>> \o q
           IN  /\ <<a, b, c, d>> \in Seq(V) /\ Len(<<a, b, c, d>>) = 4
               /\ p[1] = a /\ p[2] = b /\ p[3] = c /\ p[4] = d
<1>1. <<a, b, c, d>> \in Seq(V) /\ Len(<<a, b, c, d>>) = 4
  OBVIOUS
<1> DEFINE p == <<a, b, c, d>> \o q
<1>2. p[1] = a /\ p[2] = b
  BY <1>1
<1>3. p[3] = c /\ p[4] = d
  BY <1>1
<1> QED BY <1>1, <1>2, <1>3

\* A path behind another one.
LEMMA Behind ==
    ASSUME NEW V, NEW p \in Seq(V), NEW q \in Seq(V)
    PROVE  /\ p \o q \in Seq(V) /\ Len(p \o q) = Len(p) + Len(q)
           /\ Len(p) \in Nat /\ Len(q) \in Nat /\ DOMAIN (p \o q) = 1..(Len(p) + Len(q))
           /\ \A k \in 1..Len(q) : (p \o q)[Len(p) + k] = q[k]
OBVIOUS

\* The parts of a path up to a segment.
LEMMA UpTo ==
    ASSUME NEW V, NEW p \in Seq(V)
    PROVE  /\ SubSeq(p, 1, 0) = <<>> /\ SubSeq(p, 1, Len(p)) = p
           /\ \A k \in Nat : k + 1 <= Len(p) =>
                 Append(SubSeq(p, 1, k), p[k + 1]) = SubSeq(p, 1, k + 1)
<1>1. SubSeq(p, 1, 0) = <<>> /\ SubSeq(p, 1, Len(p)) = p
  OBVIOUS
<1>2. ASSUME NEW k \in Nat, k + 1 <= Len(p)
      PROVE  Append(SubSeq(p, 1, k), p[k + 1]) = SubSeq(p, 1, k + 1)
  BY <1>2
<1> QED BY <1>1, <1>2

\* Segments that cancel out come to nothing in front of a path.
LEMMA NoiseGone ==
    ASSUME NEW V, Blank \cup {Up} \subseteq V, NEW noise, Cancels(noise, V), NEW prefix \in Seq(V)
    PROVE  noise \in Seq(V) /\ CleanedOf(noise \o prefix)[1..Len(noise)] = <<>>
<1> DEFINE path == noise \o prefix
           C == CleanedOf(path)
<1>1. CASE noise = <<>>
  <2>1. Len(noise) = 0 /\ noise \in Seq(V)
    BY <1>1
  <2>2. path \in Seq(V)
    BY <2>1, Behind
  <2> HIDE DEF path
  <2>3. C[1..0] = <<>>
    BY <2>2, CleanTurns
  <2> QED BY <2>1, <2>3 DEF path
<1>2. CASE \E a, b \in Blank, c \in V \ (Blank \cup {Up}) : noise = <<a, b, c, Up>>
  <2>1. PICK a \in Blank, b \in Blank, c \in V \ (Blank \cup {Up}) : noise = <<a, b, c, Up>>
    BY <1>2
  <2>2. a \in V /\ b \in V /\ c \in V /\ Up \in V
    OBVIOUS
  <2>3. /\ noise \in Seq(V) /\ Len(noise) = 4
        /\ path[1] = a /\ path[2] = b /\ path[3] = c /\ path[4] = Up
    BY <2>1, <2>2, FourAhead
  <2>4. path \in Seq(V) /\ Len(path) = 4 + Len(prefix) /\ Len(prefix) \in Nat
    <3>1. noise \in Seq(V) /\ Len(noise) = 4
      BY <2>3
    <3>2. /\ noise \o prefix \in Seq(V) /\ Len(noise \o prefix) = Len(noise) + Len(prefix)
          /\ Len(prefix) \in Nat
      BY <3>1, Behind
    <3> QED BY <3>1, <3>2
  <2> HIDE DEF path
  <2>5. /\ C[1..0] = <<>>
        /\ \A k \in 1..Len(path) : C[1..k] = Segment(C[1..(k - 1)], path[k])
    BY <2>4, CleanTurns
  <2> HIDE DEF C
  <2>6. 1 \in 1..Len(path) /\ 2 \in 1..Len(path) /\ 3 \in 1..Len(path) /\ 4 \in 1..Len(path)
    BY <2>4
  <2>7. /\ C[1..1] = Segment(C[1..0], a) /\ C[1..2] = Segment(C[1..1], b)
        /\ C[1..3] = Segment(C[1..2], c) /\ C[1..4] = Segment(C[1..3], Up)
    <3>1. 1 - 1 = 0 /\ 2 - 1 = 1 /\ 3 - 1 = 2 /\ 4 - 1 = 3
      OBVIOUS
    <3>2. C[1..1] = Segment(C[1..(1 - 1)], path[1]) /\ C[1..2] = Segment(C[1..(2 - 1)], path[2])
      BY <2>5, <2>6
    <3>3. C[1..3] = Segment(C[1..(3 - 1)], path[3]) /\ C[1..4] = Segment(C[1..(4 - 1)], path[4])
      BY <2>5, <2>6
    <3> QED BY <2>3, <3>1, <3>2, <3>3
  <2>8. C[1..2] = <<>>
    BY <2>5, <2>7 DEF Segment
  <2>9. C[1..3] = <<c>>
    <3>1. c \notin Blank /\ c # Up
      OBVIOUS
    <3>2. Segment(<<>>, c) = Append(<<>>, c)
      BY <3>1 DEF Segment
    <3>3. Append(<<>>, c) = <<c>>
      OBVIOUS
    <3> QED BY <2>7, <2>8, <3>2, <3>3
  <2>10. Front(<<c>>) = <<>> /\ <<c>> # <<>>
    BY DEF Front
  <2>11. Up \notin Blank
    BY DEF Up, Blank
  <2>12. C[1..4] = <<>>
    BY <2>7, <2>9, <2>10, <2>11 DEF Segment
  <2> QED BY <2>3, <2>12 DEF C, path
<1> QED BY <1>1, <1>2 DEF Cancels

\* Behind it, Clean takes a path over that has no segments to drop.
LEMMA CleanNoise ==
    ASSUME NEW V, Blank \cup {Up} \subseteq V, NEW noise, Cancels(noise, V), NEW prefix \in Seq(V),
           \A i \in DOMAIN prefix : prefix[i] \notin Blank \cup {Up}
    PROVE  Clean(noise \o prefix) = prefix
<1> DEFINE path == noise \o prefix
           m == Len(noise)
           n == Len(prefix)
           C == CleanedOf(path)
           P == {k \in Nat : k <= n => C[1..(m + k)] = SubSeq(prefix, 1, k)}
<1>1. /\ path \in Seq(V) /\ Len(path) = m + n
      /\ m \in Nat /\ n \in Nat /\ DOMAIN path = 1..(m + n)
      /\ \A k \in 1..n : path[m + k] = prefix[k]
  <2>1. noise \in Seq(V)
    BY NoiseGone
  <2> QED BY <2>1, Behind
<1>2. C[1..m] = <<>>
  BY NoiseGone
<1> HIDE DEF path
<1>3. \A k \in 1..Len(path) : C[1..k] = Segment(C[1..(k - 1)], path[k])
  BY <1>1, CleanTurns
<1>4. Clean(path) = C[1..(m + n)]
  BY <1>1, CleanLoop
<1>5. \A k \in 1..n : prefix[k] \notin Blank \cup {Up}
  OBVIOUS
<1> HIDE DEF m, n, C
<1>6. 0 \in P
  <2>1. SubSeq(prefix, 1, 0) = <<>>
    BY UpTo
  <2>2. m + 0 = m
    BY <1>1
  <2> QED BY <1>2, <2>1, <2>2
<1>7. ASSUME NEW k \in P PROVE k + 1 \in P
  <2>0. k \in Nat /\ k + 1 \in Nat
    OBVIOUS
  <2> SUFFICES ASSUME k + 1 <= n PROVE C[1..(m + (k + 1))] = SubSeq(prefix, 1, k + 1)
      BY <2>0
  <2>1. /\ k <= n /\ k + 1 \in 1..n
        /\ m + (k + 1) \in 1..Len(path) /\ (m + (k + 1)) - 1 = m + k
    BY <1>1, <2>0
  <2>2. C[1..(m + k)] = SubSeq(prefix, 1, k)
    BY <2>1
  <2>3. C[1..(m + (k + 1))] = Segment(SubSeq(prefix, 1, k), prefix[k + 1])
    <3>1. C[1..(m + (k + 1))] = Segment(C[1..((m + (k + 1)) - 1)], path[m + (k + 1)])
      BY <1>3, <2>1
    <3>2. path[m + (k + 1)] = prefix[k + 1]
      BY <1>1, <2>1
    <3> QED BY <2>1, <2>2, <3>1, <3>2
  <2>4. Segment(SubSeq(prefix, 1, k), prefix[k + 1]) = Append(SubSeq(prefix, 1, k), prefix[k + 1])
    BY <1>5, <2>1 DEF Segment
  <2>5. Append(SubSeq(prefix, 1, k), prefix[k + 1]) = SubSeq(prefix, 1, k + 1)
    BY <2>0, UpTo DEF n
  <2> QED BY <2>3, <2>4, <2>5
<1>8. P \in SUBSET Nat
  OBVIOUS
<1> HIDE DEF P
<1>9. n \in P
  BY <1>1, <1>6, <1>7, <1>8, Induction
<1>10. C[1..(m + n)] = SubSeq(prefix, 1, n)
  BY <1>1, <1>9 DEF P
<1>11. SubSeq(prefix, 1, n) = prefix
  BY UpTo DEF n
<1> QED BY <1>4, <1>10, <1>11 DEF path

\* The key of a place.
KeyOf(loc) ==
    [kind |-> "key", host |-> loc.host, port |-> loc.port, prefix |-> loc.prefix,
     bucket |-> loc.bucket]

\* A default port, and no port, leave no trace in a key.
LEMMA PortKey ==
    ASSUME NEW port, port \notin DefaultPorts, NEW style \in {"omitted", "80", "443"}
    PROVE  LET p == IF port # NoPort THEN port ELSE IF style = "omitted" THEN NoPort ELSE style
           IN  (IF p \in DefaultPorts THEN NoPort ELSE p) = port
<1>1. "80" \in DefaultPorts /\ "443" \in DefaultPorts
  BY DEF DefaultPorts
<1> QED BY <1>1

\* The case of labels leaves no trace.
LEMMA CaseKey ==
    ASSUME NEW V, NEW names \in Seq(V), NEW upper
    PROVE  LET labels == [i \in DOMAIN names |-> Label(names[i], upper)]
           IN  [i \in DOMAIN labels |-> Lower(labels[i])] = names
<1> DEFINE labels == [i \in DOMAIN names |-> Label(names[i], upper)]
<1>1. DOMAIN labels = DOMAIN names
  OBVIOUS
<1>2. \A i \in DOMAIN names : Lower(labels[i]) = names[i]
  BY DEF Lower, Label
<1>3. [i \in DOMAIN names |-> names[i]] = names
  OBVIOUS
<1> HIDE DEF labels
<1>4. [i \in DOMAIN labels |-> Lower(labels[i])] = [i \in DOMAIN names |-> names[i]]
  BY <1>1, <1>2
<1> QED BY <1>3, <1>4 DEF labels

\* A bucket in front of the host leaves no trace.
LEMMA BucketKey ==
    ASSUME NEW V, NEW host \in Seq(V), host # <<>>, NEW bucket \in V, Head(host) # bucket
    PROVE  /\ WithoutBucket(host, bucket) = host
           /\ <<bucket>> \o host \in Seq(V)
           /\ WithoutBucket(<<bucket>> \o host, bucket) = host
<1>1. WithoutBucket(host, bucket) = host
  BY DEF WithoutBucket
<1> DEFINE both == <<bucket>> \o host
<1>2. both \in Seq(V) /\ Len(both) = 1 + Len(host) /\ Len(host) \in Nat /\ Len(host) > 0
  OBVIOUS
<1>3. Head(both) = bucket
  BY <1>2
<1>4. Tail(both) = host
  BY <1>2
<1> HIDE DEF both
<1>5. Len(both) > 1
  BY <1>2
<1>6. WithoutBucket(both, bucket) = host
  BY <1>3, <1>4, <1>5 DEF WithoutBucket
<1> QED BY <1>1, <1>2, <1>6 DEF both

\* The noise of a style cancels out.
LEMMA NoiseCancels ==
    ASSUME NEW V, STRING \cup Blank \cup {Up, "x"} \subseteq V, NEW noise,
           noise \in {<<>>, <<"", ".", "x", "..">>}
    PROVE  Cancels(noise, V)
<1> DEFINE a == ""
           b == "."
           c == "x"
<1>1. a \in Blank /\ b \in Blank
  BY DEF Blank
<1>2. c \notin Blank /\ c # Up
  BY DEF Blank, Up
<1>3. noise = <<>> \/ noise = <<a, b, c, Up>>
  BY DEF Up
<1>4. c \in V
  OBVIOUS
<1> HIDE DEF a, b, c
<1> QED BY <1>1, <1>2, <1>3, <1>4 DEF Cancels

\* A path over some names is one over more names.
LEMMA WiderPath == ASSUME NEW V, NEW W, V \subseteq W, NEW p \in Seq(V) PROVE p \in Seq(W)
OBVIOUS

\* The parts of a place.
PlaceType == [host : Seq(STRING), port : STRING, prefix : Seq(STRING), bucket : STRING]

\* A place has these parts.
LEMMA PlaceParts ==
    ASSUME NEW loc, IsPlace(loc)
    PROVE  /\ loc \in PlaceType /\ loc # Nowhere
           /\ loc.host # <<>> /\ loc.port \notin DefaultPorts
           /\ \A i \in DOMAIN loc.prefix : loc.prefix[i] \notin Blank \cup {Up}
<1>1. loc \in PlaceType /\ loc.host # <<>> /\ loc.port \notin DefaultPorts
  BY DEF IsPlace, PlaceType
<1>2. \A i \in DOMAIN loc.prefix : loc.prefix[i] \notin {"", ".", ".."}
  BY DEF IsPlace
<1>3. Blank \cup {Up} = {"", ".", ".."}
  BY DEF Blank, Up
<1>4. \A i \in DOMAIN loc.prefix : loc.prefix[i] \notin Blank \cup {Up}
  BY <1>2, <1>3
<1>5. Nowhere.host = <<>>
  BY DEF Nowhere
<1> QED BY <1>1, <1>4, <1>5

\* The parts of a style that can leave a trace.
LEMMA StyleParts ==
    ASSUME NEW st \in Styles
    PROVE  /\ st.port \in {"omitted", "80", "443"}
           /\ st.noise \in {<<>>, <<"", ".", "x", "..">>}
BY DEF Styles

\* However it is spelt, a place has its key.
LEMMA KeyOfSpelling ==
    ASSUME NEW loc, IsPlace(loc), Head(loc.host) # loc.bucket, NEW st \in Styles
    PROVE  canonicalStorageLocation(Spell(loc, st), Label(loc.bucket, st.capital)) = KeyOf(loc)
<1> DEFINE V == STRING \cup Blank \cup {Up, "x"}
           e == Spell(loc, st)
           names == IF st.virtual THEN <<loc.bucket>> \o loc.host ELSE loc.host
<1>1. /\ loc.host \in Seq(V) /\ loc.prefix \in Seq(V) /\ loc.bucket \in V
      /\ loc.host # <<>> /\ loc.port \notin DefaultPorts
      /\ \A i \in DOMAIN loc.prefix : loc.prefix[i] \notin Blank \cup {Up}
  <2>1. loc \in PlaceType
    BY PlaceParts
  <2>2. loc.host \in Seq(STRING) /\ loc.prefix \in Seq(STRING) /\ loc.bucket \in STRING
    BY <2>1 DEF PlaceType
  <2>3. STRING \subseteq V
    OBVIOUS
  <2> HIDE DEF V
  <2>4. loc.host \in Seq(V) /\ loc.prefix \in Seq(V) /\ loc.bucket \in V
    BY <2>2, <2>3, WiderPath
  <2> QED BY <2>4, PlaceParts
<1>2. STRING \cup Blank \cup {Up, "x"} \subseteq V /\ Blank \cup {Up} \subseteq V
  OBVIOUS
<1> HIDE DEF V
<1>3. names \in Seq(V) /\ WithoutBucket(names, loc.bucket) = loc.host
  BY <1>1, BucketKey
<1>4. Clean(st.noise \o loc.prefix) = loc.prefix
  <2>1. Cancels(st.noise, V)
    <3>1. st.noise \in {<<>>, <<"", ".", "x", "..">>}
      BY StyleParts
    <3> QED BY <1>2, <3>1, NoiseCancels
  <2> QED BY <1>1, <1>2, <2>1, CleanNoise
<1>5. /\ e.kind = "endpoint"
      /\ e.labels = [i \in DOMAIN names |-> Label(names[i], st.upper)]
      /\ e.port = IF loc.port # NoPort THEN loc.port
                  ELSE IF st.port = "omitted" THEN NoPort ELSE st.port
      /\ e.path = st.noise \o loc.prefix
  BY DEF Spell
<1> HIDE DEF e, names
<1>6. e # Unusable
  BY <1>5 DEF Unusable
<1>7. [i \in DOMAIN e.labels |-> Lower(e.labels[i])] = names
  BY <1>3, <1>5, CaseKey
<1>8. (IF e.port \in DefaultPorts THEN NoPort ELSE e.port) = loc.port
  <2>1. st.port \in {"omitted", "80", "443"}
    BY StyleParts
  <2> QED BY <1>1, <1>5, <2>1, PortKey
<1>9. Lower(Label(loc.bucket, st.capital)) = loc.bucket
  BY DEF Lower, Label
<1>10. canonicalStorageLocation(e, Label(loc.bucket, st.capital)) =
         [kind   |-> "key",
          host   |-> WithoutBucket([i \in DOMAIN e.labels |-> Lower(e.labels[i])],
                                   Lower(Label(loc.bucket, st.capital))),
          port   |-> IF e.port \in DefaultPorts THEN NoPort ELSE e.port,
          prefix |-> Clean(e.path),
          bucket |-> Lower(Label(loc.bucket, st.capital))]
  BY <1>6 DEF canonicalStorageLocation
<1> QED BY <1>3, <1>4, <1>5, <1>7, <1>8, <1>9, <1>10 DEF KeyOf, e

\* Different places have different keys.
LEMMA KeysDiffer ==
    ASSUME NEW a, IsPlace(a), NEW b, IsPlace(b)
    PROVE  KeyOf(a) = KeyOf(b) <=> a = b
<1>1. a \in PlaceType /\ b \in PlaceType
  BY PlaceParts
<1>2. ASSUME KeyOf(a) = KeyOf(b) PROVE a = b
  <2>1. a.host = b.host /\ a.port = b.port /\ a.prefix = b.prefix /\ a.bucket = b.bucket
    BY <1>2 DEF KeyOf
  <2> QED BY <1>1, <2>1 DEF PlaceType
<1> QED BY <1>2

\* The Secret of a place names the place, and that of none names none.
LEMMA LocationsOf ==
    ASSUME NEW loc, NEW st \in Styles
    PROVE  /\ loc = Nowhere => lokiStorageLocations(SecretFor(loc, st)) = {Failed}
           /\ IsPlace(loc) /\ Head(loc.host) # loc.bucket =>
                 lokiStorageLocations(SecretFor(loc, st)) = {KeyOf(loc)}
<1>1. ASSUME loc = Nowhere PROVE lokiStorageLocations(SecretFor(loc, st)) = {Failed}
  <2>1. /\ SecretFor(loc, st).endpoint = Unusable
        /\ SecretFor(loc, st).buckets = {Label("any", FALSE)}
    BY <1>1 DEF SecretFor
  <2>2. canonicalStorageLocation(Unusable, Label("any", FALSE)) = Failed
    BY DEF canonicalStorageLocation
  <2> QED BY <2>1, <2>2 DEF lokiStorageLocations
<1>2. ASSUME IsPlace(loc), Head(loc.host) # loc.bucket
      PROVE  lokiStorageLocations(SecretFor(loc, st)) = {KeyOf(loc)}
  <2>1. loc # Nowhere
    BY <1>2, PlaceParts
  <2>2. /\ SecretFor(loc, st).endpoint = Spell(loc, st)
        /\ SecretFor(loc, st).buckets = {Label(loc.bucket, st.capital)}
    BY <2>1 DEF SecretFor
  <2>3. KeyOf(loc) # Failed
    <3>1. KeyOf(loc).kind = "key" /\ Failed.kind = "error"
      BY DEF KeyOf, Failed
    <3> QED BY <3>1
  <2>4. canonicalStorageLocation(Spell(loc, st), Label(loc.bucket, st.capital)) = KeyOf(loc)
    BY <1>2, KeyOfSpelling
  <2> QED BY <2>2, <2>3, <2>4 DEF lokiStorageLocations
<1> QED BY <1>1, <1>2
=============================================================================
