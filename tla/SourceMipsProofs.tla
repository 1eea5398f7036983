-------------------------- MODULE SourceMipsProofs --------------------------
(* Proofs about the level store, for any threads, levels, sizes, budgets and    *)
(* chunks, and any number of replaced sources, damages, failures and restarts:  *)
(* one build of a level at a time, memory and folder hold whole levels and      *)
(* their bytes are counted, temporary files are swept, the folder is pruned.    *)
EXTENDS SourceMips, WellFoundedInduction, FiniteSetTheorems, SequenceTheorems, TLAPS

-----------------------------------------------------------------------------
(* Sequences without some levels. *)

\* A set of naturals that is not empty has a least element.
LEMMA Least ==
  ASSUME NEW T, T \subseteq Nat, T # {}
  PROVE  \E x \in T : \A y \in T : x <= y
<1> DEFINE R == OpToRel(<, Nat)
<1>1. IsWellFoundedOn(R, Nat) BY NatLessThanWellFounded
<1>2. R = {ss \in Nat \X Nat : ss[1] < ss[2]} BY DEF OpToRel
<1> HIDE DEF R
<1>3. PICK x \in T : \A y \in T : ~ (<<y, x>> \in R) BY <1>1, WFMin
<1>4. \A y \in T : <<y, x>> \in Nat \X Nat OBVIOUS
<1>5. \A y \in T : ~(y < x) BY <1>2, <1>3, <1>4
<1> QED BY <1>5

\* The function that Without defines by recursion exists: the least length with
\* no such function would have one.
LEMMA WithoutExists ==
  ASSUME NEW S, NEW entries \in Seq(S), NEW levels
  PROVE  \E f : /\ f = [n \in 0..Len(entries) |->
                         IF n = 0 THEN <<>>
                         ELSE IF entries[n].level \in levels THEN f[n - 1] ELSE Append(f[n - 1], entries[n])]
                /\ Without(entries, levels) = f[Len(entries)]
<1> DEFINE Up(f, m) == f = [n \in 0..m |-> IF n = 0 THEN <<>>
                         ELSE IF entries[n].level \in levels THEN f[n - 1] ELSE Append(f[n - 1], entries[n])]
           T == {m \in Nat : ~ \E f : Up(f, m)}
<1>1. T = {}
  <2> SUFFICES ASSUME T # {} PROVE FALSE OBVIOUS
  <2>1. T \subseteq Nat OBVIOUS
  <2> HIDE DEF T
  <2>2. PICK m \in T : \A y \in T : m <= y BY <2>1, Least
  <2>3. m \in Nat BY <2>1
  <2>4. CASE m = 0
    <3>1. Up([n \in 0..0 |-> <<>>], 0) OBVIOUS
    <3> QED BY <2>4, <3>1 DEF T
  <2>5. CASE m # 0
    <3>1. m - 1 \in Nat /\ m - 1 \notin T BY <2>2, <2>3, <2>5
    <3>2. PICK g : Up(g, m - 1) BY <3>1 DEF T
    <3> DEFINE f == [n \in 0..m |-> IF n < m THEN g[n]
                         ELSE IF entries[n].level \in levels THEN g[n - 1] ELSE Append(g[n - 1], entries[n])]
    <3>3. \A n \in 0..m : f[n] = IF n = 0 THEN <<>>
                         ELSE IF entries[n].level \in levels THEN f[n - 1] ELSE Append(f[n - 1], entries[n])
      <4> SUFFICES ASSUME NEW n \in 0..m
                   PROVE  f[n] = IF n = 0 THEN <<>>
                         ELSE IF entries[n].level \in levels THEN f[n - 1] ELSE Append(f[n - 1], entries[n])
        OBVIOUS
      <4>1. CASE n = 0
        <5>1. g[0] = <<>> BY <3>1, <3>2
        <5> QED BY <4>1, <5>1, <2>3, <2>5
      <4>2. CASE n # 0
        <5>1. n - 1 \in 0..m /\ n - 1 < m /\ n \in 1..m BY <2>3, <4>2
        <5>2. f[n - 1] = g[n - 1] BY <5>1
        <5>3. CASE n < m
          <6>1. n \in 0..(m - 1) BY <5>3, <2>3
          <6>2. g[n] = IF n = 0 THEN <<>> ELSE IF entries[n].level \in levels THEN g[n - 1] ELSE Append(g[n - 1], entries[n])
            BY <6>1, <3>2
          <6>3. f[n] = g[n] BY <5>3
          <6> QED BY <6>2, <6>3, <5>2
        <5>4. CASE ~ n < m
          <6>1. f[n] = IF entries[n].level \in levels THEN g[n - 1] ELSE Append(g[n - 1], entries[n]) BY <5>4
          <6> QED BY <6>1, <5>2, <4>2
        <5> QED BY <5>3, <5>4
      <4> QED BY <4>1, <4>2
    <3>4. f = [n \in 0..m |-> f[n]] OBVIOUS
    <3> HIDE DEF f
    <3>5. Up(f, m) BY <3>3, <3>4
    <3> QED BY <3>5, <2>2 DEF T
  <2> QED BY <2>4, <2>5
<1>2. Len(entries) \in Nat OBVIOUS
<1>3. \E f : Up(f, Len(entries)) BY <1>1, <1>2
<1> DEFINE F == CHOOSE f : Up(f, Len(entries))
<1>4. Up(F, Len(entries)) BY <1>3
<1>5. Without(entries, levels) = F[Len(entries)] BY DEF Without
<1> HIDE DEF F
<1> QED BY <1>4, <1>5

\* Without keeps exactly the entries of the other levels, and no level twice.
LEMMA WithoutProps ==
  ASSUME NEW S, NEW entries \in Seq(S), NEW levels
  PROVE  /\ Without(entries, levels) \in Seq(S)
         /\ Len(Without(entries, levels)) <= Len(entries)
         /\ \A i \in DOMAIN Without(entries, levels) :
              /\ Without(entries, levels)[i].level \notin levels
              /\ \E j \in DOMAIN entries : Without(entries, levels)[i] = entries[j]
         /\ \A j \in DOMAIN entries : entries[j].level \notin levels =>
              \E i \in DOMAIN Without(entries, levels) : Without(entries, levels)[i] = entries[j]
         /\ Distinct(entries) => Distinct(Without(entries, levels))
<1> DEFINE N == Len(entries)
           P(k, n) ==
             /\ k \in Seq(S) /\ Len(k) <= n
             /\ \A i \in 1..Len(k) : k[i].level \notin levels /\ \E j \in 1..n : k[i] = entries[j]
             /\ \A j \in 1..n : entries[j].level \notin levels => \E i \in 1..Len(k) : k[i] = entries[j]
             /\ Distinct(entries) => \A i, j \in 1..Len(k) : k[i].level = k[j].level => i = j
<1>0. N \in Nat /\ DOMAIN entries = 1..N OBVIOUS
<1>1. PICK f : /\ f = [n \in 0..N |-> IF n = 0 THEN <<>>
                         ELSE IF entries[n].level \in levels THEN f[n - 1] ELSE Append(f[n - 1], entries[n])]
                /\ Without(entries, levels) = f[N]
  BY WithoutExists
<1> DEFINE T == {n \in 0..N : ~P(f[n], n)}
<1> HIDE DEF P
<1>2. T = {}
  <2> SUFFICES ASSUME T # {} PROVE FALSE OBVIOUS
  <2>1. T \subseteq Nat BY <1>0
  <2>2. PICK m \in T : \A y \in T : m <= y
    <3> HIDE DEF T
    <3> QED BY <2>1, Least
  <2>3. m \in 0..N /\ ~P(f[m], m) OBVIOUS
  <2> HIDE DEF T
  <2>4. CASE m = 0
    <3>1. f[0] = <<>> BY <1>0, <1>1
    <3>2. P(<<>>, 0) BY DEF P
    <3> QED BY <3>1, <3>2, <2>3, <2>4
  <2>5. CASE m # 0
    <3>1. m - 1 \in 0..N /\ m \in 1..N BY <1>0, <2>3, <2>5
    <3>2. m - 1 \notin T BY <3>1, <2>2, <2>3, <1>0
    <3>3. P(f[m - 1], m - 1) BY <3>1, <3>2 DEF T
    <3>4. f[m] = IF entries[m].level \in levels THEN f[m - 1] ELSE Append(f[m - 1], entries[m])
      BY <1>1, <2>3, <2>5, Zenon
    <3>5. \A j \in 1..m : j \in 1..(m - 1) \/ j = m BY <3>1, <1>0
    <3>6. 1..(m - 1) \subseteq 1..m BY <3>1, <1>0
    <3>7. CASE entries[m].level \in levels
      <4>1. f[m] = f[m - 1] BY <3>4, <3>7
      <4>2. P(f[m - 1], m)
        <5>1. f[m - 1] \in Seq(S) /\ Len(f[m - 1]) <= m BY <3>3, <3>1, <1>0 DEF P
        <5>2. \A j \in 1..m : entries[j].level \notin levels => \E i \in 1..Len(f[m - 1]) : f[m - 1][i] = entries[j]
          BY <3>3, <3>5, <3>7 DEF P
        <5> QED BY <5>1, <5>2, <3>3, <3>6 DEF P
      <4> QED BY <4>1, <4>2, <2>3
    <3>8. CASE entries[m].level \notin levels
      <4> DEFINE k == f[m - 1]
                 w == Append(k, entries[m])
      <4>1. k \in Seq(S) /\ Len(k) \in Nat BY <3>3 DEF P
      <4>2. entries[m] \in S BY <3>1, <1>0
      <4>3. /\ w \in Seq(S) /\ Len(w) = Len(k) + 1
            /\ w[Len(k) + 1] = entries[m]
            /\ \A i \in 1..Len(k) : w[i] = k[i]
        BY <4>1, <4>2
      <4>4. \A i \in 1..Len(w) : i \in 1..Len(k) \/ i = Len(k) + 1 BY <4>1, <4>3
      <4>5. 1..Len(k) \subseteq 1..Len(w) /\ Len(k) + 1 \in 1..Len(w) BY <4>1, <4>3
      <4>6. f[m] = w BY <3>4, <3>8
      <4>k. P(k, m - 1) BY <3>3
      <4> HIDE DEF w, k
      <4>a. \A x \in 1..Len(k) : k[x].level \notin levels /\ \E j \in 1..(m - 1) : k[x] = entries[j]
        BY <4>k DEF P
      <4>b. \A j \in 1..(m - 1) : entries[j].level \notin levels => \E i \in 1..Len(k) : k[i] = entries[j]
        BY <4>k DEF P
      <4>7. Len(w) <= m
        <5>1. Len(k) <= m - 1 BY <4>k DEF P
        <5> QED BY <5>1, <4>1, <4>3, <3>1, <1>0
      <4>8. ASSUME NEW i \in 1..Len(w)
            PROVE  w[i].level \notin levels /\ \E j \in 1..m : w[i] = entries[j]
        <5>1. CASE i \in 1..Len(k) BY <5>1, <4>a, <4>3, <3>6
        <5>2. CASE i = Len(k) + 1
          <6>1. w[i] = entries[m] /\ m \in 1..m BY <5>2, <4>3, <3>1, <1>0
          <6> QED BY <6>1, <3>8
        <5> QED BY <5>1, <5>2, <4>4
      <4>9. ASSUME NEW j \in 1..m, entries[j].level \notin levels
            PROVE  \E i \in 1..Len(w) : w[i] = entries[j]
        <5>1. CASE j \in 1..(m - 1)
          <6>1. PICK i \in 1..Len(k) : k[i] = entries[j] BY <5>1, <4>b, <4>9
          <6> QED BY <6>1, <4>3, <4>5
        <5>2. CASE j = m BY <5>2, <4>3, <4>5
        <5> QED BY <5>1, <5>2, <3>5
      <4>10. ASSUME Distinct(entries), NEW i \in 1..Len(w), NEW j \in 1..Len(w), w[i].level = w[j].level
             PROVE  i = j
        <5>1. \A x \in 1..Len(k) : k[x].level # entries[m].level
          <6> SUFFICES ASSUME NEW x \in 1..Len(k), k[x].level = entries[m].level PROVE FALSE OBVIOUS
          <6>1. PICK y \in 1..(m - 1) : k[x] = entries[y] BY <4>a
          <6>2. y \in DOMAIN entries /\ m \in DOMAIN entries /\ y # m BY <6>1, <3>1, <1>0
          <6> QED BY <6>1, <6>2, <4>10 DEF Distinct
        <5>2. \A x, y \in 1..Len(k) : k[x].level = k[y].level => x = y BY <4>k, <4>10 DEF P
        <5> QED BY <5>1, <5>2, <4>3, <4>4, <4>10
      <4>11. P(w, m) BY <4>3, <4>7, <4>8, <4>9, <4>10 DEF P
      <4> QED BY <4>6, <4>11, <2>3
    <3> QED BY <3>7, <3>8
  <2> QED BY <2>4, <2>5
<1>3. P(f[N], N) BY <1>0, <1>2, N \in 0..N
<1> DEFINE v == Without(entries, levels)
<1>4. v = f[N] BY <1>1
<1> HIDE DEF v
<1>5. P(v, N) BY <1>3, <1>4
<1> HIDE DEF T
<1>6. v \in Seq(S) BY <1>5 DEF P
<1>6a. DOMAIN v = 1..Len(v) BY <1>6
<1>7. Distinct(entries) => Distinct(v)
  <2>1. Distinct(entries) => \A i, j \in 1..Len(v) : v[i].level = v[j].level => i = j BY <1>5 DEF P
  <2> QED BY <2>1, <1>6a DEF Distinct
<1>8. \A i \in DOMAIN v : v[i].level \notin levels /\ \E j \in DOMAIN entries : v[i] = entries[j]
  BY <1>5, <1>6a, <1>0 DEF P
<1>9. \A j \in DOMAIN entries : entries[j].level \notin levels => \E i \in DOMAIN v : v[i] = entries[j]
  BY <1>5, <1>6a, <1>0 DEF P
<1>10. Len(v) <= Len(entries) BY <1>5 DEF P
<1> QED BY <1>6, <1>7, <1>8, <1>9, <1>10 DEF v

-----------------------------------------------------------------------------
(* Bytes. *)

\* The bytes of levels, each as a pair.
Cells(levels) == UNION {{level} \X (1..Size[level]) : level \in levels}

LEMMA CellsAre ==
  ASSUME NEW level, NEW n, NEW levels
  PROVE  <<level, n>> \in Cells(levels) <=> (level \in levels /\ n \in 1..Size[level])
BY DEF Cells

LEMMA CellsArePairs ==
  ASSUME NEW levels, NEW c \in Cells(levels)
  PROVE  \E level \in levels : \E n \in 1..Size[level] : c = <<level, n>>
<1>1. PICK level \in levels : c \in {level} \X (1..Size[level]) BY DEF Cells
<1>2. c = <<c[1], c[2]>> /\ c[1] = level /\ c[2] \in 1..Size[level] BY <1>1
<1> QED BY <1>2

LEMMA FiniteLevels ==
  ASSUME NEW S, NEW entries \in Seq(S)
  PROVE  IsFiniteSet(Levels(entries))
<1> DEFINE f == [i \in 1..Len(entries) |-> entries[i].level]
<1>0. Len(entries) \in Nat /\ DOMAIN entries = 1..Len(entries) OBVIOUS
<1>1. f \in Surjection(1..Len(entries), Levels(entries)) BY <1>0 DEF Levels, Surjection
<1>2. IsFiniteSet(1..Len(entries)) BY <1>0, FS_Interval
<1> QED BY <1>1, <1>2, FS_Surjection

LEMMA FiniteCells ==
  ASSUME NEW levels, levels \subseteq Level, IsFiniteSet(levels)
  PROVE  IsFiniteSet(Cells(levels))
<1> DEFINE rows == {{level} \X (1..Size[level]) : level \in levels}
           f == [level \in levels |-> {level} \X (1..Size[level])]
<1>1. f \in Surjection(levels, rows) BY DEF Surjection
<1>2. IsFiniteSet(rows) BY <1>1, FS_Surjection
<1>3. ASSUME NEW level \in levels PROVE IsFiniteSet({level} \X (1..Size[level]))
  <2>1. Size[level] \in Int BY <1>3, MipsAssumption
  <2>2. IsFiniteSet(1..Size[level]) BY <2>1, FS_Interval
  <2>3. IsFiniteSet({level}) BY FS_Singleton
  <2> QED BY <2>2, <2>3, FS_Product
<1>4. \A row \in rows : IsFiniteSet(row) BY <1>3
<1> HIDE DEF rows
<1>5. IsFiniteSet(UNION rows) BY <1>2, <1>4, FS_UNION
<1> QED BY <1>5 DEF Cells, rows

\* Bytes counts a finite set.
LEMMA BytesCount ==
  ASSUME NEW S, NEW entries \in Seq(S), Levels(entries) \subseteq Level
  PROVE  /\ IsFiniteSet(Cells(Levels(entries)))
         /\ Bytes(entries) = Cardinality(Cells(Levels(entries)))
         /\ Bytes(entries) \in Nat
<1>1. IsFiniteSet(Cells(Levels(entries))) BY FiniteLevels, FiniteCells
<1>2. Bytes(entries) = Cardinality(Cells(Levels(entries))) BY DEF Bytes, Cells
<1> QED BY <1>1, <1>2, FS_CardinalityType

\* Fewer levels have fewer bytes.
LEMMA BytesMonotone ==
  ASSUME NEW S, NEW R, NEW a \in Seq(S), NEW b \in Seq(R),
         Levels(b) \subseteq Level, Levels(a) \subseteq Levels(b)
  PROVE  Bytes(a) <= Bytes(b)
<1>0. Levels(a) \subseteq Level OBVIOUS
<1>1. Cells(Levels(a)) \subseteq Cells(Levels(b)) BY CellsArePairs, CellsAre
<1>2. IsFiniteSet(Cells(Levels(b))) /\ Bytes(b) = Cardinality(Cells(Levels(b))) BY BytesCount
<1>3. Bytes(a) = Cardinality(Cells(Levels(a))) BY <1>0, BytesCount
<1> QED BY <1>1, <1>2, <1>3, FS_Subset

\* Bytes of different levels add up.
LEMMA BytesAdd ==
  ASSUME NEW a, NEW b, NEW c, IsFiniteSet(Levels(c)), Levels(c) \subseteq Level,
         Levels(c) = Levels(a) \cup Levels(b), Levels(a) \cap Levels(b) = {}
  PROVE  Bytes(c) = Bytes(a) + Bytes(b)
<1>1. Cells(Levels(c)) = Cells(Levels(a)) \cup Cells(Levels(b))
  <2>1. ASSUME NEW cell \in Cells(Levels(c)) PROVE cell \in Cells(Levels(a)) \cup Cells(Levels(b))
    <3>1. PICK level \in Levels(c) : \E n \in 1..Size[level] : cell = <<level, n>> BY CellsArePairs
    <3>2. PICK n \in 1..Size[level] : cell = <<level, n>> BY <3>1
    <3> QED BY <3>2, CellsAre
  <2>2. Cells(Levels(a)) \subseteq Cells(Levels(c)) /\ Cells(Levels(b)) \subseteq Cells(Levels(c))
    BY CellsArePairs, CellsAre
  <2> QED BY <2>1, <2>2
<1>2. Cells(Levels(a)) \cap Cells(Levels(b)) = {}
  <2> SUFFICES ASSUME NEW cell \in Cells(Levels(a)), cell \in Cells(Levels(b)) PROVE FALSE OBVIOUS
  <2>1. PICK level \in Levels(a) : \E n \in 1..Size[level] : cell = <<level, n>> BY CellsArePairs
  <2>2. PICK n \in 1..Size[level] : cell = <<level, n>> BY <2>1
  <2>3. level \in Levels(b) BY <2>2, CellsAre
  <2> QED BY <2>3
<1>3. IsFiniteSet(Cells(Levels(a))) /\ IsFiniteSet(Cells(Levels(b)))
  <2>1. IsFiniteSet(Levels(a)) /\ IsFiniteSet(Levels(b)) BY FS_Subset
  <2> QED BY <2>1, FiniteCells
<1>4. /\ Bytes(a) = Cardinality(Cells(Levels(a))) /\ Bytes(b) = Cardinality(Cells(Levels(b)))
      /\ Bytes(c) = Cardinality(Cells(Levels(c)))
  BY DEF Bytes, Cells
<1>4a. Bytes(a) \in Nat /\ Bytes(b) \in Nat BY <1>3, <1>4, FS_CardinalityType
<1>5. Cardinality(Cells(Levels(a)) \cap Cells(Levels(b))) = 0 BY <1>2, FS_EmptySet
<1>6. Cardinality(Cells(Levels(a)) \cup Cells(Levels(b))) =
        Cardinality(Cells(Levels(a))) + Cardinality(Cells(Levels(b))) - Cardinality(Cells(Levels(a)) \cap Cells(Levels(b)))
  BY <1>3, FS_Union
<1> QED BY <1>1, <1>4, <1>4a, <1>5, <1>6

\* One entry has the bytes of its level.
LEMMA BytesOne ==
  ASSUME NEW S, NEW entries \in Seq(S), NEW level \in Level, Levels(entries) = {level}
  PROVE  Bytes(entries) = Size[level]
<1>1. Bytes(entries) = Cardinality(Cells({level})) BY BytesCount
<1>2. Cells({level}) = {level} \X (1..Size[level]) BY DEF Cells
<1> DEFINE n == Size[level]
<1>3. n \in Int /\ n > 0 BY MipsAssumption
<1> HIDE DEF n
<1>4. IsFiniteSet(1..n) /\ Cardinality(1..n) = n
  <2>1. Cardinality(1..n) = IF 1 > n THEN 0 ELSE n - 1 + 1 BY <1>3, FS_Interval
  <2> QED BY <2>1, <1>3, FS_Interval
<1>5. IsFiniteSet({level}) /\ Cardinality({level}) = 1 BY FS_Singleton
<1>6. Cardinality({level} \X (1..n)) = Cardinality({level}) * Cardinality(1..n) BY <1>4, <1>5, FS_Product
<1>7. Cardinality({level} \X (1..n)) = n BY <1>3, <1>4, <1>5, <1>6
<1> QED BY <1>1, <1>2, <1>7 DEF n

-----------------------------------------------------------------------------
(* Sequences of entries. *)

LEMMA WithoutKeeps ==
  ASSUME NEW S, NEW entries \in Seq(S), NEW levels
  PROVE  /\ Without(entries, levels) \in Seq(S)
         /\ Len(Without(entries, levels)) <= Len(entries)
         /\ Levels(Without(entries, levels)) = Levels(entries) \ levels
         /\ Distinct(entries) => Distinct(Without(entries, levels))
<1> DEFINE w == Without(entries, levels)
<1>1. /\ w \in Seq(S) /\ Len(w) <= Len(entries) /\ (Distinct(entries) => Distinct(w)) BY WithoutProps
<1>2. \A i \in DOMAIN w : w[i].level \notin levels /\ \E j \in DOMAIN entries : w[i] = entries[j] BY WithoutProps
<1>3. \A j \in DOMAIN entries : entries[j].level \notin levels => \E i \in DOMAIN w : w[i] = entries[j] BY WithoutProps
<1> HIDE DEF w
<1>4. Levels(w) \subseteq Levels(entries) \ levels BY <1>2 DEF Levels
<1>5. Levels(entries) \ levels \subseteq Levels(w) BY <1>3 DEF Levels
<1> QED BY <1>1, <1>4, <1>5 DEF w

LEMMA EntryIs ==
  ASSUME NEW S, NEW entries \in Seq(S), NEW level \in Levels(entries)
  PROVE  Entry(entries, level) \in S /\ Entry(entries, level).level = level
<1>1. PICK i \in DOMAIN entries : entries[i].level = level BY DEF Levels
<1>2. entries[i] \in Range(entries) BY DEF Range
<1>3. Range(entries) \subseteq S BY DEF Range
<1> QED BY <1>1, <1>2, <1>3 DEF Entry

LEMMA AppendKeeps ==
  ASSUME NEW S, NEW entries \in Seq(S), NEW entry \in S
  PROVE  /\ Append(entries, entry) \in Seq(S)
         /\ Len(Append(entries, entry)) = Len(entries) + 1
         /\ Levels(Append(entries, entry)) = Levels(entries) \cup {entry.level}
         /\ (Distinct(entries) /\ entry.level \notin Levels(entries)) => Distinct(Append(entries, entry))
<1> DEFINE a == Append(entries, entry)
           n == Len(entries)
<1>1. /\ n \in Nat /\ a \in Seq(S) /\ Len(a) = n + 1 /\ a[n + 1] = entry
      /\ DOMAIN entries = 1..n /\ DOMAIN a = 1..(n + 1)
      /\ \A i \in 1..n : a[i] = entries[i]
  OBVIOUS
<1> HIDE DEF a, n
<1>2. \A i \in 1..(n + 1) : i \in 1..n \/ i = n + 1 BY <1>1
<1>3. 1..n \subseteq 1..(n + 1) /\ n + 1 \in 1..(n + 1) BY <1>1
<1>4. Levels(a) = Levels(entries) \cup {entry.level} BY <1>1, <1>2, <1>3 DEF Levels
<1>5. ASSUME Distinct(entries), entry.level \notin Levels(entries) PROVE Distinct(a)
  <2>1. \A i \in 1..n : entries[i].level # entry.level BY <1>1, <1>5 DEF Levels
  <2>2. \A i, j \in 1..n : entries[i].level = entries[j].level => i = j BY <1>1, <1>5 DEF Distinct
  <2> QED BY <1>1, <1>2, <2>1, <2>2 DEF Distinct
<1> QED BY <1>1, <1>4, <1>5 DEF a, n

LEMMA ToEndKeeps ==
  ASSUME NEW S, NEW entries \in Seq(S), NEW level \in Levels(entries), Distinct(entries)
  PROVE  /\ ToEnd(entries, level) \in Seq(S)
         /\ Levels(ToEnd(entries, level)) = Levels(entries)
         /\ Distinct(ToEnd(entries, level))
<1> DEFINE w == Without(entries, {level})
           e == Entry(entries, level)
<1>1. w \in Seq(S) /\ Levels(w) = Levels(entries) \ {level} /\ Distinct(w) BY WithoutKeeps
<1>2. e \in S /\ e.level = level BY EntryIs
<1> HIDE DEF w, e
<1>3. Append(w, e) \in Seq(S) /\ Levels(Append(w, e)) = Levels(w) \cup {level} /\ Distinct(Append(w, e))
  BY <1>1, <1>2, AppendKeeps
<1> QED BY <1>1, <1>3 DEF ToEnd, w, e

\* A sequence of different levels, cut at k, falls into two such sequences whose
\* bytes add up.
LEMMA Splits ==
  ASSUME NEW S, NEW entries \in Seq(S), Distinct(entries), NEW k \in 0..Len(entries)
  PROVE  LET first == SubSeq(entries, 1, k)
             rest == SubSeq(entries, k + 1, Len(entries))
         IN /\ first \in Seq(S) /\ rest \in Seq(S)
            /\ Levels(entries) = Levels(first) \cup Levels(rest)
            /\ Levels(first) \cap Levels(rest) = {}
            /\ Distinct(rest)
            /\ Len(rest) = Len(entries) - k
<1> DEFINE first == SubSeq(entries, 1, k)
           rest == SubSeq(entries, k + 1, Len(entries))
           n == Len(entries)
<1>1. n \in Nat /\ k \in Nat /\ k <= n /\ DOMAIN entries = 1..n OBVIOUS
<1>2. /\ first \in Seq(S) /\ Len(first) = k /\ DOMAIN first = 1..k
      /\ \A i \in 1..k : first[i] = entries[i]
  BY <1>1
<1>3. /\ rest \in Seq(S) /\ Len(rest) = n - k /\ DOMAIN rest = 1..(n - k)
      /\ \A i \in 1..(n - k) : rest[i] = entries[i + k]
  <2> HIDE DEF n
  <2>1. \A i \in (k + 1)..n : i \in 1..n BY <1>1
  <2>2. \A i \in (k + 1)..n : entries[i] \in S BY <1>1, <2>1
  <2>3. k + 1 \in Int /\ n \in Int BY <1>1
  <2>4. /\ SubSeq(entries, k + 1, n) \in Seq(S)
        /\ Len(SubSeq(entries, k + 1, n)) = IF k + 1 <= n THEN n - (k + 1) + 1 ELSE 0
        /\ \A i \in 1..(n - (k + 1) + 1) : SubSeq(entries, k + 1, n)[i] = entries[(k + 1) + i - 1]
    BY <2>2, <2>3, SubSeqProperties
  <2>5. n - (k + 1) + 1 = n - k /\ \A i \in 1..(n - k) : (k + 1) + i - 1 = i + k BY <1>1
  <2>6. rest = SubSeq(entries, k + 1, n) BY DEF n
  <2> HIDE DEF rest
  <2>7. rest \in Seq(S) /\ Len(rest) = n - k BY <2>4, <2>5, <2>6, <1>1
  <2>8. DOMAIN rest = 1..(n - k) BY <2>7
  <2> QED BY <2>4, <2>5, <2>6, <2>7, <2>8
<1> HIDE DEF first, rest, n
<1>4. \A i \in 1..n : i \in 1..k \/ (i - k \in 1..(n - k) /\ i = (i - k) + k) BY <1>1
<1>5. (\A i \in 1..k : i \in 1..n) /\ (\A i \in 1..(n - k) : i + k \in 1..n) BY <1>1
<1>6. \A i, j \in 1..n : entries[i].level = entries[j].level => i = j BY <1>1 DEF Distinct
<1>7. Levels(entries) = Levels(first) \cup Levels(rest)
  <2>1. \A i \in 1..n : entries[i].level \in Levels(first) \cup Levels(rest)
    <3> SUFFICES ASSUME NEW i \in 1..n PROVE entries[i].level \in Levels(first) \cup Levels(rest) OBVIOUS
    <3>1. CASE i \in 1..k BY <3>1, <1>2 DEF Levels
    <3>2. CASE i - k \in 1..(n - k) /\ i = (i - k) + k
      <4>1. rest[i - k] = entries[i] BY <3>2, <1>3
      <4> QED BY <4>1, <3>2, <1>3 DEF Levels
    <3> QED BY <3>1, <3>2, <1>4
  <2>2. Levels(first) \subseteq Levels(entries) BY <1>1, <1>2, <1>5 DEF Levels
  <2>3. Levels(rest) \subseteq Levels(entries) BY <1>1, <1>3, <1>5 DEF Levels
  <2>4. Levels(entries) \subseteq Levels(first) \cup Levels(rest) BY <2>1, <1>1 DEF Levels
  <2> QED BY <2>2, <2>3, <2>4
<1>8. Levels(first) \cap Levels(rest) = {}
  <2> SUFFICES ASSUME NEW l \in Levels(first), l \in Levels(rest) PROVE FALSE OBVIOUS
  <2>1. PICK i \in 1..k : l = entries[i].level BY <1>2 DEF Levels
  <2>2. PICK j \in 1..(n - k) : l = entries[j + k].level BY <1>3 DEF Levels
  <2>3. i \in 1..n /\ j + k \in 1..n /\ i # j + k BY <1>1, <1>5
  <2> QED BY <2>1, <2>2, <2>3, <1>6
<1>9. Distinct(rest)
  <2>1. ASSUME NEW i \in 1..(n - k), NEW j \in 1..(n - k), rest[i].level = rest[j].level PROVE i = j
    <3>1. i + k \in 1..n /\ j + k \in 1..n BY <1>5
    <3>2. entries[i + k].level = entries[j + k].level BY <2>1, <1>3
    <3>3. i + k = j + k BY <3>1, <3>2, <1>6
    <3> QED BY <3>3, <1>1
  <2> QED BY <2>1, <1>3 DEF Distinct
<1> QED BY <1>2, <1>3, <1>7, <1>8, <1>9 DEF first, rest, n

LEMMA TailKeeps ==
  ASSUME NEW S, NEW entries \in Seq(S), entries # <<>>
  PROVE  /\ Tail(entries) \in Seq(S) /\ Head(entries) \in S
         /\ Levels(entries) \subseteq Levels(Tail(entries)) \cup {Head(entries).level}
<1> DEFINE n == Len(entries)
<1>1. /\ n \in Nat /\ n > 0 /\ DOMAIN entries = 1..n /\ Head(entries) = entries[1]
      /\ Tail(entries) \in Seq(S) /\ DOMAIN Tail(entries) = 1..(n - 1)
      /\ \A i \in 1..(n - 1) : Tail(entries)[i] = entries[i + 1]
  OBVIOUS
<1> HIDE DEF n
<1>2. \A i \in 1..n : i = 1 \/ (i - 1 \in 1..(n - 1) /\ i = (i - 1) + 1) BY <1>1
<1>3. \A i \in 1..n : entries[i].level \in Levels(Tail(entries)) \cup {entries[1].level}
  <2> SUFFICES ASSUME NEW i \in 1..n PROVE entries[i].level \in Levels(Tail(entries)) \cup {entries[1].level} OBVIOUS
  <2>1. CASE i = 1 BY <2>1
  <2>2. CASE i - 1 \in 1..(n - 1) /\ i = (i - 1) + 1
    <3>1. Tail(entries)[i - 1] = entries[i] BY <2>2, <1>1
    <3> QED BY <3>1, <2>2, <1>1 DEF Levels
  <2> QED BY <2>1, <2>2, <1>2
<1>4. Head(entries) \in S BY <1>1
<1> QED BY <1>1, <1>3, <1>4 DEF Levels

-----------------------------------------------------------------------------
(* The invariant. *)

\* The types: what is in memory, in the folder and of a thread. Every array and
\* every file is whole.
InMemory == [level: Level, array: Thread]
WholeFile == [level: Level, whole: {TRUE}, damaged: BOOLEAN]
OfThread == [pc: Pcs, current: BOOLEAN, owns: BOOLEAN, awaits: Thread \cup {NoThread}, whole: {TRUE},
             chunks: Nat, owner: Thread \cup {NoThread}, listing: Seq(WholeFile), total: Int,
             sweeping: SUBSET Thread, published: BOOLEAN, died: BOOLEAN,
             answer: {"none", "memory", "level", "stale", "error"}]

\* The variables with their types.
Shapes ==
  /\ left \in Budget /\ cleaned \in BOOLEAN /\ temps \subseteq Thread
  /\ DOMAIN inflight \subseteq Level /\ inflight \in [DOMAIN inflight -> Thread]
  /\ threads \in [Thread -> OfThread]

Asks == {"lookup", "wait", "read", "loaded", "discard", "build", "building", "built", "write",
         "insert", "release"}
Copies == {"p_begin", "p_check", "p_copy"}

\* Where a request and a save may be; a request owns a flight while it works.
Placed(t, th) ==
  /\ th.pc # "new" => t \in DOMAIN left.jobs
  /\ th.pc \in Copies => Saving(t)
  /\ th.pc \in Asks => ~Saving(t)
  /\ th.pc = "wait" => th.awaits \in Thread
  /\ th.owns <=> (th.pc \in Working \cup {"release"} /\ ~Saving(t))
Local == \A t \in Thread : Placed(t, threads[t])

\* The flight of a level belongs to the thread that says it owns it.
Owning == \A t \in Thread : threads[t].owns => Of(t) \in DOMAIN inflight /\ inflight[Of(t)] = t

\* Memory holds no level twice and counts its bytes; the folder holds none twice.
InMemoryOK == memory \in Seq(InMemory) /\ Distinct(memory) /\ MemoryAccounted
InFolderOK == disk \in Seq(WholeFile) /\ Distinct(disk)

\* A temporary file whose writer is gone is one that a sweep still removes.
Leftover(t) == \E o \in Thread : At(o, "sweep") \/ (At(o, "sweeping") /\ t \in threads[o].sweeping)
Swept == cleaned => \A t \in temps : threads[t].pc \in {"replace", "p_copy"} \/ Leftover(t)

\* A thread that will bring the folder within its budget: it prunes next, or has
\* listed every file and counted at least their bytes.
Prunes(t) == \/ At(t, "prune")
             \/ /\ At(t, "pruning") /\ Levels(disk) \subseteq Levels(threads[t].listing)
                /\ Bytes(disk) <= threads[t].total
Pruned == Died \/ Bytes(disk) <= DiskBudget \/ \E t \in Thread : Prunes(t)

\* The inductive invariant.
MipsInv == Shapes /\ Local /\ Owning /\ InMemoryOK /\ InFolderOK /\ Swept /\ Pruned

-----------------------------------------------------------------------------
(* What a step of one thread keeps. *)

\* A step of one thread leaves the records of the others.
LEMMA OnlyThis ==
  ASSUME NEW t \in Thread, NEW r, threads \in [Thread -> OfThread], threads' = [threads EXCEPT ![t] = r]
  PROVE  threads'[t] = r /\ \A o \in Thread : o # t => threads'[o] = threads[o]
OBVIOUS

LEMMA SameJobs ==
  ASSUME left'.jobs = left.jobs
  PROVE  \A t \in Thread : /\ Of(t)' = Of(t) /\ (Saving(t)' <=> Saving(t))
                           /\ (t \in DOMAIN left.jobs)' <=> t \in DOMAIN left.jobs
BY DEF Of, Saving

LEMMA SpendKeeps ==
  ASSUME left \in Budget, NEW what \in {"stale", "discards", "damages", "faults", "crashes"}, Spend(what)
  PROVE  left' \in Budget /\ left'.jobs = left.jobs
<1>1. CASE what = "stale" BY <1>1 DEF Budget, Spend
<1>2. CASE what = "discards" BY <1>2 DEF Budget, Spend
<1>3. CASE what = "damages" BY <1>3 DEF Budget, Spend
<1>4. CASE what = "faults" BY <1>4 DEF Budget, Spend
<1>5. CASE what = "crashes" BY <1>5 DEF Budget, Spend
<1> QED BY <1>1, <1>2, <1>3, <1>4, <1>5

\* What a step of one thread keeps of the invariant's parts, given what it does
\* to the thread's own record.
LEMMA LocalKept ==
  ASSUME Shapes, Local, NEW t \in Thread, NEW r \in OfThread, threads' = [threads EXCEPT ![t] = r],
         left'.jobs = left.jobs, Placed(t, r)
  PROVE  threads' \in [Thread -> OfThread] /\ Local'
<1>1. threads \in [Thread -> OfThread] BY DEF Shapes
<1>2. threads' \in [Thread -> OfThread] BY <1>1
<1>3. threads'[t] = r /\ \A o \in Thread : o # t => threads'[o] = threads[o] BY <1>1, OnlyThis
<1>4. ASSUME NEW o \in Thread PROVE Placed(o, threads[o])'
  <2>1. Placed(o, threads'[o])
    <3>1. CASE o = t BY <3>1, <1>3
    <3>2. CASE o # t
      <4>1. Placed(o, threads[o]) BY DEF Local
      <4> QED BY <4>1, <3>2, <1>3
    <3> QED BY <3>1, <3>2
  <2>2. (Saving(o)' <=> Saving(o)) /\ ((o \in DOMAIN left.jobs)' <=> o \in DOMAIN left.jobs) BY SameJobs
  <2> QED BY <2>1, <2>2 DEF Placed
<1> QED BY <1>2, <1>4 DEF Local

LEMMA OwningKept ==
  ASSUME Shapes, Owning, NEW t \in Thread, NEW r \in OfThread, threads' = [threads EXCEPT ![t] = r],
         left'.jobs = left.jobs, inflight' = inflight, r.owns => threads[t].owns
  PROVE  Owning'
<1>1. threads'[t] = r /\ \A o \in Thread : o # t => threads'[o] = threads[o] BY OnlyThis DEF Shapes
<1>2. ASSUME NEW o \in Thread, threads'[o].owns PROVE (Of(o) \in DOMAIN inflight /\ inflight[Of(o)] = o)'
  <2>1. threads[o].owns BY <1>1, <1>2
  <2>2. Of(o)' = Of(o) BY SameJobs
  <2> QED BY <2>1, <2>2 DEF Owning
<1> QED BY <1>2 DEF Owning

LEMMA SweptKept ==
  ASSUME Shapes, Swept, NEW t \in Thread, NEW r \in OfThread, threads' = [threads EXCEPT ![t] = r],
         cleaned' = cleaned, temps' \subseteq temps,
         threads[t].pc = "sweep" => r.pc = "sweep",
         threads[t].pc = "sweeping" => r.pc = "sweeping" /\ threads[t].sweeping \cap temps' \subseteq r.sweeping,
         threads[t].pc \in {"replace", "p_copy"} => r.pc \in {"replace", "p_copy"} \/ t \notin temps'
  PROVE  Swept'
<1>1. threads'[t] = r /\ \A o \in Thread : o # t => threads'[o] = threads[o] BY OnlyThis DEF Shapes
<1>2. ASSUME cleaned', NEW x \in temps' PROVE threads'[x].pc \in {"replace", "p_copy"} \/ Leftover(x)'
  <2>1. x \in temps /\ x \in Thread BY <1>2 DEF Shapes
  <2>2. CASE threads[x].pc \in {"replace", "p_copy"} BY <2>1, <2>2, <1>1, <1>2
  <2>3. CASE Leftover(x)
    <3>1. PICK o \in Thread : At(o, "sweep") \/ (At(o, "sweeping") /\ x \in threads[o].sweeping) BY <2>3 DEF Leftover
    <3>2. CASE o = t
      <4>1. CASE threads[t].pc = "sweep"
        <5>1. At(t, "sweep")' BY <4>1, <1>1 DEF At
        <5> QED BY <5>1 DEF Leftover
      <4>2. CASE threads[t].pc = "sweeping" /\ x \in threads[t].sweeping
        <5>1. At(t, "sweeping")' /\ x \in threads'[t].sweeping BY <4>2, <1>1, <1>2 DEF At
        <5> QED BY <5>1 DEF Leftover
      <4> QED BY <3>1, <3>2, <4>1, <4>2 DEF At
    <3>3. CASE o # t
      <4>1. threads'[o] = threads[o] BY <3>3, <1>1
      <4>2. (At(o, "sweep") \/ (At(o, "sweeping") /\ x \in threads[o].sweeping))' BY <3>1, <4>1 DEF At
      <4> QED BY <4>2 DEF Leftover
    <3> QED BY <3>2, <3>3
  <2>4. threads[x].pc \in {"replace", "p_copy"} \/ Leftover(x) BY <1>2, <2>1 DEF Swept
  <2> QED BY <2>2, <2>3, <2>4
<1> QED BY <1>2 DEF Swept

LEMMA FilesLevels ==
  ASSUME NEW files \in Seq(WholeFile)
  PROVE  Levels(files) \subseteq Level
<1>1. \A i \in DOMAIN files : files[i] \in WholeFile OBVIOUS
<1>2. \A file \in WholeFile : file.level \in Level BY DEF WholeFile
<1> QED BY <1>1, <1>2 DEF Levels

LEMMA PrunedKept ==
  ASSUME Shapes, Pruned, NEW t \in Thread, NEW r \in OfThread, threads' = [threads EXCEPT ![t] = r],
         disk \in Seq(WholeFile), disk' \in Seq(WholeFile), Levels(disk') \subseteq Levels(disk),
         r.died = threads[t].died,
         threads[t].pc = "prune" => r.pc = "prune",
         threads[t].pc = "pruning" => r.pc = "pruning" /\ r.listing = threads[t].listing /\ r.total = threads[t].total
  PROVE  Pruned'
<1>1. threads'[t] = r /\ \A o \in Thread : o # t => threads'[o] = threads[o] BY OnlyThis DEF Shapes
<1>2. Bytes(disk') <= Bytes(disk) /\ Bytes(disk') \in Nat /\ Bytes(disk) \in Nat
  <2>1. Levels(disk) \subseteq Level /\ Levels(disk') \subseteq Level BY FilesLevels
  <2>2. Bytes(disk') <= Bytes(disk) BY <2>1, BytesMonotone
  <2>3. Bytes(disk') \in Nat BY <2>1, BytesCount
  <2>4. Bytes(disk) \in Nat BY <2>1, BytesCount
  <2> QED BY <2>2, <2>3, <2>4
<1>3. CASE Died
  <2>1. PICK o \in Thread : threads[o].died BY <1>3 DEF Died
  <2>2. threads'[o].died BY <2>1, <1>1
  <2> QED BY <2>2 DEF Pruned, Died
<1>4. CASE Bytes(disk) <= DiskBudget BY <1>2, <1>4, MipsAssumption DEF Pruned
<1>5. CASE \E o \in Thread : Prunes(o)
  <2>1. PICK o \in Thread : Prunes(o) BY <1>5
  <2>2. threads[o].total \in Int BY DEF Shapes, OfThread
  <2>3. Prunes(o)'
    <3>1. CASE threads[o].pc = "prune"
      <4>1. threads'[o].pc = "prune" BY <3>1, <1>1
      <4> QED BY <4>1 DEF Prunes, At
    <3>2. CASE threads[o].pc = "pruning" /\ Levels(disk) \subseteq Levels(threads[o].listing) /\ Bytes(disk) <= threads[o].total
      <4>1. threads'[o].pc = "pruning" /\ threads'[o].listing = threads[o].listing /\ threads'[o].total = threads[o].total
        BY <3>2, <1>1
      <4>2. Levels(disk') \subseteq Levels(threads'[o].listing) BY <3>2, <4>1
      <4>3. Bytes(disk') <= threads'[o].total BY <3>2, <4>1, <1>2, <2>2
      <4> QED BY <4>1, <4>2, <4>3 DEF Prunes, At
    <3> QED BY <2>1, <3>1, <3>2 DEF Prunes, At
  <2> QED BY <2>3 DEF Pruned
<1> QED BY <1>3, <1>4, <1>5 DEF Pruned

\* A step of one thread that keeps the parts about its record, memory and the
\* folder keeps the invariant.
LEMMA StepKeeps ==
  ASSUME MipsInv, NEW t \in Thread, NEW r \in OfThread, threads' = [threads EXCEPT ![t] = r],
         left' \in Budget, left'.jobs = left.jobs, Placed(t, r), r.died = threads[t].died,
         r.owns => threads[t].owns, inflight' = inflight, cleaned' = cleaned, temps' \subseteq temps,
         InMemoryOK', InFolderOK', Levels(disk') \subseteq Levels(disk),
         threads[t].pc = "sweep" => r.pc = "sweep",
         threads[t].pc = "sweeping" => r.pc = "sweeping" /\ threads[t].sweeping \cap temps' \subseteq r.sweeping,
         threads[t].pc \in {"replace", "p_copy"} => r.pc \in {"replace", "p_copy"} \/ t \notin temps',
         threads[t].pc = "prune" => r.pc = "prune",
         threads[t].pc = "pruning" => r.pc = "pruning" /\ r.listing = threads[t].listing /\ r.total = threads[t].total
  PROVE  MipsInv'
<1>0. Shapes /\ Local /\ Owning /\ Swept /\ Pruned /\ InFolderOK BY DEF MipsInv
<1>1. threads' \in [Thread -> OfThread] /\ Local' BY <1>0, LocalKept
<1>2. Shapes' BY <1>0, <1>1 DEF Shapes
<1>3. Owning' BY <1>0, OwningKept
<1>4. Swept' BY <1>0, SweptKept
<1>5. disk \in Seq(WholeFile) /\ disk' \in Seq(WholeFile) BY <1>0 DEF InFolderOK
<1>6. Pruned' BY <1>0, <1>5, PrunedKept
<1> QED BY <1>1, <1>2, <1>3, <1>4, <1>6 DEF MipsInv

\* So does one that changes neither memory nor the folder and is not a step of
\* a sweep or of a prune.
LEMMA QuietKeeps ==
  ASSUME MipsInv, NEW t \in Thread, NEW r \in OfThread, threads' = [threads EXCEPT ![t] = r],
         left' \in Budget, left'.jobs = left.jobs, UNCHANGED <<store, folder>>, Placed(t, r),
         r.died = threads[t].died, r.owns => threads[t].owns,
         threads[t].pc = "sweep" => r.pc = "sweep",
         threads[t].pc = "sweeping" => r.pc = "sweeping" /\ r.sweeping = threads[t].sweeping,
         threads[t].pc \in {"replace", "p_copy"} => r.pc \in {"replace", "p_copy"},
         threads[t].pc = "prune" => r.pc = "prune",
         threads[t].pc = "pruning" => r.pc = "pruning" /\ r.listing = threads[t].listing /\ r.total = threads[t].total
  PROVE  MipsInv'
<1>1. /\ memory' = memory /\ memoryBytes' = memoryBytes /\ inflight' = inflight /\ cleaned' = cleaned
      /\ disk' = disk /\ temps' = temps
  BY DEF store, folder
<1>2. InMemoryOK' BY <1>1 DEF MipsInv, InMemoryOK, MemoryAccounted, Distinct, Bytes, Levels
<1>3. InFolderOK' BY <1>1 DEF MipsInv, InFolderOK, Distinct
<1>4. Levels(disk') \subseteq Levels(disk) BY <1>1
<1> QED BY <1>1, <1>2, <1>3, <1>4, StepKeeps

LEMMA GoIs ==
  ASSUME NEW th \in OfThread, NEW pc \in Pcs
  PROVE  LET r == [th EXCEPT !.pc = pc]
         IN /\ r \in OfThread /\ r.pc = pc
            /\ r.owns = th.owns /\ r.awaits = th.awaits /\ r.died = th.died
            /\ r.listing = th.listing /\ r.total = th.total /\ r.sweeping = th.sweeping
BY DEF OfThread

LEMMA PlacedNow ==
  ASSUME MipsInv, NEW t \in Thread
  PROVE  threads[t] \in OfThread /\ Placed(t, threads[t])
BY DEF MipsInv, Shapes, Local

\* What a thread leaves that its step does not take up again.
\* Places with no temporary file, sweep or prune.
Resting == Pcs \ {"sweep", "sweeping", "replace", "p_copy", "prune", "pruning"}

LEMMA GoKeeps ==
  ASSUME MipsInv, NEW t \in Thread, NEW pc \in Pcs, Go(t, pc), UNCHANGED <<store, folder, left>>,
         threads[t].pc \in Resting \/ (threads[t].pc = "p_copy" /\ pc = "replace"),
         t \in DOMAIN left.jobs, pc # "wait",
         pc \in Copies => Saving(t), pc \in Asks => ~Saving(t),
         threads[t].owns <=> (pc \in Working \cup {"release"} /\ ~Saving(t))
  PROVE  MipsInv'
<1>1. threads[t] \in OfThread BY PlacedNow
<1> DEFINE r == [threads[t] EXCEPT !.pc = pc]
<1>2. /\ r \in OfThread /\ r.pc = pc /\ r.owns = threads[t].owns /\ r.died = threads[t].died
  BY <1>1, GoIs
<1>3. threads' = [threads EXCEPT ![t] = r] BY DEF Go, Update
<1> HIDE DEF r
<1>4. left' \in Budget /\ left'.jobs = left.jobs BY DEF MipsInv, Shapes
<1>5. Placed(t, r) BY <1>2 DEF Placed
<1>6. UNCHANGED <<store, folder>> OBVIOUS
<1>7. /\ threads[t].pc # "sweep" /\ threads[t].pc # "sweeping" /\ threads[t].pc # "prune" /\ threads[t].pc # "pruning"
      /\ threads[t].pc \in {"replace", "p_copy"} => r.pc \in {"replace", "p_copy"}
  BY <1>2 DEF Resting
<1> QED BY <1>2, <1>3, <1>4, <1>5, <1>6, <1>7, QuietKeeps

LEMMA RaiseKeeps ==
  ASSUME MipsInv, NEW t \in Thread, NEW why \in {"none", "memory", "level", "stale", "error"}, Raise(t, why),
         UNCHANGED <<store, folder>>, left' \in Budget, left'.jobs = left.jobs,
         threads[t].pc \in Asks \cap Resting
  PROVE  MipsInv'
<1>1. threads[t] \in OfThread /\ Placed(t, threads[t]) BY PlacedNow
<1> DEFINE pc == IF threads[t].owns THEN "release" ELSE "done"
<1>2. pc \in Pcs BY DEF Pcs
<1>5. pc = IF threads[t].owns THEN "release" ELSE "done" OBVIOUS
<1> HIDE DEF pc
<1> DEFINE r == [threads[t] EXCEPT !.answer = why, !.pc = pc]
<1>3. /\ r \in OfThread /\ r.pc = pc /\ r.owns = threads[t].owns /\ r.died = threads[t].died
  BY <1>1, <1>2 DEF OfThread
<1>4. threads' = [threads EXCEPT ![t] = r] BY DEF Raise, Update, pc
<1> HIDE DEF r
<1>6. ~Saving(t) /\ t \in DOMAIN left.jobs BY <1>1 DEF Placed, Asks, Resting
<1>7. Placed(t, r) BY <1>1, <1>3, <1>5, <1>6 DEF Placed, Asks, Copies, Working
<1>8. threads[t].pc \notin {"sweep", "sweeping", "replace", "p_copy", "prune", "pruning"} BY DEF Resting
<1> QED BY <1>3, <1>4, <1>7, <1>8, QuietKeeps

-----------------------------------------------------------------------------
(* Every action keeps the invariant. *)

\* Asking for a level, waiting and building.
LEMMA BeginKeeps == ASSUME MipsInv, NEW t \in Thread, Begin(t) PROVE MipsInv'
<1>1. Placed(t, threads[t]) BY PlacedNow
<1> DEFINE pc == IF Saving(t) THEN "p_begin" ELSE "lookup"
<1>2. /\ At(t, "new") /\ t \in DOMAIN left.jobs /\ Go(t, pc) /\ UNCHANGED <<store, folder, left>> BY DEF Begin
<1>3. pc \in Pcs /\ pc # "wait" /\ pc \notin Working \cup {"release"} BY DEF Pcs, Working
<1>4. (pc \in Copies => Saving(t)) /\ (pc \in Asks => ~Saving(t)) BY DEF Copies, Asks
<1> HIDE DEF pc
<1>5. threads[t].pc \in Resting BY <1>2 DEF At, Resting, Pcs
<1>6. threads[t].owns <=> (pc \in Working \cup {"release"} /\ ~Saving(t))
  BY <1>1, <1>2, <1>3 DEF Placed, At, Working
<1> QED BY <1>2, <1>3, <1>4, <1>5, <1>6, GoKeeps

LEMMA InMemoryUnchanged == ASSUME InMemoryOK, memory' = memory, memoryBytes' = memoryBytes PROVE InMemoryOK'
BY DEF InMemoryOK, MemoryAccounted, Distinct, Bytes, Levels

LEMMA InFolderUnchanged == ASSUME InFolderOK, disk' = disk PROVE InFolderOK'
BY DEF InFolderOK, Distinct

LEMMA MemoryLevels == ASSUME NEW entries \in Seq(InMemory) PROVE Levels(entries) \subseteq Level
<1>1. \A i \in DOMAIN entries : entries[i] \in InMemory OBVIOUS
<1>2. \A entry \in InMemory : entry.level \in Level BY DEF InMemory
<1> QED BY <1>1, <1>2 DEF Levels

LEMMA SameLevels ==
  ASSUME NEW S, NEW R, NEW a \in Seq(S), NEW b \in Seq(R), Levels(a) = Levels(b)
  PROVE  Bytes(a) = Bytes(b)
BY DEF Bytes

\* Distinct entries are as many as their levels: a permutation keeps its length.
LEMMA LevelsCount ==
  ASSUME NEW S, NEW entries \in Seq(S), Distinct(entries)
  PROVE  Cardinality(Levels(entries)) = Len(entries)
<1> DEFINE f == [i \in 1..Len(entries) |-> entries[i].level]
<1>0. Len(entries) \in Nat /\ DOMAIN entries = 1..Len(entries) OBVIOUS
<1>1. f \in Surjection(1..Len(entries), Levels(entries)) BY <1>0 DEF Levels, Surjection
<1>2. f \in Injection(1..Len(entries), Levels(entries)) BY <1>0 DEF Levels, Injection, IsInjective, Distinct
<1>3. IsFiniteSet(1..Len(entries)) /\ Cardinality(1..Len(entries)) = Len(entries) BY <1>0, FS_Interval
<1> QED BY <1>1, <1>2, <1>3, FS_Surjection

LEMMA CachedKeeps == ASSUME MipsInv, NEW t \in Thread, Cached(t) PROVE MipsInv'
<1>1. /\ At(t, "lookup") /\ Of(t) \in Levels(memory)
      /\ UNCHANGED <<memoryBytes, inflight, cleaned, folder, left>>
  BY DEF Cached
<1>2. threads[t] \in OfThread /\ Placed(t, threads[t]) BY PlacedNow
<1>3. left' \in Budget /\ left'.jobs = left.jobs BY <1>1 DEF MipsInv, Shapes
<1>4. CASE ~Current(t)
  <2>1. Raise(t, "stale") /\ UNCHANGED <<store, folder>> BY <1>4 DEF Cached, store
  <2>2. threads[t].pc \in Asks \cap Resting BY <1>1 DEF At, Asks, Resting, Pcs
  <2> QED BY <2>1, <2>2, <1>3, RaiseKeeps
<1>5. CASE Current(t)
  <2> DEFINE r == [threads[t] EXCEPT !.pc = "done", !.answer = "memory"]
  <2>1. memory' = ToEnd(memory, Of(t)) /\ threads' = [threads EXCEPT ![t] = r] BY <1>5 DEF Cached, Update
  <2>2. r \in OfThread /\ r.pc = "done" /\ r.owns = threads[t].owns /\ r.died = threads[t].died
    BY <1>2 DEF OfThread, Pcs
  <2> HIDE DEF r
  <2>3. memory \in Seq(InMemory) /\ Distinct(memory) /\ MemoryAccounted BY DEF MipsInv, InMemoryOK
  <2>4. memory' \in Seq(InMemory) /\ Levels(memory') = Levels(memory) /\ Distinct(memory')
    BY <1>1, <2>1, <2>3, ToEndKeeps
  <2>5. Bytes(memory') = Bytes(memory) BY <2>3, <2>4, SameLevels
  <2>6. Len(memory') = Len(memory)
    <3>1. Cardinality(Levels(memory)) = Len(memory) BY <2>3, LevelsCount
    <3>2. Cardinality(Levels(memory')) = Len(memory') BY <2>4, LevelsCount
    <3> QED BY <3>1, <3>2, <2>4
  <2>7. MemoryAccounted' BY <1>1, <2>3, <2>5, <2>6 DEF MemoryAccounted
  <2>7a. Distinct(memory)' BY <2>4 DEF Distinct
  <2>8. InMemoryOK' BY <2>4, <2>7, <2>7a DEF InMemoryOK
  <2>9. disk' = disk /\ temps' = temps /\ InFolderOK BY <1>1 DEF folder, MipsInv
  <2>10. InFolderOK' BY <2>9, InFolderUnchanged
  <2>11. Placed(t, r) BY <1>1, <1>2, <2>2 DEF Placed, At, Asks, Copies, Working
  <2>12. threads[t].pc = "lookup" BY <1>1 DEF At
  <2>13. Levels(disk') = Levels(disk) BY <2>9
  <2> QED BY <1>1, <1>3, <2>1, <2>2, <2>8, <2>9, <2>10, <2>11, <2>12, <2>13, StepKeeps
<1> QED BY <1>4, <1>5

LEMMA JoinKeeps == ASSUME MipsInv, NEW t \in Thread, Join(t) PROVE MipsInv'
<1> DEFINE r == [threads[t] EXCEPT !.pc = "wait", !.awaits = inflight[Of(t)]]
<1>1. /\ At(t, "lookup") /\ Of(t) \in DOMAIN inflight /\ threads' = [threads EXCEPT ![t] = r]
      /\ UNCHANGED <<store, folder, left>>
  BY DEF Join, Update
<1>2. threads[t] \in OfThread /\ Placed(t, threads[t]) BY PlacedNow
<1>3. left' \in Budget /\ left'.jobs = left.jobs BY <1>1 DEF MipsInv, Shapes
<1>4. inflight[Of(t)] \in Thread BY <1>1 DEF MipsInv, Shapes
<1>5. /\ r \in OfThread /\ r.pc = "wait" /\ r.owns = threads[t].owns /\ r.died = threads[t].died
      /\ r.awaits \in Thread
  BY <1>2, <1>4 DEF OfThread, Pcs
<1> HIDE DEF r
<1>6. Placed(t, r) BY <1>1, <1>2, <1>5 DEF Placed, At, Asks, Copies, Working
<1>7. threads[t].pc = "lookup" BY <1>1 DEF At
<1> QED BY <1>1, <1>3, <1>5, <1>6, <1>7, QuietKeeps

LEMMA AwaitKeeps == ASSUME MipsInv, NEW t \in Thread, Await(t) PROVE MipsInv'
<1>1. At(t, "wait") /\ UNCHANGED <<store, folder, left>> BY DEF Await
<1>2. Placed(t, threads[t]) BY PlacedNow
<1>3. left' \in Budget /\ left'.jobs = left.jobs BY <1>1 DEF MipsInv, Shapes
<1>4. threads[t].pc = "wait" /\ threads[t].pc \in Asks \cap Resting BY <1>1 DEF At, Asks, Resting, Pcs
<1>5. CASE Go(t, "lookup")
  <2>1. "lookup" \in Pcs /\ "lookup" \notin Copies /\ "lookup" \notin Working \cup {"release"} BY DEF Pcs, Copies, Working
  <2>2. t \in DOMAIN left.jobs /\ ~Saving(t) /\ ~threads[t].owns BY <1>2, <1>4 DEF Placed, Asks, Working
  <2> QED BY <1>1, <1>4, <1>5, <2>1, <2>2, GoKeeps
<1>6. CASE Raise(t, "stale") BY <1>1, <1>3, <1>4, <1>6, RaiseKeeps
<1> QED BY <1>5, <1>6 DEF Await

LEMMA AskGoes ==
  ASSUME MipsInv, NEW t \in Thread, NEW pc \in Asks \ {"lookup", "wait"}, Go(t, pc), UNCHANGED <<store, folder, left>>,
         threads[t].pc \in (Asks \cap Resting) \ {"lookup", "wait"}
  PROVE  MipsInv'
<1>1. Placed(t, threads[t]) BY PlacedNow
<1>2. pc \in Pcs /\ pc \notin Copies /\ pc # "wait" /\ pc \in Working \cup {"release"} BY DEF Pcs, Copies, Working, Asks
<1>3. ~Saving(t) /\ t \in DOMAIN left.jobs /\ threads[t].owns BY <1>1 DEF Placed, Asks, Resting, Working
<1>4. threads[t].pc \in Resting OBVIOUS
<1> QED BY <1>2, <1>3, <1>4, GoKeeps

LEMMA CheckLevelKeeps == ASSUME MipsInv, NEW t \in Thread, CheckLevel(t) PROVE MipsInv'
<1>1. threads[t].pc \in {"loaded", "build", "built"} /\ UNCHANGED <<store, folder, left>> BY DEF CheckLevel
<1>2. threads[t].pc \in (Asks \cap Resting) \ {"lookup", "wait"} BY <1>1 DEF Asks, Resting, Pcs, Working
<1>3. left' \in Budget /\ left'.jobs = left.jobs BY <1>1 DEF MipsInv, Shapes
<1>4. CASE ~Current(t)
  <2>1. Raise(t, "stale") BY <1>4 DEF CheckLevel
  <2>2. threads[t].pc \in Asks \cap Resting BY <1>2
  <2> QED BY <1>1, <1>3, <2>1, <2>2, RaiseKeeps
<1>5. CASE Current(t)
  <2>1. Go(t, "insert") \/ Go(t, "building") \/ Go(t, "write") BY <1>1, <1>5 DEF CheckLevel, At
  <2>2. {"insert", "building", "write"} \subseteq Asks \ {"lookup", "wait"} BY DEF Asks
  <2> QED BY <1>1, <1>2, <2>1, <2>2, AskGoes
<1> QED BY <1>4, <1>5

LEMMA BuildKeeps == ASSUME MipsInv, NEW t \in Thread, Build(t) PROVE MipsInv'
<1>1. threads[t].pc = "building" /\ UNCHANGED <<store, folder, left>> BY DEF Build, At
<1>2. threads[t].pc \in (Asks \cap Resting) \ {"lookup", "wait"} BY <1>1 DEF Asks, Resting, Pcs, Working
<1>3. left' \in Budget /\ left'.jobs = left.jobs BY <1>1 DEF MipsInv, Shapes
<1>4. CASE Go(t, "built")
  <2>1. "built" \in Asks \ {"lookup", "wait"} BY DEF Asks
  <2> QED BY <1>1, <1>2, <1>4, <2>1, AskGoes
<1>5. CASE Raise(t, "stale")
  <2>1. threads[t].pc \in Asks \cap Resting BY <1>2
  <2> QED BY <1>1, <1>3, <1>5, <2>1, RaiseKeeps
<1> QED BY <1>4, <1>5 DEF Build

LEMMA BuildFailsKeeps == ASSUME MipsInv, NEW t \in Thread, BuildFails(t) PROVE MipsInv'
<1>1. threads[t].pc = "building" /\ Spend("faults") /\ Raise(t, "error") /\ UNCHANGED <<store, folder>> BY DEF BuildFails, At
<1>2. threads[t].pc \in Asks \cap Resting BY <1>1 DEF Asks, Resting, Pcs, Working
<1>3. left' \in Budget /\ left'.jobs = left.jobs BY <1>1, SpendKeeps DEF MipsInv, Shapes
<1> QED BY <1>1, <1>2, <1>3, RaiseKeeps

\* Reading the folder, and memory.
LEMMA DiskMoves ==
  ASSUME MipsInv, NEW t \in Thread, NEW pc \in Asks \ {"lookup", "wait"}, Go(t, pc),
         threads[t].pc \in (Asks \cap Resting) \ {"lookup", "wait"},
         UNCHANGED <<store, temps, left>>, InFolderOK', Levels(disk') \subseteq Levels(disk)
  PROVE  MipsInv'
<1>1. threads[t] \in OfThread /\ Placed(t, threads[t]) BY PlacedNow
<1> DEFINE r == [threads[t] EXCEPT !.pc = pc]
<1>2. pc \in Pcs BY DEF Pcs, Asks, Working
<1>3. r \in OfThread /\ r.pc = pc /\ r.owns = threads[t].owns /\ r.died = threads[t].died
  BY <1>1, <1>2, GoIs
<1>4. threads' = [threads EXCEPT ![t] = r] BY DEF Go, Update
<1> HIDE DEF r
<1>5. ~Saving(t) /\ t \in DOMAIN left.jobs /\ threads[t].owns BY <1>1 DEF Placed, Asks, Resting, Working
<1>6. pc \notin Copies /\ pc # "wait" /\ pc \in Working \cup {"release"} BY DEF Copies, Working, Asks
<1>7. Placed(t, r) BY <1>3, <1>5, <1>6 DEF Placed
<1>8. threads[t].pc \notin {"sweep", "sweeping", "replace", "p_copy", "prune", "pruning"} BY DEF Resting
<1>9. left' \in Budget /\ left'.jobs = left.jobs BY DEF MipsInv, Shapes
<1>10. memory' = memory /\ memoryBytes' = memoryBytes /\ inflight' = inflight /\ cleaned' = cleaned BY DEF store
<1>11. InMemoryOK' BY <1>10, InMemoryUnchanged DEF MipsInv
<1>12. temps' \subseteq temps OBVIOUS
<1> QED BY <1>3, <1>4, <1>7, <1>8, <1>9, <1>10, <1>11, <1>12, StepKeeps

LEMMA ReadLevelKeeps == ASSUME MipsInv, NEW t \in Thread, ReadLevel(t) PROVE MipsInv'
<1>1. threads[t].pc = "read" /\ UNCHANGED <<store, temps, left>> BY DEF ReadLevel, At
<1>2. threads[t].pc \in (Asks \cap Resting) \ {"lookup", "wait"} BY <1>1 DEF Asks, Resting, Pcs, Working
<1>3. disk \in Seq(WholeFile) /\ Distinct(disk) BY DEF MipsInv, InFolderOK
<1>4. \/ Go(t, "discard") /\ UNCHANGED disk
      \/ Go(t, "build") /\ UNCHANGED disk
      \/ Of(t) \in Levels(disk) /\ Go(t, "loaded") /\ disk' = ToEnd(disk, Of(t))
  BY DEF ReadLevel
<1>5. {"discard", "build", "loaded"} \subseteq Asks \ {"lookup", "wait"} BY DEF Asks
<1>6. CASE UNCHANGED disk
  <2>1. InFolderOK' BY <1>6, InFolderUnchanged DEF MipsInv
  <2>2. Levels(disk') \subseteq Levels(disk) BY <1>6
  <2>3. PICK pc \in Asks \ {"lookup", "wait"} : Go(t, pc) BY <1>4, <1>5
  <2> QED BY <1>1, <1>2, <2>1, <2>2, <2>3, DiskMoves
<1>7. CASE Of(t) \in Levels(disk) /\ Go(t, "loaded") /\ disk' = ToEnd(disk, Of(t))
  <2>1. disk' \in Seq(WholeFile) /\ Levels(disk') = Levels(disk) /\ Distinct(disk') BY <1>3, <1>7, ToEndKeeps
  <2>2. InFolderOK' BY <2>1 DEF InFolderOK, Distinct
  <2>3. "loaded" \in Asks \ {"lookup", "wait"} BY DEF Asks
  <2> QED BY <1>1, <1>2, <1>7, <2>1, <2>2, <2>3, DiskMoves
<1> QED BY <1>4, <1>6, <1>7

LEMMA ReadFailsKeeps == ASSUME MipsInv, NEW t \in Thread, ReadFails(t) PROVE MipsInv'
<1>1. threads[t].pc = "read" /\ Spend("faults") /\ Go(t, "build") /\ UNCHANGED <<store, folder>> BY DEF ReadFails, At
<1>2. threads[t] \in OfThread /\ Placed(t, threads[t]) BY PlacedNow
<1>3. left' \in Budget /\ left'.jobs = left.jobs BY <1>1, SpendKeeps DEF MipsInv, Shapes
<1> DEFINE r == [threads[t] EXCEPT !.pc = "build"]
<1>4. r \in OfThread /\ r.pc = "build" /\ r.owns = threads[t].owns /\ r.died = threads[t].died
  BY <1>2 DEF OfThread, Pcs, Working
<1>5. threads' = [threads EXCEPT ![t] = r] BY <1>1 DEF Go, Update
<1> HIDE DEF r
<1>6. Placed(t, r) BY <1>1, <1>2, <1>4 DEF Placed, Asks, Copies, Working
<1> QED BY <1>1, <1>3, <1>4, <1>5, <1>6, QuietKeeps

LEMMA DiscardCorruptKeeps == ASSUME MipsInv, NEW t \in Thread, _discard_corrupt(t) PROVE MipsInv'
<1>1. /\ threads[t].pc = "discard" /\ UNCHANGED <<store, temps, left>> /\ Go(t, "build")
      /\ disk' = Without(disk, {Of(t)})
  BY DEF _discard_corrupt, At
<1>2. threads[t].pc \in (Asks \cap Resting) \ {"lookup", "wait"} BY <1>1 DEF Asks, Resting, Pcs, Working
<1>3. disk \in Seq(WholeFile) /\ Distinct(disk) BY DEF MipsInv, InFolderOK
<1>4. /\ disk' \in Seq(WholeFile) /\ Levels(disk') = Levels(disk) \ {Of(t)} /\ Distinct(disk')
  BY <1>1, <1>3, WithoutKeeps
<1>5. InFolderOK' BY <1>4 DEF InFolderOK, Distinct
<1>6. "build" \in Asks \ {"lookup", "wait"} /\ Levels(disk') \subseteq Levels(disk) BY <1>4 DEF Asks
<1> QED BY <1>1, <1>2, <1>5, <1>6, DiskMoves

LEMMA OfLevel == ASSUME MipsInv, NEW t \in DOMAIN left.jobs PROVE t \in Thread /\ Of(t) \in Level
<1>1. PICK asking \in SUBSET Thread : left.jobs \in [asking -> Job] BY DEF MipsInv, Shapes, Budget
<1>2. left.jobs[t] \in Job /\ t \in asking BY <1>1
<1> QED BY <1>1, <1>2 DEF Of, Job

\* The smallest number of the oldest entries that may go.
LEMMA MinIs ==
  ASSUME NEW T, T \subseteq Nat, T # {}
  PROVE  Min(T) \in T
BY Least DEF Min

\* A level enters memory, the oldest leave: the bytes counted by hand stay
\* the bytes of what is kept.
LEMMA InsertMemoryKeeps ==
  ASSUME InMemoryOK, NEW t \in Thread, Of(t) \in Level, InsertMemory(t)
  PROVE  InMemoryOK'
<1> DEFINE without == Without(memory, {Of(t)})
           entry == [level |-> Of(t), array |-> t]
           kept == Append(without, entry)
           Counted(k) == memoryBytes + Bytes(kept) - Bytes(memory) - Bytes(SubSeq(kept, 1, k))
           drops == {k \in 0..Len(kept) : Counted(k) <= MemoryBudget \/ Len(kept) - k <= 2}
           drop == Min(drops)
<1>0. memory \in Seq(InMemory) /\ Distinct(memory) /\ MemoryAccounted BY DEF InMemoryOK
<1>1. /\ without \in Seq(InMemory) /\ Levels(without) = Levels(memory) \ {Of(t)} /\ Distinct(without)
  BY <1>0, WithoutKeeps
<1>2. entry \in InMemory /\ entry.level = Of(t) BY DEF InMemory
<1>2a. memory' = SubSeq(kept, drop + 1, Len(kept)) /\ memoryBytes' = Counted(drop) BY DEF InsertMemory
<1> HIDE DEF without, entry
<1>3. kept \in Seq(InMemory) /\ Distinct(kept)
  BY <1>1, <1>2, AppendKeeps
<1> HIDE DEF kept
<1>4. Len(kept) \in Nat BY <1>3
<1>5. Len(kept) \in drops BY <1>4
<1>6. drops \subseteq Nat BY <1>4
<1>7. drop \in drops
  <2> HIDE DEF drops
  <2> QED BY <1>5, <1>6, MinIs
<1>8. drop \in 0..Len(kept) /\ (Counted(drop) <= MemoryBudget \/ Len(kept) - drop <= 2) BY <1>7
<1> HIDE DEF drop, drops
<1> DEFINE first == SubSeq(kept, 1, drop)
           rest == SubSeq(kept, drop + 1, Len(kept))
<1>9. /\ first \in Seq(InMemory) /\ rest \in Seq(InMemory)
      /\ Levels(kept) = Levels(first) \cup Levels(rest) /\ Levels(first) \cap Levels(rest) = {}
      /\ Distinct(rest) /\ Len(rest) = Len(kept) - drop
  BY <1>3, <1>8, Splits
<1>9a. Counted(drop) = memoryBytes + Bytes(kept) - Bytes(memory) - Bytes(first) /\ memory' = rest BY <1>2a
<1> HIDE DEF first, rest, Counted
<1>10. Levels(kept) \subseteq Level BY <1>3, MemoryLevels
<1>11. Bytes(kept) = Bytes(first) + Bytes(rest) BY <1>3, <1>9, <1>10, FiniteLevels, BytesAdd
<1>12. Bytes(first) \in Nat /\ Bytes(rest) \in Nat
  <2>1. Levels(first) \subseteq Level /\ Levels(rest) \subseteq Level BY <1>9, <1>10
  <2>2. Bytes(first) \in Nat BY <1>9, <2>1, BytesCount
  <2>3. Bytes(rest) \in Nat BY <1>9, <2>1, BytesCount
  <2> QED BY <2>2, <2>3
<1>13. memoryBytes = Bytes(memory) /\ Bytes(memory) \in Nat
  BY <1>0, MemoryLevels, BytesCount DEF MemoryAccounted
<1>14. Counted(drop) = Bytes(rest) BY <1>9a, <1>11, <1>12, <1>13
<1>15. memoryBytes' = Bytes(memory') BY <1>2a, <1>9a, <1>14
<1>16. memoryBytes' <= MemoryBudget \/ Len(memory') <= 2 BY <1>2a, <1>8, <1>9, <1>9a
<1>17. MemoryAccounted' BY <1>15, <1>16 DEF MemoryAccounted
<1>18. Distinct(memory)' BY <1>9, <1>9a DEF Distinct
<1> QED BY <1>9, <1>9a, <1>17, <1>18 DEF InMemoryOK

LEMMA InsertKeeps == ASSUME MipsInv, NEW t \in Thread, Insert(t) PROVE MipsInv'
<1>1. threads[t].pc = "insert" /\ UNCHANGED <<inflight, cleaned, folder, left>> BY DEF Insert, At
<1>2. threads[t] \in OfThread /\ Placed(t, threads[t]) BY PlacedNow
<1>3. left' \in Budget /\ left'.jobs = left.jobs BY <1>1 DEF MipsInv, Shapes
<1>4. CASE ~Current(t)
  <2>1. Raise(t, "stale") /\ UNCHANGED <<store, folder>> BY <1>4 DEF Insert, store
  <2>2. threads[t].pc \in Asks \cap Resting BY <1>1 DEF Asks, Resting, Pcs, Working
  <2> QED BY <1>3, <2>1, <2>2, RaiseKeeps
<1>5. CASE Current(t)
  <2> DEFINE r == [threads[t] EXCEPT !.pc = "release", !.answer = "level"]
  <2>1. threads' = [threads EXCEPT ![t] = r] BY <1>5 DEF Insert, Update
  <2>2. r \in OfThread /\ r.pc = "release" /\ r.owns = threads[t].owns /\ r.died = threads[t].died
    BY <1>2 DEF OfThread, Pcs
  <2> HIDE DEF r
  <2>3. Placed(t, r) BY <1>1, <1>2, <2>2 DEF Placed, Asks, Copies, Working
  <2>4. InMemoryOK BY DEF MipsInv
  <2>5. t \in DOMAIN left.jobs BY <1>1, <1>2 DEF Placed
  <2>6. Of(t) \in Level BY <2>5, OfLevel
  <2>7. InsertMemory(t) \/ UNCHANGED <<memory, memoryBytes>> BY <1>5 DEF Insert
  <2>8. InMemoryOK' BY <2>4, <2>6, <2>7, InsertMemoryKeeps, InMemoryUnchanged
  <2>9. disk' = disk /\ temps' = temps /\ InFolderOK BY <1>1 DEF folder, MipsInv
  <2>10. InFolderOK' /\ Levels(disk') \subseteq Levels(disk) BY <2>9, InFolderUnchanged
  <2> QED BY <1>1, <1>3, <2>1, <2>2, <2>3, <2>8, <2>9, <2>10, StepKeeps
<1> QED BY <1>4, <1>5

\* Flights, and the sweep of the folder.
LEMMA RestKept ==
  ASSUME MipsInv, NEW t \in Thread, NEW r \in OfThread, threads' = [threads EXCEPT ![t] = r],
         UNCHANGED <<memory, memoryBytes, left>>, Placed(t, r)
  PROVE  /\ threads' \in [Thread -> OfThread] /\ Local' /\ InMemoryOK'
         /\ left' \in Budget /\ left'.jobs = left.jobs
<1>1. Shapes /\ Local /\ InMemoryOK BY DEF MipsInv
<1>2. left' \in Budget /\ left'.jobs = left.jobs BY <1>1 DEF Shapes
<1>3. threads' \in [Thread -> OfThread] /\ Local' BY <1>1, <1>2, LocalKept
<1>4. InMemoryOK' BY <1>1, InMemoryUnchanged
<1> QED BY <1>2, <1>3, <1>4

LEMMA FlyKeeps == ASSUME MipsInv, NEW t \in Thread, Fly(t) PROVE MipsInv'
<1> DEFINE pc == IF Persists(t) THEN "clean" ELSE "read"
<1>1. pc \in Pcs /\ pc \in Working \ {"sweep", "sweeping", "replace", "prune", "pruning"} BY DEF Pcs, Working
<1>1a. pc \notin Copies /\ pc # "wait" /\ pc # "new" BY DEF Copies
<1>1b. threads' = [threads EXCEPT ![t] = [threads[t] EXCEPT !.owns = TRUE, !.pc = pc]] BY DEF Fly, Update
<1> HIDE DEF pc
<1> DEFINE r == [threads[t] EXCEPT !.owns = TRUE, !.pc = pc]
<1>2. /\ threads[t].pc = "lookup" /\ Of(t) \notin DOMAIN inflight
      /\ inflight' = Put(inflight, Of(t), t) /\ UNCHANGED <<memory, memoryBytes, cleaned, folder, left>>
  BY DEF Fly, At
<1>3. threads[t] \in OfThread /\ Placed(t, threads[t]) BY PlacedNow
<1>4. r \in OfThread /\ r.owns = TRUE /\ r.pc = pc /\ r.died = threads[t].died BY <1>1, <1>3 DEF OfThread
<1>5. threads' = [threads EXCEPT ![t] = r] BY <1>1b
<1> HIDE DEF r
<1>6. ~Saving(t) /\ t \in DOMAIN left.jobs BY <1>2, <1>3 DEF Placed, Asks
<1>7. Placed(t, r) BY <1>1, <1>1a, <1>4, <1>6 DEF Placed
<1>8. /\ threads' \in [Thread -> OfThread] /\ Local' /\ InMemoryOK' /\ left' \in Budget /\ left'.jobs = left.jobs
  BY <1>2, <1>4, <1>5, <1>7, RestKept
<1>9. Shapes /\ Owning /\ Swept /\ Pruned /\ InFolderOK BY DEF MipsInv
<1>10. Of(t) \in Level BY <1>6, OfLevel
<1>11. /\ DOMAIN inflight' = DOMAIN inflight \cup {Of(t)}
       /\ inflight'[Of(t)] = t
       /\ \A level \in DOMAIN inflight : inflight'[level] = inflight[level]
       /\ inflight' = [level \in DOMAIN inflight' |-> inflight'[level]]
  BY <1>2 DEF Put
<1>12. DOMAIN inflight' \subseteq Level /\ inflight' \in [DOMAIN inflight' -> Thread]
  <2>1. \A level \in DOMAIN inflight' : inflight'[level] \in Thread BY <1>9, <1>11 DEF Shapes
  <2> QED BY <1>9, <1>10, <1>11, <2>1 DEF Shapes
<1>13. temps' = temps /\ disk' = disk /\ cleaned' = cleaned BY <1>2 DEF folder
<1>14. Shapes' BY <1>8, <1>9, <1>12, <1>13 DEF Shapes
<1>15. threads'[t] = r /\ \A o \in Thread : o # t => threads'[o] = threads[o] BY <1>5, <1>9, OnlyThis DEF Shapes
<1>16. Owning'
  <2>1. ASSUME NEW o \in Thread, threads'[o].owns PROVE (Of(o) \in DOMAIN inflight /\ inflight[Of(o)] = o)'
    <3>1. Of(o)' = Of(o) /\ Of(t)' = Of(t) BY <1>8, SameJobs
    <3>2. CASE o = t BY <3>1, <3>2, <1>11
    <3>3. CASE o # t
      <4>1. Of(o) \in DOMAIN inflight /\ inflight[Of(o)] = o BY <2>1, <3>3, <1>9, <1>15 DEF Owning
      <4> QED BY <3>1, <4>1, <1>11
    <3> QED BY <3>2, <3>3
  <2> QED BY <2>1 DEF Owning
<1>17. Swept' BY <1>2, <1>4, <1>5, <1>9, <1>13, SweptKept
<1>18. InFolderOK' BY <1>9, <1>13, InFolderUnchanged
<1>19. disk \in Seq(WholeFile) /\ disk' \in Seq(WholeFile) /\ Levels(disk') \subseteq Levels(disk)
  BY <1>9, <1>13 DEF InFolderOK
<1>20. Pruned' BY <1>2, <1>4, <1>5, <1>9, <1>19, PrunedKept
<1> QED BY <1>8, <1>14, <1>16, <1>17, <1>18, <1>20 DEF MipsInv

LEMMA ReleaseKeeps == ASSUME MipsInv, NEW t \in Thread, Release(t) PROVE MipsInv'
<1> DEFINE r == [threads[t] EXCEPT !.owns = FALSE, !.pc = "done"]
<1>2. /\ threads[t].pc = "release" /\ threads' = [threads EXCEPT ![t] = r]
      /\ UNCHANGED <<memory, memoryBytes, cleaned, folder, left>>
  BY DEF Release, At, Update
<1>3. threads[t] \in OfThread /\ Placed(t, threads[t]) BY PlacedNow
<1>4. r \in OfThread /\ r.owns = FALSE /\ r.pc = "done" /\ r.died = threads[t].died BY <1>3 DEF OfThread, Pcs
<1> HIDE DEF r
<1>6. ~Saving(t) /\ t \in DOMAIN left.jobs BY <1>2, <1>3 DEF Placed, Asks
<1>7. Placed(t, r) BY <1>4, <1>6 DEF Placed, Copies, Asks, Working
<1>8. /\ threads' \in [Thread -> OfThread] /\ Local' /\ InMemoryOK' /\ left' \in Budget /\ left'.jobs = left.jobs
  BY <1>2, <1>4, <1>7, RestKept
<1>9. Shapes /\ Owning /\ Swept /\ Pruned /\ InFolderOK BY DEF MipsInv
<1>11. inflight' = inflight \/ (Of(t) \in DOMAIN inflight /\ inflight[Of(t)] = t /\ inflight' = Drop(inflight, Of(t)))
  BY DEF Release
<1>12. DOMAIN inflight' \subseteq Level /\ inflight' \in [DOMAIN inflight' -> Thread]
  BY <1>9, <1>11 DEF Shapes, Drop
<1>13. temps' = temps /\ disk' = disk /\ cleaned' = cleaned BY <1>2 DEF folder
<1>14. Shapes' BY <1>8, <1>9, <1>12, <1>13 DEF Shapes
<1>15. threads'[t] = r /\ \A o \in Thread : o # t => threads'[o] = threads[o] BY <1>2, <1>9, OnlyThis DEF Shapes
<1>16. Owning'
  <2>1. ASSUME NEW o \in Thread, threads'[o].owns PROVE (Of(o) \in DOMAIN inflight /\ inflight[Of(o)] = o)'
    <3>1. Of(o)' = Of(o) BY <1>8, SameJobs
    <3>2. o # t BY <2>1, <1>4, <1>15
    <3>3. Of(o) \in DOMAIN inflight /\ inflight[Of(o)] = o BY <2>1, <3>2, <1>9, <1>15 DEF Owning
    <3>4. CASE inflight' = inflight BY <3>1, <3>3, <3>4
    <3>5. CASE inflight[Of(t)] = t /\ inflight' = Drop(inflight, Of(t))
      <4>1. Of(o) # Of(t) BY <3>2, <3>3, <3>5
      <4> QED BY <3>1, <3>3, <3>5, <4>1 DEF Drop
    <3> QED BY <3>4, <3>5, <1>11
  <2> QED BY <2>1 DEF Owning
<1>17. Swept' BY <1>2, <1>4, <1>9, <1>13, SweptKept
<1>18. InFolderOK' BY <1>9, <1>13, InFolderUnchanged
<1>19. disk \in Seq(WholeFile) /\ disk' \in Seq(WholeFile) /\ Levels(disk') \subseteq Levels(disk)
  BY <1>9, <1>13 DEF InFolderOK
<1>20. Pruned' BY <1>2, <1>4, <1>9, <1>19, PrunedKept
<1> QED BY <1>8, <1>14, <1>16, <1>17, <1>18, <1>20 DEF MipsInv

\* Every step but a flight's: what is left to show of files and sweeps.
LEMMA FolderKeeps ==
  ASSUME MipsInv, NEW t \in Thread, NEW r \in OfThread, threads' = [threads EXCEPT ![t] = r],
         left' \in Budget, left'.jobs = left.jobs,
         UNCHANGED <<memory, memoryBytes, inflight>>, cleaned' \in BOOLEAN, temps' \subseteq Thread,
         Placed(t, r), r.owns => threads[t].owns, InFolderOK', Swept', Pruned'
  PROVE  MipsInv'
<1>1. Shapes /\ Local /\ Owning /\ InMemoryOK BY DEF MipsInv
<1>2. threads' \in [Thread -> OfThread] /\ Local' BY <1>1, LocalKept
<1>3. Shapes' BY <1>1, <1>2 DEF Shapes
<1>4. Owning' BY <1>1, OwningKept
<1>5. InMemoryOK' BY <1>1, InMemoryUnchanged
<1> QED BY <1>2, <1>3, <1>4, <1>5 DEF MipsInv

LEMMA CleaningKeeps == ASSUME MipsInv, NEW t \in Thread, Cleaning(t) PROVE MipsInv'
<1> DEFINE pc == IF ~cleaned THEN "sweep" ELSE IF Saving(t) THEN "p_check" ELSE "read"
<1>1. /\ threads[t].pc = "clean" /\ cleaned' = TRUE /\ Go(t, pc)
      /\ UNCHANGED <<memory, memoryBytes, inflight, folder, left>>
  BY DEF Cleaning, At
<1>2. pc \in {"sweep", "p_check", "read"} OBVIOUS
<1>2a. (pc = "p_check" => Saving(t)) /\ (pc = "read" => ~Saving(t)) /\ (~cleaned => pc = "sweep") OBVIOUS
<1> HIDE DEF pc
<1>3. threads[t] \in OfThread /\ Placed(t, threads[t]) BY PlacedNow
<1> DEFINE r == [threads[t] EXCEPT !.pc = pc]
<1>4. r \in OfThread /\ r.pc = pc /\ r.owns = threads[t].owns /\ r.died = threads[t].died
  BY <1>2, <1>3 DEF OfThread, Pcs, Working
<1>5. threads' = [threads EXCEPT ![t] = r] BY <1>1 DEF Go, Update
<1> HIDE DEF r
<1>6. Placed(t, r) BY <1>1, <1>2, <1>2a, <1>3, <1>4 DEF Placed, Asks, Copies, Working
<1>7. Shapes /\ Swept /\ Pruned /\ InFolderOK BY DEF MipsInv
<1>8. disk' = disk /\ temps' = temps /\ left' \in Budget /\ left'.jobs = left.jobs BY <1>1, <1>7 DEF folder, Shapes
<1>9. Swept'
  <2>1. CASE ~cleaned
    <3>1. At(t, "sweep")' BY <2>1, <1>2a, <1>4, <1>5, <1>7 DEF At, Shapes
    <3> QED BY <3>1 DEF Swept, Leftover
  <2>2. CASE cleaned
    <3>1. cleaned' = cleaned /\ temps' \subseteq temps BY <2>2, <1>1, <1>7, <1>8 DEF Shapes
    <3> QED BY <3>1, <1>1, <1>4, <1>5, <1>7, SweptKept
  <2> QED BY <2>1, <2>2
<1>10. disk \in Seq(WholeFile) /\ disk' \in Seq(WholeFile) /\ Levels(disk') \subseteq Levels(disk)
  BY <1>7, <1>8 DEF InFolderOK
<1>11. Pruned' BY <1>1, <1>4, <1>5, <1>7, <1>10, PrunedKept
<1>12. InFolderOK' BY <1>7, <1>8, InFolderUnchanged
<1>13. cleaned' \in BOOLEAN /\ temps' \subseteq Thread BY <1>1, <1>7, <1>8 DEF Shapes
<1> QED BY <1>1, <1>4, <1>5, <1>6, <1>8, <1>9, <1>11, <1>12, <1>13, FolderKeeps

LEMMA SweepKeeps == ASSUME MipsInv, NEW t \in Thread, Sweep(t) PROVE MipsInv'
<1>0. Shapes /\ Swept /\ Pruned /\ InFolderOK BY DEF MipsInv
<1>1. threads[t] \in OfThread /\ Placed(t, threads[t]) BY PlacedNow
<1>2. CASE /\ At(t, "sweep")
           /\ Update(t, [threads[t] EXCEPT !.pc = "sweeping", !.sweeping = temps])
           /\ disk' = Without(disk, Old)
           /\ UNCHANGED <<store, temps, left>>
  <2> DEFINE r == [threads[t] EXCEPT !.pc = "sweeping", !.sweeping = temps]
  <2>1. /\ r \in OfThread /\ r.pc = "sweeping" /\ r.sweeping = temps /\ r.owns = threads[t].owns
        /\ r.died = threads[t].died
    BY <1>0, <1>1 DEF OfThread, Pcs, Working, Shapes
  <2>2. threads' = [threads EXCEPT ![t] = r] BY <1>2 DEF Update
  <2> HIDE DEF r
  <2>3. Placed(t, r) BY <1>1, <1>2, <2>1 DEF Placed, Asks, Copies, Working, At
  <2>4. disk \in Seq(WholeFile) /\ Distinct(disk) BY <1>0 DEF InFolderOK
  <2>5. disk' \in Seq(WholeFile) /\ Distinct(disk') /\ Levels(disk') = Levels(disk) \ Old BY <1>2, <2>4, WithoutKeeps
  <2>6. InFolderOK' BY <2>5 DEF InFolderOK, Distinct
  <2>7. threads[t].pc = "sweep" /\ temps' = temps /\ cleaned' = cleaned /\ left' = left
        /\ UNCHANGED <<memory, memoryBytes, inflight>>
    BY <1>2 DEF At, store
  <2>8. Swept'
    <3>1. At(t, "sweeping")' /\ threads'[t].sweeping = temps BY <1>0, <2>1, <2>2 DEF At, Shapes
    <3>2. \A x \in temps' : Leftover(x)' BY <3>1, <2>7 DEF Leftover
    <3> QED BY <3>2 DEF Swept
  <2>9. Levels(disk') \subseteq Levels(disk) BY <2>5
  <2>10. Pruned' BY <1>0, <2>1, <2>2, <2>4, <2>5, <2>7, <2>9, PrunedKept
  <2>11. left' \in Budget /\ left'.jobs = left.jobs /\ cleaned' \in BOOLEAN /\ temps' \subseteq Thread
    BY <1>0, <2>7 DEF Shapes
  <2> QED BY <2>1, <2>2, <2>3, <2>6, <2>7, <2>8, <2>10, <2>11, FolderKeeps
<1>3. ASSUME At(t, "sweeping"), NEW found \in threads[t].sweeping, temps' = temps \ {found},
             Update(t, [threads[t] EXCEPT !.sweeping = @ \ {found}]), UNCHANGED <<store, disk, left>>
      PROVE  MipsInv'
  <2> DEFINE r == [threads[t] EXCEPT !.sweeping = @ \ {found}]
  <2>1. /\ r \in OfThread /\ r.pc = threads[t].pc /\ r.sweeping = threads[t].sweeping \ {found}
        /\ r.owns = threads[t].owns /\ r.died = threads[t].died
    BY <1>1 DEF OfThread
  <2>2. threads' = [threads EXCEPT ![t] = r] BY <1>3 DEF Update
  <2> HIDE DEF r
  <2>3. Placed(t, r) BY <1>1, <1>3, <2>1 DEF Placed, Asks, Copies, Working, At
  <2>4. /\ threads[t].pc = "sweeping" /\ memory' = memory /\ memoryBytes' = memoryBytes /\ inflight' = inflight
        /\ cleaned' = cleaned /\ disk' = disk /\ left' = left
    BY <1>3 DEF At, store
  <2>5. InMemoryOK' /\ InFolderOK' BY <2>4, InMemoryUnchanged, InFolderUnchanged DEF MipsInv
  <2>6. Levels(disk') \subseteq Levels(disk) /\ left' \in Budget /\ left'.jobs = left.jobs BY <1>0, <2>4 DEF Shapes
  <2>7. temps' \subseteq temps /\ threads[t].sweeping \cap temps' \subseteq r.sweeping BY <1>3, <2>1
  <2> QED BY <2>1, <2>2, <2>3, <2>4, <2>5, <2>6, <2>7, StepKeeps
<1>4. CASE /\ At(t, "sweeping") /\ threads[t].sweeping = {}
           /\ Go(t, IF Saving(t) THEN "p_check" ELSE "read")
           /\ UNCHANGED <<store, folder, left>>
  <2> DEFINE pc == IF Saving(t) THEN "p_check" ELSE "read"
  <2>1. pc \in {"p_check", "read"} /\ (pc = "p_check" => Saving(t)) /\ (pc = "read" => ~Saving(t)) /\ Go(t, pc)
    BY <1>4
  <2> HIDE DEF pc
  <2> DEFINE r == [threads[t] EXCEPT !.pc = pc]
  <2>2. /\ r \in OfThread /\ r.pc = pc /\ r.owns = threads[t].owns /\ r.died = threads[t].died
    BY <1>1, <2>1 DEF OfThread, Pcs, Working
  <2>3. threads' = [threads EXCEPT ![t] = r] BY <2>1 DEF Go, Update
  <2> HIDE DEF r
  <2>4. /\ threads[t].pc = "sweeping" /\ threads[t].sweeping = {} /\ left' = left /\ disk' = disk /\ temps' = temps
        /\ cleaned' = cleaned /\ UNCHANGED <<memory, memoryBytes, inflight>>
    BY <1>4 DEF At, folder, store
  <2>5. Placed(t, r) BY <1>1, <2>1, <2>2, <2>4 DEF Placed, Asks, Copies, Working
  <2>6. Swept'
    <3>1. threads'[t] = r /\ \A o \in Thread : o # t => threads'[o] = threads[o] BY <1>0, <2>3, OnlyThis DEF Shapes
    <3>2. ASSUME cleaned', NEW x \in temps' PROVE threads'[x].pc \in {"replace", "p_copy"} \/ Leftover(x)'
      <4>1. x \in temps /\ x \in Thread /\ cleaned BY <1>0, <2>4, <3>2 DEF Shapes
      <4>2. CASE threads[x].pc \in {"replace", "p_copy"}
        <5>1. x # t BY <2>4, <4>2
        <5> QED BY <3>1, <4>1, <4>2, <5>1
      <4>3. CASE Leftover(x)
        <5>1. PICK o \in Thread : At(o, "sweep") \/ (At(o, "sweeping") /\ x \in threads[o].sweeping)
          BY <4>3 DEF Leftover
        <5>2. o # t BY <2>4, <5>1 DEF At
        <5>3. (At(o, "sweep") \/ (At(o, "sweeping") /\ x \in threads[o].sweeping))' BY <3>1, <5>1, <5>2 DEF At
        <5> QED BY <5>3 DEF Leftover
      <4> QED BY <1>0, <4>1, <4>2, <4>3 DEF Swept
    <3> QED BY <3>2 DEF Swept
  <2>7. disk \in Seq(WholeFile) /\ disk' \in Seq(WholeFile) /\ Levels(disk') \subseteq Levels(disk)
    BY <1>0, <2>4 DEF InFolderOK
  <2>8. Pruned' BY <1>0, <2>2, <2>3, <2>4, <2>7, PrunedKept
  <2>9. InFolderOK' BY <1>0, <2>4, InFolderUnchanged
  <2>10. left' \in Budget /\ left'.jobs = left.jobs /\ cleaned' \in BOOLEAN /\ temps' \subseteq Thread
    BY <1>0, <2>4 DEF Shapes
  <2> QED BY <2>2, <2>3, <2>4, <2>5, <2>6, <2>8, <2>9, <2>10, FolderKeeps
<1> QED BY <1>2, <1>3, <1>4 DEF Sweep

\* Temporary files and replacements.
LEMMA SweptSpares ==
  ASSUME Shapes, Swept, NEW t \in Thread, NEW r \in OfThread, threads' = [threads EXCEPT ![t] = r],
         cleaned' = cleaned, temps' = temps \cup {t}, r.pc \in {"replace", "p_copy"},
         threads[t].pc \notin {"sweep", "sweeping"}
  PROVE  Swept'
<1>1. threads'[t] = r /\ \A o \in Thread : o # t => threads'[o] = threads[o] BY OnlyThis DEF Shapes
<1>2. ASSUME cleaned', NEW x \in temps' PROVE threads'[x].pc \in {"replace", "p_copy"} \/ Leftover(x)'
  <2>1. CASE x = t BY <2>1, <1>1
  <2>2. CASE x # t
    <3>1. x \in temps /\ x \in Thread BY <1>2, <2>2 DEF Shapes
    <3>2. CASE threads[x].pc \in {"replace", "p_copy"} BY <3>1, <3>2, <2>2, <1>1
    <3>3. CASE Leftover(x)
      <4>1. PICK o \in Thread : At(o, "sweep") \/ (At(o, "sweeping") /\ x \in threads[o].sweeping)
        BY <3>3 DEF Leftover
      <4>2. o # t BY <4>1 DEF At
      <4>3. (At(o, "sweep") \/ (At(o, "sweeping") /\ x \in threads[o].sweeping))' BY <1>1, <4>1, <4>2 DEF At
      <4> QED BY <4>3 DEF Leftover
    <3> QED BY <1>2, <3>1, <3>2, <3>3 DEF Swept
  <2> QED BY <2>1, <2>2
<1> QED BY <1>2 DEF Swept

\* A step that adds the thread's temporary file.
LEMMA TempKeeps ==
  ASSUME MipsInv, NEW t \in Thread, NEW r \in OfThread, threads' = [threads EXCEPT ![t] = r],
         UNCHANGED <<store, disk, left>>, temps' = temps \cup {t}, r.pc \in {"replace", "p_copy"},
         threads[t].pc \in Resting, Placed(t, r), r.owns => threads[t].owns, r.died = threads[t].died
  PROVE  MipsInv'
<1>1. Shapes /\ Swept /\ Pruned /\ InFolderOK BY DEF MipsInv
<1>2. /\ UNCHANGED <<memory, memoryBytes, inflight>> /\ cleaned' = cleaned /\ disk' = disk
      /\ left' \in Budget /\ left'.jobs = left.jobs /\ cleaned' \in BOOLEAN /\ temps' \subseteq Thread
  BY <1>1 DEF store, Shapes
<1>3. threads[t].pc \notin {"sweep", "sweeping", "prune", "pruning"} BY DEF Resting
<1>4. Swept' BY <1>1, <1>2, <1>3, SweptSpares
<1>5. disk \in Seq(WholeFile) /\ disk' \in Seq(WholeFile) /\ Levels(disk') \subseteq Levels(disk)
  BY <1>1, <1>2 DEF InFolderOK
<1>6. Pruned' BY <1>1, <1>3, <1>5, PrunedKept
<1>7. InFolderOK' BY <1>1, <1>2, InFolderUnchanged
<1> QED BY <1>2, <1>4, <1>6, <1>7, FolderKeeps

LEMMA WriteTempKeeps == ASSUME MipsInv, NEW t \in Thread, WriteTemp(t) PROVE MipsInv'
<1> DEFINE r == [threads[t] EXCEPT !.pc = "replace"]
<1>1. /\ threads[t].pc = "write" /\ temps' = temps \cup {t} /\ threads' = [threads EXCEPT ![t] = r]
      /\ UNCHANGED <<store, disk, left>>
  BY DEF WriteTemp, At, Go, Update
<1>2. threads[t] \in OfThread /\ Placed(t, threads[t]) BY PlacedNow
<1>3. r \in OfThread /\ r.pc = "replace" /\ r.owns = threads[t].owns /\ r.died = threads[t].died
  BY <1>2 DEF OfThread, Pcs, Working
<1> HIDE DEF r
<1>4. Placed(t, r) BY <1>1, <1>2, <1>3 DEF Placed, Asks, Copies, Working
<1>5. threads[t].pc \in Resting BY <1>1 DEF Resting, Pcs, Working
<1> QED BY <1>1, <1>3, <1>4, <1>5, TempKeeps

LEMMA PersistCheckKeeps == ASSUME MipsInv, NEW t \in Thread, PersistCheck(t) PROVE MipsInv'
<1>1. threads[t].pc = "p_check" /\ UNCHANGED <<store, disk, left>> BY DEF PersistCheck, At
<1>2. threads[t] \in OfThread /\ Placed(t, threads[t]) BY PlacedNow
<1>3. threads[t].pc \in Resting BY <1>1 DEF Resting, Pcs, Working
<1>4. CASE Go(t, "done") /\ UNCHANGED temps
  <2>1. UNCHANGED <<store, folder, left>> BY <1>1, <1>4 DEF folder
  <2>2. /\ "done" \in Pcs /\ "done" # "wait" /\ "done" \notin Copies /\ "done" \notin Asks
        /\ "done" \notin Working \cup {"release"}
    BY DEF Pcs, Copies, Asks, Working
  <2>3. t \in DOMAIN left.jobs /\ ~threads[t].owns BY <1>1, <1>2 DEF Placed, Working
  <2> QED BY <1>3, <1>4, <2>1, <2>2, <2>3, GoKeeps
<1>5. CASE Update(t, [threads[t] EXCEPT !.pc = "p_copy", !.chunks = 0]) /\ temps' = temps \cup {t}
  <2> DEFINE r == [threads[t] EXCEPT !.pc = "p_copy", !.chunks = 0]
  <2>1. r \in OfThread /\ r.pc = "p_copy" /\ r.owns = threads[t].owns /\ r.died = threads[t].died
    BY <1>2 DEF OfThread, Pcs
  <2>2. threads' = [threads EXCEPT ![t] = r] BY <1>5 DEF Update
  <2> HIDE DEF r
  <2>3. Placed(t, r) BY <1>1, <1>2, <2>1 DEF Placed, Asks, Copies, Working
  <2> QED BY <1>1, <1>3, <1>5, <2>1, <2>2, <2>3, TempKeeps
<1> QED BY <1>4, <1>5 DEF PersistCheck

LEMMA ReplaceKeeps == ASSUME MipsInv, NEW t \in Thread, Replace(t) PROVE MipsInv'
<1>1. threads[t].pc = "replace" /\ UNCHANGED <<store, left>> /\ temps' = temps \ {t} BY DEF Replace, At
<1>2. threads[t] \in OfThread /\ Placed(t, threads[t]) BY PlacedNow
<1>3. /\ Shapes /\ Swept /\ Pruned /\ InFolderOK BY DEF MipsInv
<1>4. /\ UNCHANGED <<memory, memoryBytes, inflight>> /\ cleaned' = cleaned
      /\ left' \in Budget /\ left'.jobs = left.jobs /\ cleaned' \in BOOLEAN /\ temps' \subseteq Thread
      /\ temps' \subseteq temps /\ t \notin temps'
  BY <1>1, <1>3 DEF store, Shapes
<1>5. t \in DOMAIN left.jobs BY <1>1, <1>2 DEF Placed
<1>6. CASE /\ disk' = Append(Without(disk, {Of(t)}), Saved(t))
           /\ Update(t, [threads[t] EXCEPT !.pc = "prune", !.published = TRUE])
  <2> DEFINE r == [threads[t] EXCEPT !.pc = "prune", !.published = TRUE]
  <2>1. r \in OfThread /\ r.pc = "prune" /\ r.owns = threads[t].owns /\ r.died = threads[t].died
    BY <1>2 DEF OfThread, Pcs, Working
  <2>2. threads' = [threads EXCEPT ![t] = r] BY <1>6 DEF Update
  <2> HIDE DEF r
  <2>3. Placed(t, r) BY <1>1, <1>2, <2>1 DEF Placed, Asks, Copies, Working
  <2>4. Swept' BY <1>1, <1>3, <1>4, <2>1, <2>2, SweptKept
  <2>5. threads'[t] = r BY <1>3, <2>2 DEF Shapes
  <2>6. At(t, "prune")' BY <2>1, <2>5 DEF At
  <2>7. Pruned' BY <2>6 DEF Pruned, Prunes
  <2>8. disk \in Seq(WholeFile) /\ Distinct(disk) BY <1>3 DEF InFolderOK
  <2>9. Saved(t) \in WholeFile /\ Saved(t).level = Of(t)
    <3>1. Of(t) \in Level BY <1>5, OfLevel
    <3> QED BY <3>1, <1>2 DEF Saved, WholeFile, OfThread
  <2> DEFINE without == Without(disk, {Of(t)})
  <2>10. without \in Seq(WholeFile) /\ Distinct(without) /\ Levels(without) = Levels(disk) \ {Of(t)}
    BY <2>8, WithoutKeeps
  <2>11. disk' = Append(without, Saved(t)) BY <1>6
  <2> HIDE DEF without
  <2>12. disk' \in Seq(WholeFile) /\ Distinct(disk') BY <2>9, <2>10, <2>11, AppendKeeps
  <2>13. InFolderOK' BY <2>12 DEF InFolderOK, Distinct
  <2> QED BY <1>4, <2>1, <2>2, <2>3, <2>4, <2>7, <2>13, FolderKeeps
<1>7. CASE UNCHANGED disk /\ Go(t, IF Saving(t) THEN "done" ELSE "prune")
  <2> DEFINE pc == IF Saving(t) THEN "done" ELSE "prune"
  <2>0. pc \in {"done", "prune"} /\ (pc = "done" <=> Saving(t)) /\ Go(t, pc) BY <1>7
  <2> HIDE DEF pc
  <2> DEFINE r == [threads[t] EXCEPT !.pc = pc]
  <2>1. r \in OfThread /\ r.pc = pc /\ r.owns = threads[t].owns /\ r.died = threads[t].died
    BY <1>2, <2>0 DEF OfThread, Pcs, Working
  <2>2. threads' = [threads EXCEPT ![t] = r] BY <2>0 DEF Go, Update
  <2> HIDE DEF r
  <2>3. Placed(t, r) BY <1>1, <1>2, <2>0, <2>1 DEF Placed, Asks, Copies, Working
  <2>4. InFolderOK' /\ InMemoryOK' BY <1>4, <1>7, InFolderUnchanged, InMemoryUnchanged DEF MipsInv
  <2>5. Levels(disk') \subseteq Levels(disk) BY <1>7
  <2> QED BY <1>1, <1>4, <2>1, <2>2, <2>3, <2>4, <2>5, StepKeeps
<1> QED BY <1>6, <1>7 DEF Replace

\* A write that ends without its file, or is given up.
\* A write or a copy that stops takes its temporary file with it.
LEMMA GivesUpKeeps ==
  ASSUME MipsInv, NEW t \in Thread, NEW pc \in {"done", "prune"}, Go(t, pc), pc = "done" <=> Saving(t),
         threads[t].pc \in {"write", "replace", "p_copy"}, temps' = temps \ {t},
         UNCHANGED <<store, disk>>, left' \in Budget, left'.jobs = left.jobs
  PROVE  MipsInv'
<1>1. threads[t] \in OfThread /\ Placed(t, threads[t]) BY PlacedNow
<1> DEFINE r == [threads[t] EXCEPT !.pc = pc]
<1>2. r \in OfThread /\ r.pc = pc /\ r.owns = threads[t].owns /\ r.died = threads[t].died
  BY <1>1 DEF OfThread, Pcs, Working
<1>3. threads' = [threads EXCEPT ![t] = r] BY DEF Go, Update
<1> HIDE DEF r
<1>4. Placed(t, r) BY <1>1, <1>2 DEF Placed, Asks, Copies, Working
<1>5. memory' = memory /\ memoryBytes' = memoryBytes /\ inflight' = inflight /\ cleaned' = cleaned /\ disk' = disk
  BY DEF store
<1>6. InFolderOK' /\ InMemoryOK' BY <1>5, InFolderUnchanged, InMemoryUnchanged DEF MipsInv
<1>7. Levels(disk') \subseteq Levels(disk) /\ temps' \subseteq temps /\ t \notin temps' BY <1>5
<1> QED BY <1>2, <1>3, <1>4, <1>5, <1>6, <1>7, StepKeeps

LEMMA WriteFailsKeeps == ASSUME MipsInv, NEW t \in Thread, WriteFails(t) PROVE MipsInv'
<1>1. /\ threads[t].pc \in {"write", "replace", "p_copy"} /\ Spend("faults") /\ temps' = temps \ {t}
      /\ Go(t, IF Saving(t) THEN "done" ELSE "prune") /\ UNCHANGED <<store, disk>>
  BY DEF WriteFails
<1>2. left' \in Budget /\ left'.jobs = left.jobs BY <1>1, SpendKeeps DEF MipsInv, Shapes
<1> DEFINE pc == IF Saving(t) THEN "done" ELSE "prune"
<1>3. pc \in {"done", "prune"} /\ (pc = "done" <=> Saving(t)) /\ Go(t, pc) BY <1>1
<1> HIDE DEF pc
<1> QED BY <1>1, <1>2, <1>3, GivesUpKeeps

LEMMA CopyStopsKeeps == ASSUME MipsInv, NEW t \in Thread, CopyStops(t) PROVE MipsInv'
<1>1. threads[t].pc = "p_copy" /\ Go(t, "done") /\ temps' = temps \ {t} /\ UNCHANGED <<store, disk, left>>
  BY DEF CopyStops, At
<1>2. left' \in Budget /\ left'.jobs = left.jobs BY <1>1 DEF MipsInv, Shapes
<1>3. Saving(t) BY <1>1, PlacedNow DEF Placed, Copies
<1>4. "done" \in {"done", "prune"} /\ ("done" = "done" <=> Saving(t)) BY <1>3
<1> QED BY <1>1, <1>2, <1>4, GivesUpKeeps

LEMMA PersistBeginKeeps == ASSUME MipsInv, NEW t \in Thread, PersistBegin(t) PROVE MipsInv'
<1>1. threads[t].pc = "p_begin" /\ UNCHANGED <<store, folder, left>> BY DEF PersistBegin, At
<1>2. threads[t] \in OfThread /\ Placed(t, threads[t]) BY PlacedNow
<1>3. t \in DOMAIN left.jobs /\ ~threads[t].owns /\ Saving(t) BY <1>1, <1>2 DEF Placed, Working, Copies
<1>4. CASE Go(t, "done")
  <2>1. /\ "done" \in Pcs /\ "done" # "wait" /\ "done" \notin Copies /\ "done" \notin Asks
        /\ "done" \notin Working \cup {"release"}
    BY DEF Pcs, Copies, Asks, Working
  <2>2. threads[t].pc \in Resting BY <1>1 DEF Resting, Pcs, Working
  <2> QED BY <1>1, <1>3, <1>4, <2>1, <2>2, GoKeeps
<1>5. CASE /\ Of(t) \in Levels(memory)
           /\ Update(t, [threads[t] EXCEPT !.pc = "clean", !.owner = Entry(memory, Of(t)).array])
  <2> DEFINE r == [threads[t] EXCEPT !.pc = "clean", !.owner = Entry(memory, Of(t)).array]
  <2>1. memory \in Seq(InMemory) BY DEF MipsInv, InMemoryOK
  <2>2. Entry(memory, Of(t)) \in InMemory BY <1>5, <2>1, EntryIs
  <2>3. Entry(memory, Of(t)).array \in Thread BY <2>2 DEF InMemory
  <2>4. r \in OfThread /\ r.pc = "clean" /\ r.owns = threads[t].owns /\ r.died = threads[t].died
    BY <1>2, <2>3 DEF OfThread, Pcs, Working
  <2>5. threads' = [threads EXCEPT ![t] = r] BY <1>5 DEF Update
  <2> HIDE DEF r
  <2>6. Placed(t, r) BY <1>1, <1>2, <1>3, <2>4 DEF Placed, Asks, Copies, Working
  <2>7. left' \in Budget /\ left'.jobs = left.jobs BY <1>1 DEF MipsInv, Shapes
  <2> QED BY <1>1, <2>4, <2>5, <2>6, <2>7, QuietKeeps
<1> QED BY <1>4, <1>5 DEF PersistBegin

LEMMA CopyChunkKeeps == ASSUME MipsInv, NEW t \in Thread, CopyChunk(t) PROVE MipsInv'
<1> DEFINE chunks == threads[t].chunks + 1
<1>0. threads' = [threads EXCEPT ![t] = [threads[t] EXCEPT !.chunks = chunks]] BY DEF CopyChunk, Update
<1>2. threads[t] \in OfThread /\ Placed(t, threads[t]) BY PlacedNow
<1>2b. threads[t].chunks \in Nat BY <1>2 DEF OfThread
<1>2a. chunks \in Nat BY <1>2b
<1> HIDE DEF chunks
<1> DEFINE r == [threads[t] EXCEPT !.chunks = chunks]
<1>1. threads[t].pc = "p_copy" /\ threads' = [threads EXCEPT ![t] = r] /\ UNCHANGED <<store, folder, left>>
  BY <1>0 DEF CopyChunk, At
<1>3. r \in OfThread /\ r.pc = threads[t].pc /\ r.owns = threads[t].owns /\ r.died = threads[t].died
  BY <1>2, <1>2a DEF OfThread
<1> HIDE DEF r
<1>4. Placed(t, r) BY <1>1, <1>2, <1>3 DEF Placed, Asks, Copies, Working
<1>5. left' \in Budget /\ left'.jobs = left.jobs BY <1>1 DEF MipsInv, Shapes
<1> QED BY <1>1, <1>3, <1>4, <1>5, QuietKeeps

LEMMA CopyEndsKeeps == ASSUME MipsInv, NEW t \in Thread, CopyEnds(t) PROVE MipsInv'
<1>1. threads[t].pc = "p_copy" /\ Go(t, "replace") /\ UNCHANGED <<store, folder, left>> BY DEF CopyEnds, At
<1>2. Placed(t, threads[t]) BY PlacedNow
<1>3. t \in DOMAIN left.jobs /\ ~threads[t].owns /\ Saving(t) BY <1>1, <1>2 DEF Placed, Working, Copies
<1>4. "replace" \in Pcs /\ "replace" # "wait" /\ "replace" \notin Copies /\ "replace" \notin Asks
  BY DEF Pcs, Copies, Asks, Working
<1> QED BY <1>1, <1>3, <1>4, GoKeeps

\* The prune.
LEMMA BytesEmpty == ASSUME NEW entries, Levels(entries) = {} PROVE Bytes(entries) = 0
<1>1. Cells(Levels(entries)) = {} BY CellsArePairs
<1>2. Bytes(entries) = Cardinality(Cells(Levels(entries))) BY DEF Bytes, Cells
<1> QED BY <1>1, <1>2, FS_EmptySet

\* Removing a file takes its bytes off the folder's.
LEMMA BytesWithout ==
  ASSUME NEW S, NEW entries \in Seq(S), Levels(entries) \subseteq Level, NEW level \in Level
  PROVE  Bytes(Without(entries, {level})) =
           IF level \in Levels(entries) THEN Bytes(entries) - Size[level] ELSE Bytes(entries)
<1> DEFINE w == Without(entries, {level})
           only == [level |-> level]
           one == <<only>>
           R == [level: Level]
<1>1. w \in Seq(S) /\ Levels(w) = Levels(entries) \ {level} BY WithoutKeeps
<1> HIDE DEF w
<1>2. CASE level \notin Levels(entries)
  <2>1. Levels(w) = Levels(entries) BY <1>1, <1>2
  <2> QED BY <2>1, <1>2 DEF Bytes, w
<1>3. CASE level \in Levels(entries)
  <2>a. only \in [level: Level] /\ only.level = level OBVIOUS
  <2> HIDE DEF only
  <2>b. only \in R BY <2>a
  <2> HIDE DEF R
  <2>0. one \in Seq(R) /\ DOMAIN one = {1} /\ one[1] = only BY <2>b
  <2> HIDE DEF one
  <2>1. one \in Seq(R) /\ Levels(one) = {level} BY <2>0, <2>a DEF Levels
  <2>2. Bytes(one) = Size[level] BY <2>1, BytesOne
  <2>3. Levels(entries) = Levels(w) \cup Levels(one) /\ Levels(w) \cap Levels(one) = {} BY <1>1, <1>3, <2>1
  <2>4. Bytes(entries) = Bytes(w) + Bytes(one) BY <2>3, FiniteLevels, BytesAdd
  <2>5. Bytes(w) \in Nat
    <3>1. Levels(w) \subseteq Level BY <1>1
    <3> QED BY <1>1, <3>1, BytesCount
  <2>6. Size[level] \in Nat BY MipsAssumption
  <2> QED BY <1>3, <2>2, <2>4, <2>5, <2>6 DEF w
<1> QED BY <1>2, <1>3

LEMMA PruneListKeeps == ASSUME MipsInv, NEW t \in Thread, PruneList(t) PROVE MipsInv'
<1> DEFINE pc == IF Bytes(disk) <= DiskBudget THEN AfterPrune(t) ELSE "pruning"
<1>1. /\ threads[t].pc = "prune" /\ UNCHANGED <<store, folder, left>>
      /\ threads' = [threads EXCEPT ![t] = [threads[t] EXCEPT !.listing = disk, !.total = Bytes(disk), !.pc = pc]]
  BY DEF PruneList, At, Update
<1>2. /\ pc \in {"pruning", "done", "insert"}
      /\ pc = "pruning" \/ Bytes(disk) <= DiskBudget
      /\ pc = "done" => Saving(t)
      /\ pc = "insert" => ~Saving(t)
  BY DEF AfterPrune
<1> HIDE DEF pc
<1> DEFINE total == Bytes(disk)
           r == [threads[t] EXCEPT !.listing = disk, !.total = total, !.pc = pc]
<1>3. threads[t] \in OfThread /\ Placed(t, threads[t]) BY PlacedNow
<1>4. Shapes /\ Swept /\ Pruned /\ InFolderOK /\ disk \in Seq(WholeFile) BY DEF MipsInv, InFolderOK
<1>5. Bytes(disk) \in Nat BY <1>4, FilesLevels, BytesCount
<1>5a. total = Bytes(disk) /\ total \in Int BY <1>5
<1>7. threads' = [threads EXCEPT ![t] = r] BY <1>1
<1> HIDE DEF total
<1>6. /\ r \in OfThread /\ r.pc = pc /\ r.owns = threads[t].owns /\ r.died = threads[t].died
      /\ r.listing = disk /\ r.total = total
  BY <1>2, <1>3, <1>4, <1>5a DEF OfThread, Pcs, Working
<1> HIDE DEF r
<1>8. Placed(t, r) BY <1>1, <1>2, <1>3, <1>6 DEF Placed, Asks, Copies, Working
<1>9. /\ UNCHANGED <<memory, memoryBytes, inflight>> /\ cleaned' = cleaned /\ disk' = disk /\ temps' = temps
      /\ left' \in Budget /\ left'.jobs = left.jobs /\ cleaned' \in BOOLEAN /\ temps' \subseteq Thread
  BY <1>1, <1>4 DEF store, folder, Shapes
<1>10. Swept' BY <1>1, <1>4, <1>6, <1>7, <1>9, SweptKept
<1>11. Bytes(disk)' = Bytes(disk) /\ Levels(disk)' = Levels(disk) BY <1>9 DEF Bytes, Levels
<1>12. Pruned'
  <2>1. CASE Bytes(disk) <= DiskBudget BY <2>1, <1>11 DEF Pruned
  <2>2. CASE pc = "pruning"
    <3>1. threads'[t] = r BY <1>4, <1>7 DEF Shapes
    <3>2. Prunes(t)' BY <2>2, <3>1, <1>5, <1>5a, <1>6, <1>11 DEF Prunes, At
    <3> QED BY <3>2 DEF Pruned
  <2> QED BY <2>1, <2>2, <1>2
<1>13. InFolderOK' BY <1>4, <1>9, InFolderUnchanged
<1> QED BY <1>6, <1>7, <1>8, <1>9, <1>10, <1>12, <1>13, FolderKeeps

LEMMA PruneOneKeeps == ASSUME MipsInv, NEW t \in Thread, PruneOne(t) PROVE MipsInv'
<1>1. threads[t].pc = "pruning" /\ UNCHANGED <<store, temps, left>> BY DEF PruneOne, At
<1>2. threads[t] \in OfThread /\ Placed(t, threads[t]) BY PlacedNow
<1>3. /\ Shapes /\ Swept /\ Pruned /\ InFolderOK /\ disk \in Seq(WholeFile) /\ Distinct(disk)
      /\ Levels(disk) \subseteq Level
  BY FilesLevels DEF MipsInv, InFolderOK
<1>4. /\ UNCHANGED <<memory, memoryBytes, inflight>> /\ cleaned' = cleaned /\ temps' = temps
      /\ left' \in Budget /\ left'.jobs = left.jobs /\ cleaned' \in BOOLEAN /\ temps' \subseteq Thread
  BY <1>1, <1>3 DEF store, Shapes
<1>5. Bytes(disk) \in Nat /\ threads[t].total \in Int /\ threads[t].listing \in Seq(WholeFile)
  BY <1>2, <1>3, BytesCount DEF OfThread
<1>6. CASE /\ threads[t].total <= DiskBudget \/ threads[t].listing = <<>>
           /\ Update(t, [threads[t] EXCEPT !.pc = AfterPrune(t), !.listing = <<>>, !.total = 0]) /\ UNCHANGED disk
  <2> DEFINE pc == AfterPrune(t)
  <2>1. pc \in {"done", "insert"} /\ (pc = "done" <=> Saving(t)) BY DEF AfterPrune
  <2>2. threads' = [threads EXCEPT ![t] = [threads[t] EXCEPT !.pc = pc, !.listing = <<>>, !.total = 0]] BY <1>6 DEF Update
  <2> HIDE DEF pc
  <2> DEFINE empty == <<>>
             zero == 0
             r == [threads[t] EXCEPT !.pc = pc, !.listing = empty, !.total = zero]
  <2>a. empty \in Seq(WholeFile) /\ zero \in Int OBVIOUS
  <2>4. threads' = [threads EXCEPT ![t] = r] BY <2>2
  <2> HIDE DEF empty, zero
  <2>b. pc \in Pcs BY <2>1 DEF Pcs, Working
  <2>3. r \in OfThread /\ r.pc = pc /\ r.owns = threads[t].owns /\ r.died = threads[t].died
    BY <1>2, <2>a, <2>b DEF OfThread
  <2> HIDE DEF r
  <2>5. Placed(t, r) BY <1>1, <1>2, <2>1, <2>3 DEF Placed, Asks, Copies, Working
  <2>6. Swept' BY <1>1, <1>3, <1>4, <2>3, <2>4, SweptKept
  <2>7. InFolderOK' BY <1>3, <1>6, InFolderUnchanged
  <2>8. Bytes(disk)' = Bytes(disk) /\ Levels(disk)' = Levels(disk) BY <1>6 DEF Bytes, Levels
  <2>9. threads'[t] = r /\ \A o \in Thread : o # t => threads'[o] = threads[o] BY <1>3, <2>4, OnlyThis DEF Shapes
  <2>10. Pruned'
    <3>1. CASE Died
      <4>1. PICK o \in Thread : threads[o].died BY <3>1 DEF Died
      <4>2. threads'[o].died BY <4>1, <2>3, <2>9
      <4> QED BY <4>2 DEF Pruned, Died
    <3>2. CASE Bytes(disk) <= DiskBudget BY <3>2, <2>8 DEF Pruned
    <3>3. CASE Prunes(t)
      <4>1. Levels(disk) \subseteq Levels(threads[t].listing) /\ Bytes(disk) <= threads[t].total
        BY <3>3, <1>1 DEF Prunes, At
      <4>2. CASE threads[t].total <= DiskBudget
        <5>1. Bytes(disk) <= DiskBudget BY <1>5, <4>1, <4>2, MipsAssumption
        <5> QED BY <5>1, <3>2
      <4>3. CASE threads[t].listing = <<>>
        <5>1. Levels(threads[t].listing) = {} BY <4>3 DEF Levels
        <5>2. Bytes(disk) = 0 BY <4>1, <5>1, BytesEmpty
        <5>3. Bytes(disk) <= DiskBudget BY <5>2, MipsAssumption
        <5> QED BY <5>3, <3>2
      <4> QED BY <1>6, <4>2, <4>3
    <3>4. ASSUME NEW o \in Thread, o # t, Prunes(o) PROVE Pruned'
      <4>1. Prunes(o)' BY <3>4, <2>8, <2>9 DEF Prunes, At
      <4> QED BY <4>1 DEF Pruned
    <3> QED BY <1>3, <3>1, <3>2, <3>3, <3>4 DEF Pruned
  <2> QED BY <1>4, <2>3, <2>4, <2>5, <2>6, <2>7, <2>10, FolderKeeps
<1>7. CASE LET th == threads[t]
               level == Head(th.listing).level
           IN /\ th.listing # <<>>
              /\ disk' = Without(disk, {level})
              /\ Update(t, [th EXCEPT !.listing = Tail(@),
                          !.total = IF level \in Levels(disk) THEN @ - Size[level] ELSE @])
  <2> DEFINE level == Head(threads[t].listing).level
             listing == Tail(threads[t].listing)
             total == IF level \in Levels(disk) THEN threads[t].total - Size[level] ELSE threads[t].total
  <2>1. /\ listing \in Seq(WholeFile) /\ Head(threads[t].listing) \in WholeFile
        /\ Levels(threads[t].listing) \subseteq Levels(listing) \cup {level}
    BY <1>5, <1>7, TailKeeps
  <2>2. level \in Level BY <2>1 DEF WholeFile
  <2>3. threads' = [threads EXCEPT ![t] = [threads[t] EXCEPT !.listing = listing, !.total = total]]
    BY <1>7 DEF Update
  <2>4. disk' = Without(disk, {level}) BY <1>7
  <2>5. total = IF level \in Levels(disk) THEN threads[t].total - Size[level] ELSE threads[t].total OBVIOUS
  <2> HIDE DEF level, listing, total
  <2>6. Size[level] \in Nat BY <2>2, MipsAssumption
  <2>7. total \in Int BY <1>5, <2>5, <2>6
  <2> DEFINE r == [threads[t] EXCEPT !.listing = listing, !.total = total]
  <2>8. /\ r \in OfThread /\ r.pc = threads[t].pc /\ r.owns = threads[t].owns /\ r.died = threads[t].died
        /\ r.listing = listing /\ r.total = total
    BY <1>2, <2>1, <2>7 DEF OfThread
  <2>9. threads' = [threads EXCEPT ![t] = r] BY <2>3
  <2> HIDE DEF r
  <2>10. Placed(t, r) BY <1>1, <1>2, <2>8 DEF Placed, Asks, Copies, Working
  <2>11. /\ disk' \in Seq(WholeFile) /\ Distinct(disk') /\ Levels(disk') = Levels(disk) \ {level}
    BY <1>3, <2>4, WithoutKeeps
  <2>12. InFolderOK' BY <2>11 DEF InFolderOK, Distinct
  <2>13. Bytes(disk') = IF level \in Levels(disk) THEN Bytes(disk) - Size[level] ELSE Bytes(disk)
    BY <1>3, <2>2, <2>4, BytesWithout
  <2>14. Swept' BY <1>1, <1>3, <1>4, <2>8, <2>9, SweptKept
  <2>15. threads'[t] = r /\ \A o \in Thread : o # t => threads'[o] = threads[o] BY <1>3, <2>9, OnlyThis DEF Shapes
  <2>16. Bytes(disk') <= Bytes(disk) /\ Bytes(disk') \in Int BY <1>5, <2>6, <2>13
  <2>17. Pruned'
    <3>1. CASE Died
      <4>1. PICK o \in Thread : threads[o].died BY <3>1 DEF Died
      <4>2. threads'[o].died BY <4>1, <2>8, <2>15
      <4> QED BY <4>2 DEF Pruned, Died
    <3>2. CASE Bytes(disk) <= DiskBudget
      <4>1. Bytes(disk') <= DiskBudget BY <3>2, <2>16, <1>5, MipsAssumption
      <4> QED BY <4>1 DEF Pruned
    <3>3. CASE Prunes(t)
      <4>1. Levels(disk) \subseteq Levels(threads[t].listing) /\ Bytes(disk) <= threads[t].total
        BY <3>3, <1>1 DEF Prunes, At
      <4>2. Levels(disk') \subseteq Levels(listing) BY <4>1, <2>1, <2>11
      <4>3. Bytes(disk') <= total BY <4>1, <2>5, <2>6, <2>13, <1>5
      <4>4. threads'[t].pc = "pruning" /\ threads'[t].listing = listing /\ threads'[t].total = total
        BY <1>1, <2>8, <2>15
      <4>5. Prunes(t)' BY <4>2, <4>3, <4>4 DEF Prunes, At
      <4> QED BY <4>5 DEF Pruned
    <3>4. ASSUME NEW o \in Thread, o # t, Prunes(o) PROVE Pruned'
      <4>1. threads'[o] = threads[o] /\ threads[o].total \in Int BY <3>4, <2>15, <1>3 DEF Shapes, OfThread
      <4>2. CASE threads[o].pc = "prune"
        <5>1. Prunes(o)' BY <4>1, <4>2 DEF Prunes, At
        <5> QED BY <5>1 DEF Pruned
      <4>3. CASE threads[o].pc = "pruning" /\ Levels(disk) \subseteq Levels(threads[o].listing) /\ Bytes(disk) <= threads[o].total
        <5>1. Levels(disk') \subseteq Levels(threads'[o].listing) BY <4>1, <4>3, <2>11
        <5>2. Bytes(disk') <= threads'[o].total BY <4>1, <4>3, <2>16, <1>5
        <5>3. Prunes(o)' BY <4>1, <4>3, <5>1, <5>2 DEF Prunes, At
        <5> QED BY <5>3 DEF Pruned
      <4> QED BY <3>4, <4>2, <4>3 DEF Prunes, At
    <3> QED BY <1>3, <3>1, <3>2, <3>3, <3>4 DEF Pruned
  <2> QED BY <1>4, <2>8, <2>9, <2>10, <2>12, <2>14, <2>17, FolderKeeps
<1> QED BY <1>6, <1>7 DEF PruneOne

\* What comes from outside: a replaced source, a discarded memory, a damaged
\* file and the end of the process.
LEMMA SupersedeKeeps == ASSUME MipsInv, NEW t \in Thread, Supersede(t) PROVE MipsInv'
<1> DEFINE r == [threads[t] EXCEPT !.current = FALSE]
<1>1. /\ threads[t].pc \notin {"new", "done"} /\ Spend("stale") /\ threads' = [threads EXCEPT ![t] = r]
      /\ UNCHANGED <<store, folder>>
  BY DEF Supersede, Update
<1>2. threads[t] \in OfThread /\ Placed(t, threads[t]) BY PlacedNow
<1>3. /\ r \in OfThread /\ r.pc = threads[t].pc /\ r.owns = threads[t].owns /\ r.died = threads[t].died
      /\ r.awaits = threads[t].awaits /\ r.sweeping = threads[t].sweeping
      /\ r.listing = threads[t].listing /\ r.total = threads[t].total
  BY <1>2 DEF OfThread
<1> HIDE DEF r
<1>4. Placed(t, r) BY <1>2, <1>3 DEF Placed
<1>5. left' \in Budget /\ left'.jobs = left.jobs BY <1>1, SpendKeeps DEF MipsInv, Shapes
<1> QED BY <1>1, <1>3, <1>4, <1>5, QuietKeeps

\* Steps of no thread: memory and files may lose levels.
\* A step that no thread takes, and that leaves the folder or makes it smaller.
LEMMA OutsideKeeps ==
  ASSUME MipsInv, UNCHANGED <<inflight, cleaned, temps, threads>>, left' \in Budget, left'.jobs = left.jobs,
         InMemoryOK', InFolderOK', Levels(disk') \subseteq Levels(disk)
  PROVE  MipsInv'
<1>0. Shapes /\ Local /\ Owning /\ Swept /\ Pruned /\ InFolderOK BY DEF MipsInv
<1>1. Shapes' BY <1>0 DEF Shapes
<1>2. Local'
  <2>1. ASSUME NEW o \in Thread PROVE Placed(o, threads[o])'
    <3>1. Placed(o, threads[o]) BY <1>0 DEF Local
    <3>2. (Saving(o)' <=> Saving(o)) /\ ((o \in DOMAIN left.jobs)' <=> o \in DOMAIN left.jobs) BY SameJobs
    <3> QED BY <3>1, <3>2 DEF Placed
  <2> QED BY <2>1 DEF Local
<1>3. Owning' BY <1>0, SameJobs DEF Owning
<1>4. Swept' BY <1>0 DEF Swept, Leftover, At
<1>5. disk \in Seq(WholeFile) /\ disk' \in Seq(WholeFile) BY <1>0 DEF InFolderOK
<1>6. Bytes(disk') <= Bytes(disk) /\ Bytes(disk') \in Nat /\ Bytes(disk) \in Nat
  <2>1. Levels(disk) \subseteq Level /\ Levels(disk') \subseteq Level BY <1>5, FilesLevels
  <2>2. Bytes(disk') <= Bytes(disk) BY <1>5, <2>1, BytesMonotone
  <2>3. Bytes(disk') \in Nat BY <1>5, <2>1, BytesCount
  <2>4. Bytes(disk) \in Nat BY <1>5, <2>1, BytesCount
  <2> QED BY <2>2, <2>3, <2>4
<1>7. Pruned'
  <2>1. CASE Died BY <2>1 DEF Pruned, Died
  <2>2. CASE Bytes(disk) <= DiskBudget BY <1>6, <2>2, MipsAssumption DEF Pruned
  <2>3. ASSUME NEW o \in Thread, Prunes(o) PROVE Pruned'
    <3>1. threads[o].total \in Int BY <1>0 DEF Shapes, OfThread
    <3>2. Prunes(o)' BY <2>3, <3>1, <1>6 DEF Prunes, At
    <3> QED BY <3>2 DEF Pruned
  <2> QED BY <1>0, <2>1, <2>2, <2>3 DEF Pruned
<1> QED BY <1>1, <1>2, <1>3, <1>4, <1>7 DEF MipsInv

LEMMA discard_memoryKeeps == ASSUME MipsInv, discard_memory PROVE MipsInv'
<1>1. Spend("discards") /\ UNCHANGED <<inflight, cleaned, folder, threads>> BY DEF discard_memory
<1>2. PICK level \in Levels(memory) :
        /\ memory' = Without(memory, {l \in Level : Identity[l] = Identity[level]})
        /\ memoryBytes' = memoryBytes - (Bytes(memory) - Bytes(memory'))
  BY DEF discard_memory
<1>3. left' \in Budget /\ left'.jobs = left.jobs BY <1>1, SpendKeeps DEF MipsInv, Shapes
<1>4. memory \in Seq(InMemory) /\ Distinct(memory) /\ MemoryAccounted BY DEF MipsInv, InMemoryOK
<1> DEFINE gone == {l \in Level : Identity[l] = Identity[level]}
<1>5. /\ memory' \in Seq(InMemory) /\ Len(memory') <= Len(memory) /\ Distinct(memory')
      /\ Levels(memory') = Levels(memory) \ gone
  <2> HIDE DEF gone
  <2>1. memory' = Without(memory, gone) BY <1>2 DEF gone
  <2> QED BY <1>4, <2>1, WithoutKeeps
<1> HIDE DEF gone
<1>6. Levels(memory) \subseteq Level /\ Levels(memory') \subseteq Levels(memory) BY <1>4, <1>5, MemoryLevels
<1>7. Bytes(memory') <= Bytes(memory) BY <1>4, <1>5, <1>6, BytesMonotone
<1>8. Bytes(memory) \in Nat BY <1>4, <1>6, BytesCount
<1>9. Bytes(memory') \in Nat
  <2>1. Levels(memory') \subseteq Level BY <1>6
  <2> QED BY <1>5, <2>1, BytesCount
<1>10. memoryBytes' = Bytes(memory') BY <1>2, <1>4, <1>8, <1>9 DEF MemoryAccounted
<1>11. memoryBytes' <= MemoryBudget \/ Len(memory') <= 2
  <2>1. CASE memoryBytes <= MemoryBudget
    <3>1. memoryBytes = Bytes(memory) BY <1>4 DEF MemoryAccounted
    <3> QED BY <2>1, <3>1, <1>7, <1>8, <1>9, <1>10, MipsAssumption
  <2>2. CASE Len(memory) <= 2 BY <2>2, <1>4, <1>5
  <2> QED BY <2>1, <2>2, <1>4 DEF MemoryAccounted
<1>12. InMemoryOK' BY <1>5, <1>10, <1>11 DEF InMemoryOK, MemoryAccounted, Distinct
<1>13. disk' = disk /\ temps' = temps BY <1>1 DEF folder
<1>14. InFolderOK' BY <1>13, InFolderUnchanged DEF MipsInv
<1>15. Levels(disk') \subseteq Levels(disk) BY <1>13
<1> QED BY <1>1, <1>3, <1>12, <1>13, <1>14, <1>15, OutsideKeeps

LEMMA DamageKeeps == ASSUME MipsInv, Damage PROVE MipsInv'
<1>1. Spend("damages") /\ UNCHANGED <<store, temps, threads>> BY DEF Damage
<1>2. PICK i \in DOMAIN disk : disk' = [disk EXCEPT ![i].damaged = TRUE] BY DEF Damage
<1>3. left' \in Budget /\ left'.jobs = left.jobs BY <1>1, SpendKeeps DEF MipsInv, Shapes
<1>4. disk \in Seq(WholeFile) /\ Distinct(disk) BY DEF MipsInv, InFolderOK
<1>5. \A file \in WholeFile : [file EXCEPT !.damaged = TRUE] \in WholeFile /\ [file EXCEPT !.damaged = TRUE].level = file.level
  BY DEF WholeFile
<1> DEFINE file == [disk[i] EXCEPT !.damaged = TRUE]
<1>6. file \in WholeFile /\ file.level = disk[i].level BY <1>4, <1>5
<1>7. disk' = [disk EXCEPT ![i] = file] BY <1>2
<1> HIDE DEF file
<1>8. disk' \in Seq(WholeFile) /\ DOMAIN disk' = DOMAIN disk BY <1>4, <1>6, <1>7
<1>9. \A j \in DOMAIN disk : disk'[j].level = disk[j].level BY <1>4, <1>6, <1>7
<1>10. Distinct(disk') BY <1>4, <1>8, <1>9 DEF Distinct
<1>11. Levels(disk') = Levels(disk) BY <1>8, <1>9 DEF Levels
<1>12. InFolderOK' BY <1>8, <1>10 DEF InFolderOK, Distinct
<1>13. memory' = memory /\ memoryBytes' = memoryBytes /\ inflight' = inflight /\ cleaned' = cleaned BY <1>1 DEF store
<1>14. InMemoryOK' BY <1>13, InMemoryUnchanged DEF MipsInv
<1>15. Levels(disk') \subseteq Levels(disk) BY <1>11
<1> QED BY <1>1, <1>3, <1>12, <1>13, <1>14, <1>15, OutsideKeeps

LEMMA EmptyMemory == ASSUME memory' = <<>>, memoryBytes' = 0 PROVE InMemoryOK'
<1>1. Levels(memory') = {} BY DEF Levels
<1>2. Bytes(memory') = 0 BY <1>1, BytesEmpty
<1>3. memory' \in Seq(InMemory) /\ Len(memory') = 0 /\ DOMAIN memory' = {} OBVIOUS
<1>4. Distinct(memory)' BY <1>3 DEF Distinct
<1> QED BY <1>2, <1>3, <1>4 DEF InMemoryOK, MemoryAccounted

LEMMA NewThreadIs ==
  /\ NewThread \in OfThread /\ NewThread.pc = "new" /\ NewThread.owns = FALSE
  /\ \A died \in BOOLEAN : LET th == [NewThread EXCEPT !.pc = "done", !.died = died]
                           IN th \in OfThread /\ th.pc = "done" /\ th.owns = FALSE /\ th.died = died
<1>1. <<>> \in Seq(WholeFile) OBVIOUS
<1>2. NewThread \in OfThread BY <1>1 DEF NewThread, OfThread, Pcs, Working
<1>3. NewThread.pc = "new" /\ NewThread.owns = FALSE BY DEF NewThread
<1>4. ASSUME NEW died \in BOOLEAN, NEW th \in OfThread
      PROVE  LET x == [th EXCEPT !.pc = "done", !.died = died]
             IN x \in OfThread /\ x.pc = "done" /\ x.owns = th.owns /\ x.died = died
  BY <1>4 DEF OfThread, Pcs
<1> QED BY <1>2, <1>3, <1>4

LEMMA CrashKeeps == ASSUME MipsInv, Crash PROVE MipsInv'
<1>0. Shapes /\ Local /\ Owning /\ Swept /\ Pruned /\ InFolderOK BY DEF MipsInv
<1>1. /\ Spend("crashes") /\ memory' = <<>> /\ memoryBytes' = 0 /\ cleaned' = FALSE
      /\ inflight' = [level \in {} |-> NoThread] /\ disk' = disk /\ temps' = temps
  BY DEF Crash, folder
<1>2. left' \in Budget /\ left'.jobs = left.jobs BY <1>0, <1>1, SpendKeeps DEF Shapes
<1>3. InMemoryOK' BY <1>1, EmptyMemory
<1>4. InFolderOK' BY <1>0, <1>1, InFolderUnchanged
<1>5. ASSUME NEW t \in Thread
      PROVE  /\ threads'[t] \in OfThread /\ threads'[t].owns = FALSE
             /\ threads'[t].pc = "done" \/ (threads[t].pc = "new" /\ threads'[t].pc = "new")
             /\ threads'[t].pc = "done" => threads[t].pc # "new"
             /\ threads[t].died => threads'[t].died
             /\ threads[t].pc \in {"prune", "pruning"} => threads'[t].died
  <2>1. threads[t] \in OfThread /\ Placed(t, threads[t]) BY PlacedNow
  <2> DEFINE died == threads[t].died \/ ~At(t, "done")
  <2>2. threads'[t] = IF At(t, "new") THEN threads[t] ELSE [NewThread EXCEPT !.pc = "done", !.died = died]
    BY DEF Crash
  <2>3. died \in BOOLEAN /\ (threads[t].died => died) /\ (threads[t].pc \in {"prune", "pruning"} => died)
    BY <2>1 DEF At, OfThread
  <2> HIDE DEF died
  <2>4. CASE At(t, "new")
    <3>1. threads[t].owns = FALSE BY <2>1, <2>4 DEF Placed, At, OfThread, Working
    <3> QED BY <2>1, <2>2, <2>4, <3>1 DEF At
  <2>5. CASE ~At(t, "new")
    <3> DEFINE th == [NewThread EXCEPT !.pc = "done", !.died = died]
    <3>1. th \in OfThread /\ th.pc = "done" /\ th.owns = FALSE /\ th.died = died BY <2>3, NewThreadIs
    <3>2. threads'[t] = th BY <2>2, <2>5
    <3> HIDE DEF th
    <3> QED BY <2>3, <2>5, <3>1, <3>2 DEF At
  <2> QED BY <2>4, <2>5
<1>6. threads' \in [Thread -> OfThread]
  <2>1. threads' = [t \in Thread |-> threads'[t]] BY DEF Crash
  <2> QED BY <2>1, <1>5
<1>7. DOMAIN inflight' = {} BY <1>1
<1>8. Shapes' BY <1>0, <1>1, <1>2, <1>6, <1>7 DEF Shapes
<1>9. Local'
  <2>1. ASSUME NEW t \in Thread PROVE Placed(t, threads[t])'
    <3>1. Placed(t, threads[t]) BY <1>0 DEF Local
    <3>2. (t \in DOMAIN left.jobs)' <=> t \in DOMAIN left.jobs BY <1>2, SameJobs
    <3>3. CASE threads'[t].pc = "done" BY <3>1, <3>2, <3>3, <1>5 DEF Placed, Copies, Asks, Working
    <3>4. CASE threads'[t].pc = "new" BY <3>4, <1>5 DEF Placed, Copies, Asks, Working
    <3> QED BY <3>3, <3>4, <1>5
  <2> QED BY <2>1 DEF Local
<1>10. Owning' BY <1>5 DEF Owning
<1>11. Swept' BY <1>1 DEF Swept
<1>12. Pruned'
  <2>1. CASE Died
    <3>1. PICK t \in Thread : threads[t].died BY <2>1 DEF Died
    <3>2. threads'[t].died BY <3>1, <1>5
    <3> QED BY <3>2 DEF Pruned, Died
  <2>2. CASE Bytes(disk) <= DiskBudget BY <2>2, <1>1 DEF Pruned, Bytes, Levels
  <2>3. ASSUME NEW t \in Thread, Prunes(t) PROVE Pruned'
    <3>1. threads'[t].died BY <2>3, <1>5 DEF Prunes, At
    <3> QED BY <3>1 DEF Pruned, Died
  <2> QED BY <1>0, <2>1, <2>2, <2>3 DEF Pruned
<1> QED BY <1>3, <1>4, <1>8, <1>9, <1>10, <1>11, <1>12 DEF MipsInv

-----------------------------------------------------------------------------
(* The theorems. *)

\* The initial states satisfy the invariant, and every step keeps it.
LEMMA MipsInit == Init => MipsInv
<1> SUFFICES ASSUME Init PROVE MipsInv OBVIOUS
<1>1. /\ left \in Scenarios /\ memory = <<>> /\ memoryBytes = 0 /\ cleaned = FALSE
      /\ inflight = [level \in {} |-> NoThread] /\ disk = left.disk /\ temps = left.temps
      /\ threads = [t \in Thread |-> NewThread]
  BY DEF Init
<1>2. left \in Budget /\ Kept(left.disk) BY <1>1, MipsAssumption
<1>3. \A t \in Thread : threads[t] = NewThread BY <1>1
<1>4. threads \in [Thread -> OfThread] BY <1>1, NewThreadIs
<1>5. temps \subseteq Thread /\ disk \in Seq(File) BY <1>1, <1>2 DEF Budget
<1>6. DOMAIN inflight = {} BY <1>1
<1>7. Shapes BY <1>1, <1>2, <1>4, <1>5, <1>6 DEF Shapes
<1>8. Local
  <2>1. ASSUME NEW t \in Thread PROVE Placed(t, threads[t])
    BY <1>3, NewThreadIs DEF Placed, Copies, Asks, Working
  <2> QED BY <2>1 DEF Local
<1>9. Owning BY <1>3, NewThreadIs DEF Owning
<1>10. InMemoryOK
  <2>1. Levels(memory) = {} BY <1>1 DEF Levels
  <2>2. Bytes(memory) = 0 BY <2>1, BytesEmpty
  <2>3. memory \in Seq(InMemory) /\ Len(memory) = 0 /\ DOMAIN memory = {} BY <1>1
  <2> QED BY <1>1, <2>2, <2>3 DEF InMemoryOK, MemoryAccounted, Distinct
<1>11. InFolderOK
  <2>1. Distinct(disk) /\ \A i \in DOMAIN disk : disk[i].whole BY <1>1, <1>2 DEF Kept
  <2>2. \A i \in DOMAIN disk : disk[i] \in File BY <1>5
  <2>3. \A file \in File : file.whole => file \in WholeFile BY DEF File, WholeFile
  <2>4. \A i \in DOMAIN disk : disk[i] \in WholeFile BY <2>1, <2>2, <2>3
  <2>5. Len(disk) \in Nat /\ DOMAIN disk = 1..Len(disk) /\ disk = [i \in 1..Len(disk) |-> disk[i]] BY <1>5
  <2>6. disk \in [1..Len(disk) -> WholeFile] BY <2>4, <2>5
  <2>7. disk \in Seq(WholeFile) BY <2>5, <2>6, SeqDef
  <2> QED BY <2>1, <2>7 DEF InFolderOK
<1>12. Swept BY <1>1 DEF Swept
<1>13. Pruned BY <1>1, <1>2 DEF Pruned, Kept
<1> QED BY <1>7, <1>8, <1>9, <1>10, <1>11, <1>12, <1>13 DEF MipsInv

\* One step of the proof per group of actions.
LEMMA MipsNext == MipsInv /\ [Next]_vars => MipsInv'
<1> SUFFICES ASSUME MipsInv, [Next]_vars PROVE MipsInv' OBVIOUS
<1>1. ASSUME NEW t \in Thread, Begin(t) PROVE MipsInv' BY <1>1, BeginKeeps
<1>2. ASSUME NEW t \in Thread, Asking(t) PROVE MipsInv'
  BY <1>2, CachedKeeps, FlyKeeps, JoinKeeps, AwaitKeeps, InsertKeeps, ReleaseKeeps DEF Asking
<1>3. ASSUME NEW t \in Thread, Making(t) PROVE MipsInv'
  BY <1>3, ReadLevelKeeps, DiscardCorruptKeeps, CheckLevelKeeps, BuildKeeps DEF Making
<1>4. ASSUME NEW t \in Thread, Filing(t) PROVE MipsInv'
  BY <1>4, CleaningKeeps, SweepKeeps, WriteTempKeeps, ReplaceKeeps, PruneListKeeps, PruneOneKeeps DEF Filing
<1>5. ASSUME NEW t \in Thread, Copying(t) PROVE MipsInv'
  BY <1>5, PersistBeginKeeps, PersistCheckKeeps, CopyChunkKeeps, CopyStopsKeeps, CopyEndsKeeps DEF Copying
<1>6. ASSUME NEW t \in Thread, Failing(t) PROVE MipsInv'
  BY <1>6, ReadFailsKeeps, BuildFailsKeeps, WriteFailsKeeps DEF Failing
<1>7. ASSUME NEW t \in Thread, Supersede(t) PROVE MipsInv' BY <1>7, SupersedeKeeps
<1>8. CASE discard_memory BY <1>8, discard_memoryKeeps
<1>9. CASE Damage BY <1>9, DamageKeeps
<1>10. CASE Crash BY <1>10, CrashKeeps
<1>11. CASE UNCHANGED vars
  <2>1. /\ UNCHANGED <<inflight, cleaned, temps, threads>> /\ left' = left /\ disk' = disk
        /\ memory' = memory /\ memoryBytes' = memoryBytes
    BY <1>11 DEF vars
  <2>2. left' \in Budget /\ left'.jobs = left.jobs BY <2>1 DEF MipsInv, Shapes
  <2>3. InMemoryOK' /\ InFolderOK' BY <2>1, InMemoryUnchanged, InFolderUnchanged DEF MipsInv
  <2>4. Levels(disk') \subseteq Levels(disk) BY <2>1
  <2> QED BY <2>1, <2>2, <2>3, <2>4, OutsideKeeps
<1>12. CASE Next
  <2>1. (\E t \in Thread : Begin(t) \/ Step(t) \/ Failing(t) \/ Supersede(t)) \/ discard_memory \/ Damage \/ Crash
    BY <1>12 DEF Next
  <2>2. ASSUME NEW t \in Thread, Begin(t) \/ Step(t) \/ Failing(t) \/ Supersede(t) PROVE MipsInv'
    BY <2>2, <1>1, <1>2, <1>3, <1>4, <1>5, <1>6, <1>7 DEF Step
  <2> QED BY <2>1, <2>2, <1>8, <1>9, <1>10
<1> QED BY <1>11, <1>12

\* The inductive invariant holds in every reachable state of the level store,
\* for any threads, levels, sizes, budgets and chunks, and any number of replaced
\* sources, damages, failures and restarts (SourceMipStore, render_cache.py:179-652).
THEOREM MipsInvariant == Spec => []MipsInv
<1>1. Init => MipsInv BY MipsInit
<1>2. MipsInv /\ [Next]_vars => MipsInv' BY MipsNext
<1> QED BY <1>1, <1>2, PTL DEF Spec

LEMMA SeqOfFiles == ASSUME NEW files \in Seq(WholeFile) PROVE files \in Seq(File)
<1>1. \A file \in WholeFile : file \in File BY DEF File, WholeFile
<1>2. Len(files) \in Nat /\ files \in [1..Len(files) -> WholeFile] OBVIOUS
<1>3. files \in [1..Len(files) -> File] BY <1>1, <1>2
<1> QED BY <1>2, <1>3, SeqDef

\* The type invariant is a part of it.
LEMMA TypeHolds == MipsInv => TypeOK
<1> SUFFICES ASSUME MipsInv PROVE TypeOK OBVIOUS
<1>1. Shapes /\ InMemoryOK /\ InFolderOK BY DEF MipsInv
<1>2. memory \in Seq([level: Level, array: Thread]) /\ Distinct(memory) BY <1>1 DEF InMemoryOK, InMemory
<1>3. memoryBytes \in Nat
  <2>1. memory \in Seq(InMemory) /\ memoryBytes = Bytes(memory) BY <1>1 DEF InMemoryOK, MemoryAccounted
  <2> QED BY <2>1, MemoryLevels, BytesCount
<1>4. disk \in Seq(File) /\ Distinct(disk) BY <1>1, SeqOfFiles DEF InFolderOK
<1> DEFINE Thing == [pc: Pcs, current: BOOLEAN, owns: BOOLEAN, awaits: Thread \cup {NoThread},
                     whole: BOOLEAN, chunks: Nat, owner: Thread \cup {NoThread},
                     listing: Seq(File), total: Int, sweeping: SUBSET Thread,
                     published: BOOLEAN, died: BOOLEAN,
                     answer: {"none", "memory", "level", "stale", "error"}]
<1>5. ASSUME NEW th \in OfThread PROVE th \in Thing
  <2>1. th.listing \in Seq(File) BY SeqOfFiles DEF OfThread
  <2> QED BY <2>1 DEF OfThread
<1>6. threads \in [Thread -> Thing]
  <2> HIDE DEF Thing
  <2> QED BY <1>1, <1>5 DEF Shapes
<1> QED BY <1>1, <1>2, <1>3, <1>4, <1>6 DEF TypeOK, Shapes

\* Every variable of the store has its type in every reachable state, and neither
\* memory nor the folder holds a level twice (render_cache.py:193-229, 560-576).
THEOREM MipsTypeCorrect == Spec => []TypeOK
BY MipsInvariant, TypeHolds, PTL

\* Two that work on one level would both own its flight.
LEMMA OwnersAreAlone == MipsInv => OneBuild
<1> SUFFICES ASSUME MipsInv, NEW t \in Thread, NEW o \in Thread, t # o, threads[t].pc \in Working,
                    threads[o].pc \in Working, ~Saving(t), ~Saving(o)
             PROVE  Of(t) # Of(o)
  BY DEF OneBuild
<1>1. threads[t].owns /\ threads[o].owns BY DEF MipsInv, Local, Placed
<1>2. inflight[Of(t)] = t /\ inflight[Of(o)] = o BY <1>1 DEF MipsInv, Owning
<1> QED BY <1>2

\* Of all requests for a level, one reads, builds and writes it: the others wait for
\* its flight or find the level (level, render_cache.py:255-288).
THEOREM OneBuildHolds == Spec => []OneBuild
BY MipsInvariant, OwnersAreAlone, PTL

\* Arrays are whole because what is read is checked and what is built is whole.
LEMMA MemoryIsSound == MipsInv => MemorySound
<1> SUFFICES ASSUME MipsInv PROVE MemorySound OBVIOUS
<1>1. \A t \in Thread : threads[t].whole = TRUE BY DEF MipsInv, Shapes, OfThread
<1>2. memory \in Seq(InMemory) /\ MemoryAccounted BY DEF MipsInv, InMemoryOK
<1>3. \A i \in DOMAIN memory : memory[i].array \in Thread
  <2>1. \A i \in DOMAIN memory : memory[i] \in InMemory BY <1>2
  <2> QED BY <2>1 DEF InMemory
<1> QED BY <1>1, <1>2, <1>3 DEF MemorySound, AnswersWhole

\* What memory holds and what is answered is whole, and _memory_bytes is the sum of
\* the levels in memory through insertions, evictions and discards by a replaced source
\* (_insert_memory_locked and discard_memory, render_cache.py:560-576, 361-366).
THEOREM MemorySoundHolds == Spec => []MemorySound
BY MipsInvariant, MemoryIsSound, PTL

\* With no sweep and no prune under way, nothing is left for one.
LEMMA FolderIsSound == MipsInv => FolderSound
<1> SUFFICES ASSUME MipsInv PROVE FolderSound OBVIOUS
<1>1. Shapes /\ Swept /\ Pruned /\ disk \in Seq(WholeFile) BY DEF MipsInv, InFolderOK
<1>2. FilesWhole
  <2>1. \A i \in DOMAIN disk : disk[i] \in WholeFile BY <1>1
  <2> QED BY <2>1 DEF FilesWhole, WholeFile
<1>3. TempsOwned
  <2> SUFFICES ASSUME cleaned, \A t \in Thread : threads[t].pc \notin {"sweep", "sweeping"}, NEW t \in temps
               PROVE  threads[t].pc \in {"replace", "p_copy"}
    BY DEF TempsOwned
  <2>1. ~Leftover(t) BY DEF Leftover, At
  <2> QED BY <1>1, <2>1 DEF Swept
<1>4. DiskWithinBudget
  <2> SUFFICES ASSUME \A t \in Thread : threads[t].pc \in {"new", "done"}, ~Died PROVE Bytes(disk) <= DiskBudget
    BY DEF DiskWithinBudget
  <2>1. \A t \in Thread : ~Prunes(t) BY DEF Prunes, At
  <2> QED BY <1>1, <2>1 DEF Pruned
<1> QED BY <1>2, <1>3, <1>4 DEF FolderSound

\* Every file in the folder is whole; once a sweep is over every temporary file has its
\* writer; and a folder at rest is within its budget unless a process died
\* (_ensure_cleaned, _write_disk_level, _prune_disk, persist_cached, render_cache.py:290-359, 525-652).
THEOREM FolderSoundHolds == Spec => []FolderSound
BY MipsInvariant, FolderIsSound, PTL
=============================================================================
