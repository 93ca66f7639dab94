------------------------ MODULE SemanticCacheProofs ------------------------
(***************************************************************************)
(* What the semantic cache guarantees for every set of prompts, capacity   *)
(* and file it may start with, and on the way what its loops make of a     *)
(* list, which module SnapshotsProofs needs as well.                       *)
(***************************************************************************)
EXTENDS SemanticCache, FiniteSetTheorems, SequenceTheorems, WellFoundedInduction, TLAPS

-----------------------------------------------------------------------------
(* Lists.                                                                  *)

(* Ranks count up by one at a time, and positions by one or more.          *)
LEMMA RankFacts ==
  ASSUME NEW m \in Nat, NEW I \in SUBSET (1 .. m)
  PROVE  /\ IsFiniteSet(I) /\ Cardinality(I) \in 0 .. m
         /\ \A i \in I : Rank(I, i) \in 1 .. Cardinality(I)
         /\ \A i, j \in I : i < j => /\ Rank(I, i) < Rank(I, j)
                                     /\ Rank(I, j) - Rank(I, i) <= j - i
<1>1. IsFiniteSet(1 .. m) /\ Cardinality(1 .. m) = m
  BY FS_Interval
<1>2. IsFiniteSet(I) /\ Cardinality(I) \in Nat /\ Cardinality(I) <= m
  BY <1>1, FS_Subset, FS_CardinalityType
<1>3. ASSUME NEW i \in I PROVE Rank(I, i) \in 1 .. Cardinality(I)
  <2> DEFINE T == {j \in I : j <= i}
  <2>1. T \in SUBSET I /\ i \in T /\ i \in Int
    OBVIOUS
  <2>2. IsFiniteSet(T) /\ Cardinality(T) <= Cardinality(I) /\ Cardinality(T) \in Nat
    BY <1>2, <2>1, FS_Subset, FS_CardinalityType
  <2>3. Cardinality(T) # 0
    BY <2>1, <2>2, FS_EmptySet
  <2> QED BY <1>2, <2>2, <2>3 DEF Rank
<1>4. ASSUME NEW i \in I, NEW j \in I, i < j
      PROVE  Rank(I, i) < Rank(I, j) /\ Rank(I, j) - Rank(I, i) <= j - i
  <2> DEFINE S == {l \in I : l <= i}
             T == {l \in I : l <= j}
             D == {l \in I : i < l /\ l <= j}
  <2>1. i \in 1 .. m /\ j \in 1 .. m
    OBVIOUS
  <2>2. /\ S \in SUBSET I /\ T \in SUBSET I /\ D \in SUBSET ((i + 1) .. j)
        /\ S \cap D = {} /\ j \in D /\ T = S \cup D
    <3>1. I \subseteq Int
      OBVIOUS
    <3>2. \A l \in I : /\ l \in S <=> l <= i
                       /\ l \in T <=> l <= j
                       /\ l \in D <=> l \in (i + 1) .. j
      BY <2>1, <3>1
    <3>3. S \subseteq I /\ T \subseteq I /\ D \subseteq I
      OBVIOUS
    <3> HIDE DEF S, T, D
    <3>4. \A l \in I : /\ l \in T <=> l \in S \/ l \in D
                       /\ ~(l \in S /\ l \in D)
      BY <1>4, <2>1, <3>1, <3>2
    <3>5. j \in D
      BY <1>4, <2>1, <3>2
    <3>6. D \subseteq (i + 1) .. j
      BY <3>2, <3>3
    <3> QED BY <3>3, <3>4, <3>5, <3>6
  <2>3. IsFiniteSet(S) /\ IsFiniteSet(T) /\ Cardinality(S) \in Nat /\ Cardinality(T) \in Nat
    BY <1>2, <2>2, FS_Subset, FS_CardinalityType
  <2>4. IsFiniteSet((i + 1) .. j) /\ Cardinality((i + 1) .. j) = j - i
    BY <1>4, <2>1, FS_Interval
  <2>5. IsFiniteSet(D) /\ Cardinality(D) \in Nat /\ Cardinality(D) <= j - i /\ Cardinality(D) # 0
    <3>1. IsFiniteSet(D) /\ Cardinality(D) <= j - i
      BY <2>2, <2>4, FS_Subset
    <3> QED BY <2>2, <3>1, FS_EmptySet, FS_CardinalityType
  <2>6. Cardinality(T) = Cardinality(S) + Cardinality(D) - Cardinality({})
    BY <2>2, <2>3, <2>5, FS_Union
  <2>7. Cardinality({}) = 0
    BY FS_EmptySet
  <2>8. Rank(I, i) = Cardinality(S) /\ Rank(I, j) = Cardinality(T)
    BY DEF Rank
  <2> HIDE DEF S, T, D
  <2> QED BY <2>1, <2>3, <2>5, <2>6, <2>7, <2>8
<1> QED BY <1>2, <1>3, <1>4

(* The n-th position is the one of rank n, and between two of them there   *)
(* are at least as many positions as there are ranks.                      *)
LEMMA NthFacts ==
  ASSUME NEW m \in Nat, NEW I \in SUBSET (1 .. m)
  PROVE  /\ Cardinality(I) \in 0 .. m
         /\ \A n \in 1 .. Cardinality(I) : Nth(I, n) \in I /\ Nth(I, n) \in 1 .. m
         /\ \A i \in I : \E n \in 1 .. Cardinality(I) : Nth(I, n) = i
         /\ \A a, b \in 1 .. Cardinality(I) : a < b => Nth(I, b) - Nth(I, a) >= b - a
<1> DEFINE C == Cardinality(I)
           f == [i \in I |-> Rank(I, i)]
<1>1. /\ IsFiniteSet(I) /\ C \in 0 .. m
      /\ \A i \in I : Rank(I, i) \in 1 .. C
      /\ \A i, j \in I : i < j => /\ Rank(I, i) < Rank(I, j)
                                  /\ Rank(I, j) - Rank(I, i) <= j - i
  BY RankFacts
<1>2. IsFiniteSet(1 .. C) /\ Cardinality(1 .. C) = C
  BY <1>1, FS_Interval
<1> HIDE DEF C
<1>3. \A i, j \in I : Rank(I, i) = Rank(I, j) => i = j
  BY <1>1
<1>4. f \in Injection(I, 1 .. C)
  BY <1>1, <1>3 DEF Injection, IsInjective
<1>5. f \in Surjection(I, 1 .. C)
  BY <1>2, <1>4, FS_Injection DEF C
<1>6. \A n \in 1 .. C : \E i \in I : Rank(I, i) = n
  BY <1>5 DEF Surjection
<1>7. \A n \in 1 .. C : Nth(I, n) \in I /\ Rank(I, Nth(I, n)) = n
  BY <1>6 DEF Nth
<1>8. \A i \in I : Nth(I, Rank(I, i)) = i
  BY <1>1, <1>3, <1>7
<1>9. ASSUME NEW a \in 1 .. C, NEW b \in 1 .. C, a < b
      PROVE  Nth(I, b) - Nth(I, a) >= b - a
  <2> DEFINE i == Nth(I, a)
             j == Nth(I, b)
  <2>1. i \in I /\ j \in I /\ Rank(I, i) = a /\ Rank(I, j) = b
    BY <1>7
  <2> HIDE DEF i, j
  <2>2. i \in 1 .. m /\ j \in 1 .. m
    BY <2>1
  <2>3. i < j
    <3>1. CASE j < i
      BY <1>1, <1>9, <2>1, <3>1
    <3>2. CASE i = j
      BY <1>9, <2>1, <3>2
    <3> QED BY <2>2, <3>1, <3>2
  <2>4. b - a <= j - i
    BY <1>1, <2>1, <2>3
  <2> QED BY <1>1, <2>2, <2>4 DEF i, j
<1>10. \A n \in 1 .. C : Nth(I, n) \in 1 .. m
  BY <1>7
<1> QED BY <1>1, <1>7, <1>8, <1>9, <1>10 DEF C

LEMMA SublistFacts ==
  ASSUME NEW S, NEW s \in Seq(S), NEW I \in SUBSET (1 .. Len(s))
  PROVE  /\ Sublist(s, I) \in Seq(S)
         /\ Len(Sublist(s, I)) = Cardinality(I) /\ Cardinality(I) \in 0 .. Len(s)
         /\ \A n \in 1 .. Cardinality(I) : Sublist(s, I)[n] = s[Nth(I, n)]
<1>1. /\ Len(s) \in Nat /\ Cardinality(I) \in 0 .. Len(s)
      /\ \A n \in 1 .. Cardinality(I) : Nth(I, n) \in 1 .. Len(s)
  BY NthFacts
<1>2. \A n \in 1 .. Cardinality(I) : s[Nth(I, n)] \in S
  BY <1>1, ElementOfSeq
<1> QED BY <1>1, <1>2 DEF Sublist

(* A list made of elements of another, in their order. Positions at least  *)
(* as far apart say how many elements there are between two of them.       *)
Increasing(f, m, n) ==
    /\ f \in [1 .. m -> 1 .. n]
    /\ \A a, b \in 1 .. m : a < b => f[b] - f[a] >= b - a

Taken(t, s, f) ==
    /\ Increasing(f, Len(t), Len(s))
    /\ \A n \in 1 .. Len(t) : t[n] = s[f[n]]

Reaches(f, m, i) == \E n \in 1 .. m : f[n] = i

(* What Kept keeps is every element that passes the test.                  *)
LEMMA AliveFacts ==
  ASSUME NEW S, NEW s \in Seq(S)
  PROVE  /\ Kept(s, Lives) \in Seq(S) /\ Len(Kept(s, Lives)) <= Len(s)
         /\ \A n \in 1 .. Len(Kept(s, Lives)) : Lives(Kept(s, Lives)[n])
         /\ \E f : /\ Taken(Kept(s, Lives), s, f)
                   /\ \A i \in 1 .. Len(s) :
                         Lives(s[i]) => Reaches(f, Len(Kept(s, Lives)), i)
<1> DEFINE I == {i \in 1 .. Len(s) : Lives(s[i])}
           C == Cardinality(I)
           f == [n \in 1 .. C |-> Nth(I, n)]
<1>1. Kept(s, Lives) = Sublist(s, I)
  <2>1. DOMAIN s = 1 .. Len(s)
    BY LenProperties
  <2> QED BY <2>1 DEF Kept, Passing
<1>2. I \in SUBSET (1 .. Len(s)) /\ Len(s) \in Nat
  BY LenProperties
<1>3. \A i \in 1 .. Len(s) : i \in I <=> Lives(s[i])
  OBVIOUS
<1> HIDE DEF I
<1>4. /\ Sublist(s, I) \in Seq(S) /\ Len(Sublist(s, I)) = C /\ C \in 0 .. Len(s)
      /\ \A n \in 1 .. C : Sublist(s, I)[n] = s[Nth(I, n)]
  BY <1>2, SublistFacts
<1>5. /\ \A n \in 1 .. C : Nth(I, n) \in I /\ Nth(I, n) \in 1 .. Len(s)
      /\ \A i \in I : \E n \in 1 .. C : Nth(I, n) = i
      /\ \A a, b \in 1 .. C : a < b => Nth(I, b) - Nth(I, a) >= b - a
  BY <1>2, NthFacts
<1> HIDE DEF C
<1>6. \A n \in 1 .. C : f[n] = Nth(I, n)
  OBVIOUS
<1>7. f \in [1 .. C -> 1 .. Len(s)]
  BY <1>5
<1> HIDE DEF f
<1>8. Increasing(f, C, Len(s))
  BY <1>5, <1>6, <1>7 DEF Increasing
<1>9. Taken(Sublist(s, I), s, f)
  BY <1>4, <1>6, <1>8 DEF Taken
<1>10. \A i \in 1 .. Len(s) : Lives(s[i]) => Reaches(f, C, i)
  BY <1>3, <1>5, <1>6 DEF Reaches
<1>11. \A n \in 1 .. C : Lives(Sublist(s, I)[n])
  BY <1>3, <1>4, <1>5
<1> QED BY <1>1, <1>2, <1>4, <1>9, <1>10, <1>11

(* The elements from a place on.                                           *)
LEMMA RestFacts ==
  ASSUME NEW S, NEW s \in Seq(S), NEW d \in 0 .. Len(s)
  PROVE  LET t == SubSeq(s, d + 1, Len(s)) IN
         /\ t \in Seq(S) /\ Len(t) = Len(s) - d
         /\ \A n \in 1 .. Len(s) - d : t[n] = s[n + d]
<1> DEFINE t == SubSeq(s, d + 1, Len(s))
<1>1. Len(s) \in Nat /\ \A i \in 1 .. Len(s) : s[i] \in S
  BY LenProperties, ElementOfSeq
<1>2. \A i \in d + 1 .. Len(s) : s[i] \in S
  BY <1>1
<1>3. d + 1 \in Int /\ Len(s) \in Int
  BY <1>1
<1>4. /\ t \in Seq(S)
      /\ Len(t) = IF d + 1 <= Len(s) THEN Len(s) - (d + 1) + 1 ELSE 0
      /\ \A i \in 1 .. Len(s) - (d + 1) + 1 : t[i] = s[d + 1 + i - 1]
  BY <1>2, <1>3, SubSeqProperties
<1> HIDE DEF t
<1>5. Len(t) = Len(s) - d /\ Len(s) - (d + 1) + 1 = Len(s) - d
  BY <1>1, <1>4
<1>6. \A n \in 1 .. Len(s) - d : t[n] = s[n + d]
  <2> TAKE n \in 1 .. Len(s) - d
  <2>1. d + 1 + n - 1 = n + d
    BY <1>1
  <2> QED BY <1>4, <1>5, <2>1
<1> QED BY <1>4, <1>5, <1>6 DEF t

(* Of what was taken from a list, the oldest are dropped: only such as have *)
(* as many elements of the list behind them as are left.                   *)
LEMMA DropFacts ==
  ASSUME NEW S, NEW s \in Seq(S), NEW t \in Seq(S), NEW f, Taken(t, s, f),
         NEW d \in 0 .. Len(t)
  PROVE  LET u == SubSeq(t, d + 1, Len(t)) IN
         /\ u \in Seq(S) /\ Len(u) = Len(t) - d
         /\ \A n \in 1 .. Len(t) - d : u[n] = t[n + d]
         /\ \E g : /\ Taken(u, s, g)
                   /\ \A i \in 1 .. Len(s) : Reaches(f, Len(t), i) =>
                         Reaches(g, Len(u), i) \/ Len(s) - i >= Len(t) - d
<1> DEFINE u == SubSeq(t, d + 1, Len(t))
           g == [n \in 1 .. Len(t) - d |-> f[n + d]]
<1>1. u \in Seq(S) /\ Len(u) = Len(t) - d /\ \A n \in 1 .. Len(t) - d : u[n] = t[n + d]
  BY RestFacts
<1> HIDE DEF u
<1>2. Len(s) \in Nat /\ Len(t) \in Nat
  BY LenProperties
<1>3. /\ \A n \in 1 .. Len(t) : f[n] \in 1 .. Len(s) /\ t[n] = s[f[n]]
      /\ \A a, b \in 1 .. Len(t) : a < b => f[b] - f[a] >= b - a
  BY DEF Taken, Increasing
<1>4. \A n \in 1 .. Len(t) - d : n + d \in 1 .. Len(t) /\ g[n] = f[n + d]
  BY <1>2
<1>5. g \in [1 .. Len(t) - d -> 1 .. Len(s)]
  BY <1>3, <1>4
<1> HIDE DEF g
<1>6. ASSUME NEW a \in 1 .. Len(t) - d, NEW b \in 1 .. Len(t) - d, a < b
      PROVE  g[b] - g[a] >= b - a
  <2>1. /\ a + d \in 1 .. Len(t) /\ b + d \in 1 .. Len(t) /\ a + d < b + d
        /\ (b + d) - (a + d) = b - a
    BY <1>2, <1>6
  <2>2. f[b + d] - f[a + d] >= (b + d) - (a + d)
    BY <1>3, <2>1
  <2> QED BY <1>4, <2>1, <2>2
<1>7. Taken(u, s, g)
  BY <1>1, <1>3, <1>4, <1>5, <1>6 DEF Taken, Increasing
<1>8. ASSUME NEW i \in 1 .. Len(s), Reaches(f, Len(t), i), Len(s) - i < Len(t) - d
      PROVE  Reaches(g, Len(u), i)
  <2>1. PICK n \in 1 .. Len(t) : f[n] = i
    BY <1>8 DEF Reaches
  <2>2. n > d
    <3> SUFFICES ASSUME n <= d PROVE FALSE
      BY <1>2
    <3>1. d < Len(t) /\ Len(t) \in 1 .. Len(t)
      BY <1>2, <1>8
    <3>2. f[Len(t)] - f[n] >= Len(t) - n /\ f[Len(t)] \in 1 .. Len(s)
      BY <1>2, <1>3, <3>1
    <3> QED BY <1>2, <1>8, <2>1, <3>2
  <2>3. n - d \in 1 .. Len(t) - d /\ (n - d) + d = n
    BY <1>2, <2>2
  <2> QED BY <1>1, <1>4, <2>1, <2>3 DEF Reaches
<1>9. \A i \in 1 .. Len(s) : Reaches(f, Len(t), i) =>
          Reaches(g, Len(u), i) \/ Len(s) - i >= Len(t) - d
  <2> TAKE i \in 1 .. Len(s)
  <2> QED BY <1>2, <1>8
<1> QED BY <1>1, <1>7, <1>9 DEF u

(* A list that is taken whole.                                             *)
LEMMA WholeFacts ==
  ASSUME NEW S, NEW s \in Seq(S)
  PROVE  \E f : Taken(s, s, f) /\ \A i \in 1 .. Len(s) : Reaches(f, Len(s), i)
<1> DEFINE f == [n \in 1 .. Len(s) |-> n]
<1>1. Len(s) \in Nat
  BY LenProperties
<1>2. Taken(s, s, f)
  BY <1>1 DEF Taken, Increasing
<1>3. \A i \in 1 .. Len(s) : Reaches(f, Len(s), i)
  BY DEF Reaches
<1> QED BY <1>2, <1>3

-----------------------------------------------------------------------------
(* The operations on the list of entries.                                  *)

LEMMA DropCountFacts ==
  ASSUME capacity \in Nat \ {0}
  PROVE  DropCount \in 1 .. capacity /\ Max({1, capacity \div 10}) = DropCount
<1>1. capacity \div 10 \in 0 .. capacity
  OBVIOUS
<1>2. DropCount \in 1 .. capacity
  BY <1>1 DEF DropCount
<1>3. \A x \in {1, capacity \div 10} : (\A y \in {1, capacity \div 10} : x >= y) <=> x = DropCount
  BY <1>1 DEF DropCount
<1>4. DropCount \in {1, capacity \div 10}
  BY <1>1 DEF DropCount
<1> HIDE DEF DropCount
<1> QED BY <1>2, <1>3, <1>4 DEF Max

(* Room for one more is made, and only what has expired or is old goes.    *)
LEMMA RoomFacts ==
  ASSUME NEW S, NEW s \in Seq(S), capacity \in Nat \ {0}, Len(s) <= capacity
  PROVE  /\ MakeRoom(s) \in Seq(S) /\ Len(MakeRoom(s)) < capacity
         /\ \E f : /\ Taken(MakeRoom(s), s, f)
                   /\ \A i \in 1 .. Len(s) : Lives(s[i]) =>
                         \/ Reaches(f, Len(MakeRoom(s)), i)
                         \/ Len(s) - i >= capacity - DropCount
<1> DEFINE t == Kept(s, Lives)
<1>1. /\ t \in Seq(S) /\ Len(t) <= Len(s)
      /\ \E f : /\ Taken(t, s, f)
                /\ \A i \in 1 .. Len(s) : Lives(s[i]) => Reaches(f, Len(t), i)
  BY AliveFacts
<1> HIDE DEF t
<1>2. Len(s) \in Nat /\ Len(t) \in Nat
  BY <1>1, LenProperties
<1>3. CASE Len(s) < capacity
  <2>1. MakeRoom(s) = s
    BY <1>3 DEF MakeRoom
  <2> QED BY <1>3, <2>1, WholeFacts
<1>4. CASE Len(s) >= capacity /\ Len(t) < capacity
  <2>1. MakeRoom(s) = t
    BY <1>2, <1>4 DEF MakeRoom, t
  <2> QED BY <1>1, <1>4, <2>1
<1>5. CASE Len(s) >= capacity /\ Len(t) >= capacity
  <2>1. Len(t) = capacity
    BY <1>1, <1>2, <1>5
  <2>2. DropCount \in 1 .. capacity /\ DropCount \in 0 .. Len(t)
    BY <2>1, DropCountFacts
  <2>3. MakeRoom(s) = SubSeq(t, DropCount + 1, Len(t))
    <3>1. ~(Len(s) < capacity) /\ ~(Len(t) < capacity)
      BY <1>2, <1>5
    <3> QED BY <3>1, Zenon DEF MakeRoom, t
  <2>4. PICK f : /\ Taken(t, s, f)
                 /\ \A i \in 1 .. Len(s) : Lives(s[i]) => Reaches(f, Len(t), i)
    BY <1>1
  <2> DEFINE u == SubSeq(t, DropCount + 1, Len(t))
  <2>5. /\ u \in Seq(S) /\ Len(u) = Len(t) - DropCount
        /\ \E g : /\ Taken(u, s, g)
                  /\ \A i \in 1 .. Len(s) : Reaches(f, Len(t), i) =>
                        Reaches(g, Len(u), i) \/ Len(s) - i >= Len(t) - DropCount
    BY <1>1, <2>2, <2>4, DropFacts
  <2> HIDE DEF u
  <2>6. Len(u) < capacity
    BY <2>1, <2>2, <2>5
  <2>7. MakeRoom(s) = u
    BY <2>3 DEF u
  <2> QED BY <2>1, <2>4, <2>5, <2>6, <2>7
<1> QED BY <1>2, <1>3, <1>4, <1>5

LEMMA MinFacts ==
  ASSUME NEW a \in Nat, NEW b \in Nat
  PROVE  Min({a, b}) = IF a <= b THEN a ELSE b
<1> DEFINE m == IF a <= b THEN a ELSE b
<1>1. m \in {a, b} /\ \A x \in {a, b} : (\A y \in {a, b} : x <= y) <=> x = m
  OBVIOUS
<1> HIDE DEF m
<1>2. Min({a, b}) = m
  BY <1>1 DEF Min
<1> QED BY <1>2 DEF m

(* Of a file the newest entries that live are kept.                        *)
LEMMA ImportFacts ==
  ASSUME NEW S, NEW s \in Seq(S), NEW limit \in Nat
  PROVE  /\ ImportEntries(s, limit) \in Seq(S) /\ Len(ImportEntries(s, limit)) <= limit
         /\ \A n \in 1 .. Len(ImportEntries(s, limit)) : Lives(ImportEntries(s, limit)[n])
         /\ \E f : /\ Taken(ImportEntries(s, limit), s, f)
                   /\ \A i \in 1 .. Len(s) : Lives(s[i]) =>
                         \/ Reaches(f, Len(ImportEntries(s, limit)), i)
                         \/ Len(s) - i >= limit
<1> DEFINE t == Kept(s, Lives)
           d == Len(t) - Min({limit, Len(t)})
           u == SubSeq(t, d + 1, Len(t))
<1>1. /\ t \in Seq(S) /\ Len(t) <= Len(s) /\ \A n \in 1 .. Len(t) : Lives(t[n])
      /\ \E f : /\ Taken(t, s, f)
                /\ \A i \in 1 .. Len(s) : Lives(s[i]) => Reaches(f, Len(t), i)
  BY AliveFacts
<1>2. ImportEntries(s, limit) = u
  BY DEF ImportEntries
<1> HIDE DEF t
<1>3. Len(t) \in Nat /\ Len(s) \in Nat
  BY <1>1, LenProperties
<1>4. /\ d \in 0 .. Len(t) /\ Len(t) - d <= limit
      /\ d # 0 => Len(t) - d = limit
  BY <1>3, MinFacts
<1> HIDE DEF d
<1>5. PICK f : /\ Taken(t, s, f)
               /\ \A i \in 1 .. Len(s) : Lives(s[i]) => Reaches(f, Len(t), i)
  BY <1>1
<1>6. /\ u \in Seq(S) /\ Len(u) = Len(t) - d
      /\ \A n \in 1 .. Len(t) - d : u[n] = t[n + d]
      /\ \E g : /\ Taken(u, s, g)
                /\ \A i \in 1 .. Len(s) : Reaches(f, Len(t), i) =>
                      Reaches(g, Len(u), i) \/ Len(s) - i >= Len(t) - d
  BY <1>1, <1>4, <1>5, DropFacts
<1>7. CASE d # 0
  <2>1. \A n \in 1 .. Len(u) : Lives(u[n])
    <3> TAKE n \in 1 .. Len(u)
    <3>1. n + d \in 1 .. Len(t) /\ n \in 1 .. Len(t) - d
      BY <1>3, <1>4, <1>6
    <3> QED BY <1>1, <1>6, <3>1
  <2> HIDE DEF u
  <2> QED BY <1>2, <1>4, <1>5, <1>6, <1>7, <2>1
<1>8. CASE d = 0
  <2>1. u = t
    <3>1. u = SubSeq(t, 1, Len(t))
      BY <1>8
    <3> QED BY <1>1, <3>1, SubSeqFull
  <2> HIDE DEF u
  <2> QED BY <1>1, <1>2, <1>4, <1>8, <2>1
<1> QED BY <1>7, <1>8

(* The same said of the sets of entries, for module SnapshotsProofs.        *)
LEMMA AddedSet ==
  ASSUME NEW S, NEW s \in Seq(S), capacity \in Nat \ {0}, Len(s) <= capacity,
         NEW p, NEW m, NEW a,
         [prompt |-> p, model |-> m, answer |-> a, expiresAt |-> now + TTL] \in S
  PROVE  /\ Added(s, p, m, a) \in Seq(S) /\ Len(Added(s, p, m, a)) <= capacity
         /\ \A e \in ToSet(Added(s, p, m, a)) : e \in ToSet(s) \/ e.answer = a
<1> DEFINE e    == [prompt |-> p, model |-> m, answer |-> a, expiresAt |-> now + TTL]
           room == MakeRoom(s)
           t    == Append(room, e)
<1>1. e.answer = a /\ e \in S /\ Added(s, p, m, a) = t
  BY DEF Added
<1>2. PICK f : Taken(room, s, f)
  BY RoomFacts
<1>3. room \in Seq(S) /\ Len(room) < capacity
  BY RoomFacts
<1> HIDE DEF e, room
<1>4. Len(room) \in Nat /\ Len(s) \in Nat
  BY <1>3, LenProperties
<1>5. /\ t \in Seq(S) /\ Len(t) = Len(room) + 1 /\ t[Len(room) + 1] = e
      /\ \A n \in 1 .. Len(room) : t[n] = room[n]
  BY <1>1, <1>3, AppendProperties
<1>6. DOMAIN t = 1 .. Len(room) + 1 /\ DOMAIN s = 1 .. Len(s)
  BY <1>5, LenProperties
<1> HIDE DEF t
<1>7. \A x \in ToSet(t) : x \in ToSet(s) \/ x.answer = a
  <2> SUFFICES ASSUME NEW n \in 1 .. Len(room) + 1
               PROVE  t[n] \in ToSet(s) \/ t[n].answer = a
    BY <1>6 DEF ToSet
  <2>1. CASE n = Len(room) + 1
    BY <1>1, <1>5, <2>1
  <2>2. CASE n \in 1 .. Len(room)
    <3>1. t[n] = s[f[n]] /\ f[n] \in 1 .. Len(s)
      BY <1>2, <1>5, <2>2 DEF Taken, Increasing
    <3> QED BY <1>6, <3>1 DEF ToSet
  <2> QED BY <1>4, <2>1, <2>2
<1> QED BY <1>1, <1>3, <1>4, <1>5, <1>7

LEMMA ExportSet ==
  ASSUME NEW S, NEW s \in Seq(S)
  PROVE  /\ ExportEntries(s) \in Seq(S)
         /\ ToSet(ExportEntries(s)) = {e \in ToSet(s) : Lives(e)}
<1> DEFINE t == Kept(s, Lives)
<1>1. /\ t \in Seq(S) /\ \A n \in 1 .. Len(t) : Lives(t[n])
      /\ ExportEntries(s) = t
  BY AliveFacts DEF ExportEntries
<1>2. PICK f : /\ Taken(t, s, f)
               /\ \A i \in 1 .. Len(s) : Lives(s[i]) => Reaches(f, Len(t), i)
  BY AliveFacts
<1> HIDE DEF t
<1>3. DOMAIN t = 1 .. Len(t) /\ DOMAIN s = 1 .. Len(s)
  BY <1>1, LenProperties
<1>4. \A n \in 1 .. Len(t) : f[n] \in 1 .. Len(s) /\ t[n] = s[f[n]]
  BY <1>2 DEF Taken, Increasing
<1>5. \A e \in ToSet(t) : e \in ToSet(s) /\ Lives(e)
  BY <1>1, <1>3, <1>4 DEF ToSet
<1>6. \A i \in 1 .. Len(s) : Lives(s[i]) => s[i] \in ToSet(t)
  BY <1>2, <1>3, <1>4 DEF ToSet, Reaches
<1>7. \A e \in ToSet(s) : Lives(e) => e \in ToSet(t)
  BY <1>3, <1>6 DEF ToSet
<1> QED BY <1>1, <1>5, <1>7

LEMMA ImportSet ==
  ASSUME NEW S, NEW s \in Seq(S), NEW limit \in Nat
  PROVE  /\ ImportEntries(s, limit) \in Seq(S) /\ Len(ImportEntries(s, limit)) <= limit
         /\ ToSet(ImportEntries(s, limit)) \subseteq ToSet(s)
<1> DEFINE t == ImportEntries(s, limit)
<1>1. t \in Seq(S) /\ Len(t) <= limit
  BY ImportFacts
<1>2. PICK f : Taken(t, s, f)
  BY ImportFacts
<1> HIDE DEF t
<1>3. DOMAIN t = 1 .. Len(t) /\ DOMAIN s = 1 .. Len(s)
  BY <1>1, LenProperties
<1>4. ToSet(t) \subseteq ToSet(s)
  BY <1>2, <1>3 DEF ToSet, Taken, Increasing
<1> QED BY <1>1, <1>4 DEF t

(* The entries stand in the order of their ages, and none was written in   *)
(* the future.                                                             *)
Aged(s) ==
    /\ \A i, j \in 1 .. Len(s) : i < j => s[i].expiresAt <= s[j].expiresAt
    /\ \A i \in 1 .. Len(s) : s[i].expiresAt <= now + TTL

LEMMA TakenAged ==
  ASSUME NEW S, NEW s \in Seq(S), NEW t \in Seq(S), NEW f, Taken(t, s, f), Aged(s)
  PROVE  Aged(t)
<1>1. Len(s) \in Nat /\ Len(t) \in Nat
  BY LenProperties
<1>2. /\ \A n \in 1 .. Len(t) : f[n] \in 1 .. Len(s) /\ t[n] = s[f[n]]
      /\ \A a, b \in 1 .. Len(t) : a < b => f[b] - f[a] >= b - a
  BY DEF Taken, Increasing
<1>3. ASSUME NEW a \in 1 .. Len(t), NEW b \in 1 .. Len(t), a < b
      PROVE  t[a].expiresAt <= t[b].expiresAt
  <2>1. f[a] \in 1 .. Len(s) /\ f[b] \in 1 .. Len(s) /\ f[a] < f[b]
    BY <1>1, <1>2, <1>3
  <2> QED BY <1>2, <2>1 DEF Aged
<1> QED BY <1>2, <1>3 DEF Aged

LEMMA AddedAged ==
  ASSUME NEW S, NEW s \in Seq(S), capacity \in Nat \ {0}, Len(s) <= capacity, Aged(s),
         now \in Nat, TTL \in Nat, NEW p, NEW m, NEW a,
         [prompt |-> p, model |-> m, answer |-> a, expiresAt |-> now + TTL] \in S
  PROVE  Aged(Added(s, p, m, a))
<1> DEFINE e    == [prompt |-> p, model |-> m, answer |-> a, expiresAt |-> now + TTL]
           room == MakeRoom(s)
           t    == Append(room, e)
<1>1. e.expiresAt = now + TTL /\ e \in S /\ Added(s, p, m, a) = t
  BY DEF Added
<1>2. PICK f : Taken(room, s, f)
  BY RoomFacts
<1>3. room \in Seq(S)
  BY RoomFacts
<1> HIDE DEF e, room
<1>4. Aged(room) /\ Len(room) \in Nat
  BY <1>2, <1>3, TakenAged, LenProperties
<1>5. /\ Len(t) = Len(room) + 1 /\ t[Len(room) + 1] = e
      /\ \A n \in 1 .. Len(room) : t[n] = room[n]
  BY <1>1, <1>3, AppendProperties
<1> HIDE DEF t
<1>6. \A n \in 1 .. Len(t) : t[n].expiresAt <= now + TTL
  <2> SUFFICES ASSUME NEW n \in 1 .. Len(t) PROVE t[n].expiresAt <= now + TTL
    OBVIOUS
  <2>1. CASE n = Len(room) + 1
    BY <1>1, <1>5, <2>1
  <2>2. CASE n # Len(room) + 1
    <3>1. n \in 1 .. Len(room)
      BY <1>4, <1>5, <2>2
    <3> QED BY <1>4, <1>5, <3>1 DEF Aged
  <2> QED BY <2>1, <2>2
<1>7. ASSUME NEW i \in 1 .. Len(t), NEW j \in 1 .. Len(t), i < j
      PROVE  t[i].expiresAt <= t[j].expiresAt
  <2>1. i \in 1 .. Len(room)
    BY <1>4, <1>5, <1>7
  <2>2. CASE j = Len(room) + 1
    <3>1. t[j].expiresAt = now + TTL
      BY <1>1, <1>5, <2>2
    <3> QED BY <1>6, <3>1
  <2>3. CASE j # Len(room) + 1
    <3>1. j \in 1 .. Len(room)
      BY <1>4, <1>5, <2>3
    <3> QED BY <1>4, <1>5, <1>7, <2>1, <3>1 DEF Aged
  <2> QED BY <2>2, <2>3
<1> QED BY <1>1, <1>6, <1>7 DEF Aged

LEMMA ExportAged ==
  ASSUME NEW S, NEW s \in Seq(S), Aged(s)
  PROVE  Aged(ExportEntries(s))
<1>1. ExportEntries(s) \in Seq(S) /\ \E f : Taken(ExportEntries(s), s, f)
  BY AliveFacts DEF ExportEntries
<1> QED BY <1>1, TakenAged

(* A live entry that is not imported gave way to a full cache of entries   *)
(* no older.                                                               *)
LEMMA ImportAged ==
  ASSUME NEW S, NEW s \in Seq(S), NEW limit \in Nat, Aged(s)
  PROVE  /\ Aged(ImportEntries(s, limit))
         /\ \A e \in ToSet(s) : Lives(e) =>
               \/ e \in ToSet(ImportEntries(s, limit))
               \/ /\ Len(ImportEntries(s, limit)) = limit
                  /\ \A g \in ToSet(ImportEntries(s, limit)) : g.expiresAt >= e.expiresAt
<1> DEFINE t == Kept(s, Lives)
           d == Len(t) - Min({limit, Len(t)})
           u == SubSeq(t, d + 1, Len(t))
<1>1. /\ t \in Seq(S)
      /\ \E f : /\ Taken(t, s, f)
                /\ \A i \in 1 .. Len(s) : Lives(s[i]) => Reaches(f, Len(t), i)
  BY AliveFacts
<1>2. ImportEntries(s, limit) = u
  BY DEF ImportEntries
<1> HIDE DEF t
<1>3. Len(t) \in Nat /\ DOMAIN s = 1 .. Len(s)
  BY <1>1, LenProperties
<1>4. d \in 0 .. Len(t) /\ (d # 0 => Len(t) - d = limit)
  BY <1>3, MinFacts
<1> HIDE DEF d
<1>5. PICK f : /\ Taken(t, s, f)
               /\ \A i \in 1 .. Len(s) : Lives(s[i]) => Reaches(f, Len(t), i)
  BY <1>1
<1>6. /\ u \in Seq(S) /\ Len(u) = Len(t) - d
      /\ \A n \in 1 .. Len(t) - d : u[n] = t[n + d]
  BY <1>1, <1>4, RestFacts
<1> HIDE DEF u
<1>7. Aged(t)
  BY <1>1, <1>5, TakenAged
<1>8. DOMAIN u = 1 .. Len(t) - d
  BY <1>6, LenProperties
<1>9. Aged(u)
  <2>1. \A n \in 1 .. Len(u) : n + d \in 1 .. Len(t) /\ u[n] = t[n + d]
    BY <1>3, <1>4, <1>6
  <2>2. ASSUME NEW i \in 1 .. Len(u), NEW j \in 1 .. Len(u), i < j
        PROVE  u[i].expiresAt <= u[j].expiresAt
    <3>1. i + d < j + d
      BY <1>4, <2>2
    <3> QED BY <1>7, <2>1, <3>1 DEF Aged
  <2> QED BY <1>7, <2>1, <2>2 DEF Aged
<1>10. ASSUME NEW e \in ToSet(s), Lives(e)
       PROVE  \/ e \in ToSet(u)
              \/ Len(u) = limit /\ \A g \in ToSet(u) : g.expiresAt >= e.expiresAt
  <2>1. PICK i \in 1 .. Len(s) : e = s[i]
    BY <1>3 DEF ToSet
  <2>2. PICK n \in 1 .. Len(t) : f[n] = i
    BY <1>5, <1>10, <2>1 DEF Reaches
  <2>3. t[n] = e
    BY <1>5, <2>1, <2>2 DEF Taken
  <2>4. CASE n > d
    <3>1. n - d \in 1 .. Len(t) - d /\ (n - d) + d = n
      BY <1>3, <1>4, <2>4
    <3>2. u[n - d] = e
      BY <1>6, <2>3, <3>1
    <3> QED BY <1>8, <3>1, <3>2 DEF ToSet
  <2>5. CASE ~(n > d)
    <3>1. d # 0 /\ Len(u) = limit
      BY <1>4, <1>6, <2>5
    <3>2. ASSUME NEW m \in 1 .. Len(t) - d PROVE u[m].expiresAt >= e.expiresAt
      <4>1. m + d \in 1 .. Len(t) /\ n < m + d /\ u[m] = t[m + d]
        BY <1>3, <1>4, <1>6, <2>5
      <4>2. t[n].expiresAt <= t[m + d].expiresAt
        BY <1>7, <4>1 DEF Aged
      <4> QED BY <2>3, <4>1, <4>2
    <3> QED BY <1>8, <3>1, <3>2 DEF ToSet
  <2> QED BY <2>4, <2>5
<1> QED BY <1>2, <1>9, <1>10

-----------------------------------------------------------------------------
(* The type invariant.                                                     *)

LEMMA ConstantFacts ==
  ASSUME TypeOK
  PROVE  /\ capacity \in Nat \ {0} /\ now \in Nat /\ TTL \in Nat \ {0} /\ MaxTime \in Nat
         /\ Len(log) \in Nat /\ Len(semantic) \in Nat /\ Len(semantic) <= capacity
BY SemanticAssumption, LenProperties DEF TypeOK

NewEntry(p, m) == [prompt |-> p, model |-> m, answer |-> Latest + 1, expiresAt |-> now + TTL]

(* A step that stores an answer appends it to what room was made in, and   *)
(* to the history.                                                         *)
LEMMA SetFacts ==
  ASSUME TypeOK, NEW p \in Prompts, NEW m \in Models, Set(p, m)
  PROVE  /\ NewEntry(p, m) \in Entry
         /\ semantic' = Append(MakeRoom(semantic), NewEntry(p, m))
         /\ MakeRoom(semantic) \in Seq(Entry) /\ Len(MakeRoom(semantic)) < capacity
         /\ semantic' \in Seq(Entry) /\ Len(semantic') <= capacity
         /\ log' = Append(log, NewEntry(p, m))
<1>1. capacity \in Nat \ {0} /\ now + TTL \in Nat /\ Len(semantic) <= capacity
  BY ConstantFacts
<1>2. NewEntry(p, m) \in Entry
  BY <1>1 DEF Set, NewEntry, Entry
<1>3. semantic' = Append(MakeRoom(semantic), NewEntry(p, m))
  BY DEF Set, Added, NewEntry
<1>4. MakeRoom(semantic) \in Seq(Entry) /\ Len(MakeRoom(semantic)) < capacity
  BY <1>1, RoomFacts DEF TypeOK
<1> HIDE DEF NewEntry
<1>5. /\ semantic' \in Seq(Entry) /\ Len(semantic') = Len(MakeRoom(semantic)) + 1
      /\ semantic'[Len(MakeRoom(semantic)) + 1] = NewEntry(p, m)
  BY <1>2, <1>3, <1>4, AppendProperties
<1>6. Len(MakeRoom(semantic)) \in Nat
  BY <1>4, LenProperties
<1>7. Last(semantic') = NewEntry(p, m)
  BY <1>5, <1>6 DEF Last
<1> QED BY <1>1, <1>2, <1>3, <1>4, <1>5, <1>6, <1>7 DEF Set

LEMMA TypeStep == TypeOK /\ [Next]_vars => TypeOK'
<1> SUFFICES ASSUME TypeOK, [Next]_vars PROVE TypeOK'
  OBVIOUS
<1>1. ASSUME NEW p \in Prompts, NEW m \in Models, Set(p, m) PROVE TypeOK'
  <2>1. log' \in Seq(Entry) /\ Len(log') = Len(log) + 1
    <3>1. NewEntry(p, m) \in Entry /\ log' = Append(log, NewEntry(p, m)) /\ log \in Seq(Entry)
      BY <1>1, SetFacts, Zenon DEF TypeOK
    <3> HIDE DEF NewEntry
    <3> QED BY <3>1, AppendProperties
  <2>2. UNCHANGED <<capacity, now, cleared>>
    BY <1>1 DEF Set
  <2>3. cleared \in 0 .. Len(log')
    BY <2>1, ConstantFacts DEF TypeOK
  <2> QED BY <1>1, <2>1, <2>2, <2>3, SetFacts DEF TypeOK
<1>2. CASE Clear
  <2>1. <<>> \in Seq(Entry) /\ Len(<<>>) = 0
    BY EmptySeq
  <2>2. Len(log) \in 0 .. Len(log) /\ 0 <= capacity
    BY ConstantFacts
  <2> QED BY <1>2, <2>1, <2>2 DEF Clear, TypeOK
<1>3. CASE Pass
  <2>1. now + 1 \in 0 .. MaxTime
    BY <1>3, ConstantFacts DEF Pass
  <2> QED BY <1>3, <2>1 DEF Pass, TypeOK
<1>4. CASE UNCHANGED vars
  BY <1>4 DEF vars, TypeOK
<1> QED BY <1>1, <1>2, <1>3, <1>4 DEF Next

LEMMA TypeInit == Init => TypeOK
<1> SUFFICES ASSUME Init PROVE TypeOK
  OBVIOUS
<1>1. PICK file \in Files : semantic = ImportEntries(file, capacity) /\ log = file
  BY DEF Init
<1>2. capacity \in Nat /\ file \in Seq(Entry)
  BY SemanticAssumption DEF Init
<1>3. semantic \in Seq(Entry) /\ Len(semantic) <= capacity
  BY <1>1, <1>2, ImportFacts
<1>4. Len(log) \in Nat /\ 0 \in 0 .. Len(log) /\ 0 \in 0 .. MaxTime
  BY <1>1, <1>2, LenProperties, SemanticAssumption
<1> QED BY <1>1, <1>2, <1>3, <1>4 DEF Init, TypeOK

(* TypeOK holds in every reachable state; above all the cache never holds  *)
(* more entries than its capacity.                                         *)
THEOREM TypeCorrect == Spec => []TypeOK
BY TypeInit, TypeStep, PTL DEF Spec

-----------------------------------------------------------------------------
(* Which entries stay.                                                     *)

(* The cache is made of what was stored since it was last cleared, in that *)
(* order, and of the latest that fit it holds all that live.               *)
Placed(pos) ==
    /\ pos \in [1 .. Len(semantic) -> cleared + 1 .. Len(log)]
    /\ \A a, b \in 1 .. Len(semantic) : a < b => pos[b] - pos[a] >= b - a
    /\ \A n \in 1 .. Len(semantic) : semantic[n] = log[pos[n]]
    /\ \A i \in cleared + 1 .. Len(log) :
          i >= Len(log) - capacity + DropCount /\ Lives(log[i])
              => Reaches(pos, Len(semantic), i)

PlacedInv == \E pos : Placed(pos)

LEMMA PlacedInit == Init => PlacedInv
<1> SUFFICES ASSUME Init PROVE PlacedInv
  OBVIOUS
<1>1. PICK file \in Files : semantic = ImportEntries(file, capacity) /\ log = file
  BY DEF Init
<1>2. capacity \in Nat \ {0} /\ log \in Seq(Entry) /\ cleared = 0
  BY <1>1, SemanticAssumption DEF Init
<1>3. PICK f : /\ Taken(semantic, log, f)
               /\ \A i \in 1 .. Len(log) : Lives(log[i]) =>
                     Reaches(f, Len(semantic), i) \/ Len(log) - i >= capacity
  <2>1. capacity \in Nat
    BY <1>2
  <2> QED BY <1>1, <1>2, <2>1, ImportFacts
<1>4. Len(log) \in Nat /\ DropCount \in 1 .. capacity
  BY <1>2, LenProperties, DropCountFacts
<1>5. f \in [1 .. Len(semantic) -> cleared + 1 .. Len(log)]
  BY <1>2, <1>3 DEF Taken, Increasing
<1>6. \A i \in cleared + 1 .. Len(log) :
          i >= Len(log) - capacity + DropCount /\ Lives(log[i])
              => Reaches(f, Len(semantic), i)
  <2> TAKE i \in cleared + 1 .. Len(log)
  <2>1. i \in 1 .. Len(log)
    BY <1>2
  <2>2. CASE Len(log) - i >= capacity
    BY <1>2, <1>4, <2>1, <2>2
  <2> QED BY <1>3, <2>1, <2>2
<1> QED BY <1>3, <1>5, <1>6 DEF Placed, PlacedInv, Taken, Increasing

LEMMA PlacedSet ==
  ASSUME TypeOK, PlacedInv, NEW p \in Prompts, NEW m \in Models, Set(p, m)
  PROVE  PlacedInv'
<1> DEFINE room == MakeRoom(semantic)
           e    == NewEntry(p, m)
           L    == Len(log)
           R    == Len(room)
<1>1. PICK pos : Placed(pos)
  BY DEF PlacedInv
<1>2. /\ e \in Entry /\ semantic' = Append(room, e) /\ log' = Append(log, e)
      /\ room \in Seq(Entry) /\ R < capacity /\ semantic \in Seq(Entry)
      /\ log \in Seq(Entry)
      /\ UNCHANGED <<capacity, now, cleared>>
  BY SetFacts DEF Set, TypeOK
<1>3. PICK f : /\ Taken(room, semantic, f)
               /\ \A i \in 1 .. Len(semantic) : Lives(semantic[i]) =>
                     Reaches(f, R, i) \/ Len(semantic) - i >= capacity - DropCount
  <2>1. capacity \in Nat \ {0} /\ Len(semantic) <= capacity
    BY ConstantFacts
  <2> QED BY <1>2, <2>1, RoomFacts
<1> HIDE DEF room, e
<1>4. /\ R \in Nat /\ L \in Nat /\ cleared \in 0 .. L /\ Len(semantic) \in Nat
      /\ capacity \in Nat \ {0} /\ DropCount \in 1 .. capacity
      /\ Len(semantic) <= capacity
  BY <1>2, ConstantFacts, LenProperties, DropCountFacts DEF TypeOK
<1>5. /\ Len(semantic') = R + 1 /\ \A n \in 1 .. R : semantic'[n] = room[n]
      /\ semantic'[R + 1] = e
      /\ Len(log') = L + 1 /\ \A i \in 1 .. L : log'[i] = log[i]
      /\ log'[L + 1] = e
  BY <1>2, AppendProperties
<1>6. /\ \A n \in 1 .. Len(semantic) :
            /\ pos[n] \in cleared + 1 .. L /\ semantic[n] = log[pos[n]]
      /\ \A a, b \in 1 .. Len(semantic) : a < b => pos[b] - pos[a] >= b - a
      /\ \A i \in cleared + 1 .. L : i >= L - capacity + DropCount /\ Lives(log[i])
              => Reaches(pos, Len(semantic), i)
  BY <1>1 DEF Placed
<1>7. /\ \A n \in 1 .. R : f[n] \in 1 .. Len(semantic) /\ room[n] = semantic[f[n]]
      /\ \A a, b \in 1 .. R : a < b => f[b] - f[a] >= b - a
  BY <1>3 DEF Taken, Increasing
<1> DEFINE q == [n \in 1 .. R + 1 |-> IF n = R + 1 THEN L + 1 ELSE pos[f[n]]]
<1>8. /\ q[R + 1] = L + 1 /\ \A n \in 1 .. R : q[n] = pos[f[n]]
      /\ \A n \in 1 .. R : q[n] \in cleared + 1 .. L
  BY <1>4, <1>6, <1>7
<1>9. q \in [1 .. R + 1 -> cleared + 1 .. L + 1]
  BY <1>4, <1>6, <1>7
<1> HIDE DEF q, L, R
<1>10. ASSUME NEW a \in 1 .. R + 1, NEW b \in 1 .. R + 1, a < b
       PROVE  q[b] - q[a] >= b - a
  <2>1. ASSUME NEW c \in 1 .. R, NEW d \in 1 .. R, c < d
        PROVE  q[d] - q[c] >= d - c
    <3>1. f[d] - f[c] >= d - c /\ f[c] \in 1 .. Len(semantic) /\ f[d] \in 1 .. Len(semantic)
      BY <1>7, <2>1
    <3>2. f[c] < f[d]
      BY <1>4, <2>1, <3>1
    <3>3. /\ pos[f[d]] - pos[f[c]] >= f[d] - f[c]
          /\ pos[f[d]] \in cleared + 1 .. L /\ pos[f[c]] \in cleared + 1 .. L
      BY <1>6, <3>1, <3>2
    <3>4. q[c] = pos[f[c]] /\ q[d] = pos[f[d]]
      BY <1>8, <2>1
    <3>5. /\ f[c] \in Int /\ f[d] \in Int /\ q[c] \in Int /\ q[d] \in Int
          /\ c \in Int /\ d \in Int
      BY <1>4, <2>1, <3>1, <3>3, <3>4
    <3> QED BY <3>1, <3>3, <3>4, <3>5
  <2>2. CASE b \in 1 .. R
    <3>1. a \in 1 .. R
      BY <1>4, <1>10, <2>2
    <3> QED BY <1>10, <2>1, <2>2, <3>1
  <2>3. CASE b = R + 1
    <3>1. a \in 1 .. R /\ q[b] = L + 1 /\ q[a] \in cleared + 1 .. L
      BY <1>4, <1>8, <1>10, <2>3
    <3>2. CASE a = R
      BY <1>4, <2>3, <3>1, <3>2
    <3>3. CASE a < R
      <4>1. R \in 1 .. R
        BY <1>4, <3>1
      <4>2. q[R] - q[a] >= R - a /\ q[R] \in cleared + 1 .. L
        BY <1>8, <2>1, <3>1, <3>3, <4>1
      <4> QED BY <1>4, <2>3, <3>1, <4>2
    <3> QED BY <1>4, <3>1, <3>2, <3>3
  <2> QED BY <1>4, <2>2, <2>3
<1>11. \A n \in 1 .. R + 1 : semantic'[n] = log'[q[n]]
  <2> TAKE n \in 1 .. R + 1
  <2>1. CASE n = R + 1
    BY <1>5, <1>8, <2>1 DEF L, R
  <2>2. CASE n \in 1 .. R
    <3>1. q[n] = pos[f[n]] /\ f[n] \in 1 .. Len(semantic) /\ room[n] = log[pos[f[n]]]
      BY <1>6, <1>7, <1>8, <2>2
    <3>2. pos[f[n]] \in 1 .. L
      BY <1>4, <1>6, <3>1
    <3> QED BY <1>5, <2>2, <3>1, <3>2 DEF L, R
  <2> QED BY <1>4, <2>1, <2>2
<1>12. ASSUME NEW i \in cleared + 1 .. L + 1,
              i >= L + 1 - capacity + DropCount, Lives(log'[i])
       PROVE  Reaches(q, R + 1, i)
  <2>1. CASE i = L + 1
    <3>1. R + 1 \in 1 .. R + 1
      BY <1>4
    <3> QED BY <1>8, <2>1, <3>1 DEF Reaches
  <2>2. CASE i \in cleared + 1 .. L
    <3>1. i \in 1 .. L /\ i >= L - capacity + DropCount
      BY <1>4, <1>12, <2>2
    <3>2. log'[i] = log[i]
      BY <1>5, <3>1 DEF L
    <3>3. PICK n \in 1 .. Len(semantic) : pos[n] = i
      BY <1>6, <1>12, <2>2, <3>1, <3>2 DEF Reaches
    <3>4. semantic[n] = log[i]
      BY <1>6, <3>3
    <3>5. ~(Len(semantic) - n >= capacity - DropCount)
      <4> SUFFICES ASSUME Len(semantic) - n >= capacity - DropCount PROVE FALSE
        OBVIOUS
      <4>1. n <= Len(semantic) /\ Len(semantic) \in 1 .. Len(semantic)
        BY <1>4
      <4>2. CASE n = Len(semantic)
        BY <1>4, <1>12, <2>2, <3>3, <4>2
      <4>3. CASE n < Len(semantic)
        <5>1. /\ pos[Len(semantic)] - pos[n] >= Len(semantic) - n
              /\ pos[Len(semantic)] \in cleared + 1 .. L
          BY <1>6, <4>1, <4>3
        <5> QED BY <1>4, <1>12, <2>2, <3>3, <5>1
      <4> QED BY <1>4, <4>1, <4>2, <4>3
    <3>6. Reaches(f, R, n)
      <4>1. Lives(semantic[n])
        BY <1>2, <1>12, <3>2, <3>4 DEF Lives
      <4> QED BY <1>3, <3>5, <4>1 DEF R
    <3>7. PICK k \in 1 .. R : f[k] = n
      BY <3>6 DEF Reaches
    <3>8. q[k] = i /\ k \in 1 .. R + 1
      BY <1>4, <1>8, <3>3, <3>7
    <3> QED BY <3>8 DEF Reaches
  <2> QED BY <1>4, <2>1, <2>2
<1>13. now' = now
  BY <1>2
<1>14. DropCount' = DropCount
  BY <1>2 DEF DropCount
<1>15. /\ 1 .. Len(semantic') = 1 .. R + 1
       /\ cleared' + 1 .. Len(log') = cleared + 1 .. L + 1
  BY <1>2, <1>5 DEF L, R
<1>16. PICK r : r = q
  OBVIOUS
<1>17. /\ r \in [1 .. Len(semantic') -> cleared' + 1 .. Len(log')]
       /\ \A a, b \in 1 .. Len(semantic') : a < b => r[b] - r[a] >= b - a
       /\ \A n \in 1 .. Len(semantic') : semantic'[n] = log'[r[n]]
  BY <1>9, <1>10, <1>11, <1>15, <1>16
<1>18. ASSUME NEW i \in cleared' + 1 .. Len(log'),
              i >= Len(log') - capacity' + DropCount', Lives(log[i])'
       PROVE  \E n \in 1 .. Len(semantic') : r[n] = i
  <2>1. i \in cleared + 1 .. L + 1 /\ Lives(log'[i])
    BY <1>13, <1>15, <1>18 DEF Lives
  <2>2. i >= L + 1 - capacity + DropCount
    BY <1>2, <1>4, <1>5, <1>14, <1>15, <1>18
  <2>3. Reaches(q, R + 1, i)
    BY <1>12, <2>1, <2>2
  <2> QED BY <1>15, <1>16, <2>3 DEF Reaches
<1>19. Placed(r)'
  <2>1. (r \in [1 .. Len(semantic) -> cleared + 1 .. Len(log)])'
    BY <1>17
  <2>2. (\A a, b \in 1 .. Len(semantic) : a < b => r[b] - r[a] >= b - a)'
    BY <1>17
  <2>3. (\A n \in 1 .. Len(semantic) : semantic[n] = log[r[n]])'
    BY <1>17
  <2>4. (\A i \in cleared + 1 .. Len(log) :
            i >= Len(log) - capacity + DropCount /\ Lives(log[i])
                => Reaches(r, Len(semantic), i))'
    BY <1>18 DEF Reaches
  <2> QED BY <2>1, <2>2, <2>3, <2>4 DEF Placed
<1> QED BY <1>19 DEF PlacedInv

LEMMA PlacedStep == TypeOK /\ PlacedInv /\ [Next]_vars => PlacedInv'
<1> SUFFICES ASSUME TypeOK, PlacedInv, [Next]_vars PROVE PlacedInv'
  OBVIOUS
<1>1. ASSUME NEW p \in Prompts, NEW m \in Models, Set(p, m) PROVE PlacedInv'
  BY <1>1, PlacedSet
<1>2. CASE Clear
  <2>1. semantic' = <<>> /\ cleared' = Len(log) /\ UNCHANGED <<capacity, now, log>>
    BY <1>2 DEF Clear
  <2>2. Len(log) \in Nat /\ Len(semantic') = 0
    BY <2>1, ConstantFacts, EmptySeq
  <2>3. \A i \in cleared' + 1 .. Len(log') : FALSE
    BY <2>1, <2>2
  <2> DEFINE q == [n \in 1 .. 0 |-> 0]
  <2>4. /\ q \in [1 .. Len(semantic') -> cleared' + 1 .. Len(log')]
        /\ \A n \in 1 .. Len(semantic') : FALSE
    BY <2>2
  <2> HIDE DEF q
  <2>5. /\ \A a, b \in 1 .. Len(semantic') : a < b => q[b] - q[a] >= b - a
        /\ \A n \in 1 .. Len(semantic') : semantic'[n] = log'[q[n]]
    BY <2>4
  <2>6. \A i \in cleared' + 1 .. Len(log') :
            i >= Len(log') - capacity' + DropCount' /\ Lives(log[i])'
                => Reaches(q, Len(semantic'), i)
    BY <2>3
  <2>7. Placed(q)'
    BY <2>1, <2>4, <2>5, <2>6 DEF Placed, Reaches
  <2> QED BY <2>7 DEF PlacedInv
<1>3. CASE Pass
  <2>1. UNCHANGED <<capacity, semantic, log, cleared>> /\ now' = now + 1
    BY <1>3 DEF Pass
  <2>2. PICK pos : Placed(pos)
    BY DEF PlacedInv
  <2>3. \A i \in 1 .. Len(log) : Lives(log[i])' => Lives(log[i])
    <3> TAKE i \in 1 .. Len(log)
    <3>1. log \in Seq(Entry) /\ now \in Nat /\ log' = log /\ now' = now + 1
      BY <2>1, ConstantFacts DEF TypeOK
    <3>2. log[i] \in Entry
      BY <3>1, ElementOfSeq
    <3>3. log[i].expiresAt \in Nat
      BY <3>2 DEF Entry
    <3> QED BY <3>1, <3>3 DEF Lives
  <2>4. DropCount' = DropCount
    BY <2>1 DEF DropCount
  <2>5. \A i \in cleared + 1 .. Len(log) : i \in 1 .. Len(log)
    BY ConstantFacts DEF TypeOK
  <2>6. Placed(pos)'
    BY <2>1, <2>2, <2>3, <2>4, <2>5 DEF Placed, Reaches
  <2> QED BY <2>6 DEF PlacedInv
<1>4. CASE UNCHANGED vars
  BY <1>4 DEF vars, PlacedInv, Placed, Reaches, DropCount, Lives
<1> QED BY <1>1, <1>2, <1>3, <1>4 DEF Next

(* RecentKept: for every capacity, of the entries stored last as many as   *)
(* fit after a drop of the oldest tenth stay until they expire or the      *)
(* cache is cleared.                                                       *)
THEOREM RecentStay == Spec => []RecentKept
<1>1. TypeOK /\ PlacedInv => RecentKept
  <2> SUFFICES ASSUME TypeOK, PlacedInv, NEW i \in cleared + 1 .. Len(log),
                      i >= Len(log) - capacity + Max({1, capacity \div 10}), Lives(log[i])
               PROVE  log[i] \in ToSet(semantic)
    BY DEF RecentKept
  <2>1. Max({1, capacity \div 10}) = DropCount
    BY ConstantFacts, DropCountFacts
  <2>2. PICK pos : Placed(pos)
    BY DEF PlacedInv
  <2>3. PICK n \in 1 .. Len(semantic) : pos[n] = i
    BY <2>1, <2>2 DEF Placed, Reaches
  <2>4. semantic[n] = log[i]
    BY <2>2, <2>3 DEF Placed
  <2>5. DOMAIN semantic = 1 .. Len(semantic)
    BY LenProperties DEF TypeOK
  <2> QED BY <2>3, <2>4, <2>5 DEF ToSet
<1> QED BY <1>1, PlacedInit, PlacedStep, TypeCorrect, PTL DEF Spec

-----------------------------------------------------------------------------
(***************************************************************************)
(* The search. Its loop is a fold, which the community modules define by a *)
(* recursive function on the sets of positions; that this function exists  *)
(* is proved by induction, and induction from the order of the numbers     *)
(* being well-founded.                                                     *)
(***************************************************************************)

Less == {r \in Nat \X Nat : r[1] < r[2]}

LEMMA Induction ==
  ASSUME NEW T, 0 \in T, \A n \in Nat : n \in T => n + 1 \in T
  PROVE  \A n \in Nat : n \in T
<1> SUFFICES ASSUME NEW k \in Nat, k \notin T PROVE FALSE
  OBVIOUS
<1> DEFINE U == {n \in Nat : n \notin T}
<1>1. IsWellFoundedOn(Less, Nat)
  BY NatLessThanWellFounded DEF Less, OpToRel
<1>2. U \subseteq Nat /\ U # {}
  OBVIOUS
<1>3. PICK x \in U : \A y \in U : ~(<<y, x>> \in Less)
  BY <1>1, <1>2, WFMin
<1>4. x \in Nat /\ x # 0 /\ x - 1 \in Nat
  OBVIOUS
<1>5. x - 1 \in U
  <2>1. (x - 1) + 1 = x
    BY <1>4
  <2> QED BY <1>4, <2>1
<1>6. <<x - 1, x>> \in Less
  BY <1>4 DEF Less
<1> QED BY <1>3, <1>5, <1>6

(* The fold behind Search, over the positions in D.                         *)
Start == [score |-> -1, answer |-> None, found |-> FALSE]
Rec(it, s, D, p, m) ==
   it = [I \in SUBSET D |-> IF I = {} THEN Start
                       ELSE Consider(it[I \ {Max(I)}], s[Max(I)], p, m)]

LEMMA SearchRec ==
  ASSUME NEW p, NEW m
  PROVE Search(p, m) =
          LET best == (CHOOSE it : Rec(it, semantic, DOMAIN semantic, p, m))[DOMAIN semantic]
          IN  IF best.found THEN best.answer ELSE None
BY DEF Search, FoldLeft, MapThenFoldSet, Rec, Start

LEMMA MaxOf ==
  ASSUME NEW I \in SUBSET Nat, NEW n \in I, \A i \in I : i <= n
  PROVE  Max(I) = n
<1>1. \A x \in I : (\A y \in I : x >= y) <=> x = n
  OBVIOUS
<1> QED BY <1>1 DEF Max

LEMMA RecExists ==
  ASSUME NEW s, NEW p, NEW m
  PROVE  \A n \in Nat : \E it : Rec(it, s, 1 .. n, p, m)
<1> DEFINE T == {n \in Nat : \E it : Rec(it, s, 1 .. n, p, m)}
<1>1. 0 \in T
  <2> DEFINE it == [I \in {{}} |-> Start]
  <2>1. SUBSET (1 .. 0) = {{}}
    OBVIOUS
  <2>2. it = [I \in {{}} |-> IF I = {} THEN Start
                       ELSE Consider(it[I \ {Max(I)}], s[Max(I)], p, m)]
    OBVIOUS
  <2>3. Rec(it, s, 1 .. 0, p, m)
    BY <2>1, <2>2 DEF Rec
  <2> QED BY <2>3
<1>2. ASSUME NEW n \in Nat, n \in T PROVE n + 1 \in T
  <2>1. PICK it : Rec(it, s, 1 .. n, p, m)
    BY <1>2
  <2> DEFINE D == SUBSET (1 .. n + 1)
             new == [I \in D |-> IF n + 1 \in I
                        THEN Consider(it[I \ {n + 1}], s[n + 1], p, m) ELSE it[I]]
  <2>2. ASSUME NEW I \in D, I # {}
        PROVE  new[I] = Consider(new[I \ {Max(I)}], s[Max(I)], p, m)
    <3>1. CASE n + 1 \in I
      <4>1. Max(I) = n + 1
        BY <1>2, <3>1, MaxOf
      <4>2. I \ {n + 1} \in D /\ n + 1 \notin I \ {n + 1}
        OBVIOUS
      <4> QED BY <3>1, <4>1, <4>2
    <3>2. CASE n + 1 \notin I
      <4>1. I \in SUBSET (1 .. n)
        BY <1>2, <3>2
      <4>2. it[I] = Consider(it[I \ {Max(I)}], s[Max(I)], p, m)
        BY <2>1, <2>2, <4>1 DEF Rec
      <4>3. I \ {Max(I)} \in D /\ n + 1 \notin I \ {Max(I)}
        BY <3>2
      <4> QED BY <3>2, <4>2, <4>3
    <3> QED BY <3>1, <3>2
  <2>3. new[{}] = Start
    <3>1. {} \in D /\ {} \in SUBSET (1 .. n)
      OBVIOUS
    <3>2. it[{}] = Start
      BY <2>1, <3>1 DEF Rec
    <3> QED BY <3>1, <3>2
  <2>4. new = [I \in D |-> new[I]]
    OBVIOUS
  <2> HIDE DEF new
  <2>5. Rec(new, s, 1 .. n + 1, p, m)
    BY <2>2, <2>3, <2>4 DEF Rec
  <2> QED BY <1>2, <2>5
<1> HIDE DEF T
<1>3. \A n \in Nat : n \in T
  BY <1>1, <1>2, Induction
<1> QED BY <1>3 DEF T

(* Search goes through the entries one by one.                             *)
LEMMA Loop ==
  ASSUME NEW p, NEW m, NEW S, semantic \in Seq(S)
  PROVE  \E B : /\ B[0] = Start
                /\ \A k \in 1 .. Len(semantic) : B[k] = Consider(B[k - 1], semantic[k], p, m)
                /\ Search(p, m) = IF B[Len(semantic)].found THEN B[Len(semantic)].answer ELSE None
<1> DEFINE n == Len(semantic)
<1>1. n \in Nat /\ DOMAIN semantic = 1 .. n
  BY LenProperties
<1>2. \E it : Rec(it, semantic, 1 .. n, p, m)
  BY <1>1, RecExists
<1> DEFINE it == CHOOSE it : Rec(it, semantic, 1 .. n, p, m)
<1>3. Rec(it, semantic, 1 .. n, p, m)
  BY <1>2
<1> HIDE DEF it
<1> DEFINE B == [k \in 0 .. n |-> it[1 .. k]]
<1>4. B[0] = Start
  <2>1. 1 .. 0 = {} /\ {} \in SUBSET (1 .. n) /\ 0 \in 0 .. n
    BY <1>1
  <2> QED BY <1>3, <2>1 DEF Rec
<1>5. ASSUME NEW k \in 1 .. n
      PROVE  B[k] = Consider(B[k - 1], semantic[k], p, m)
  <2>1. (1 .. k) \in SUBSET (1 .. n) /\ (1 .. k) # {} /\ k \in 0 .. n /\ k - 1 \in 0 .. n
    <3>1. k \in Nat /\ k \in 1 .. k /\ k \in 0 .. n /\ k - 1 \in 0 .. n
      BY <1>1
    <3>2. \A i \in 1 .. k : i \in 1 .. n
      BY <1>1
    <3> QED BY <3>1, <3>2
  <2>2. Max(1 .. k) = k
    <3>1. (1 .. k) \in SUBSET Nat /\ k \in 1 .. k /\ \A i \in 1 .. k : i <= k
      BY <1>1
    <3> QED BY <3>1, MaxOf
  <2>3. (1 .. k) \ {k} = 1 .. k - 1
    BY <1>1
  <2>4. it[1 .. k] = Consider(it[(1 .. k) \ {Max(1 .. k)}], semantic[Max(1 .. k)], p, m)
    BY <1>3, <2>1 DEF Rec
  <2> QED BY <2>1, <2>2, <2>3, <2>4
<1>6. Search(p, m) = IF B[n].found THEN B[n].answer ELSE None
  <2>1. n \in 0 .. n
    BY <1>1
  <2>2. B[n] = it[DOMAIN semantic]
    BY <1>1, <2>1
  <2> QED BY <1>1, <2>2, SearchRec DEF it
<1> QED BY <1>4, <1>5, <1>6

Match(p, m, k) == {i \in 1 .. k : semantic[i].model = m /\ Serves(semantic[i])}

(* What the loop knows after k entries.                                    *)
BestOf(b, p, m, k) ==
    \/ b = Start /\ Match(p, m, k) = {}
    \/ \E i \in Match(p, m, k) :
          /\ b.score = Similarity(p, semantic[i].prompt) /\ b.answer = semantic[i].answer
          /\ b.found <=> b.score >= Threshold
          /\ \A j \in Match(p, m, k) : Similarity(p, semantic[j].prompt) <= b.score

(* A turn of the loop keeps that true.                                     *)
LEMMA ConsiderFacts ==
  ASSUME semantic \in Seq(Entry), NEW p \in Prompts, NEW m \in Models,
         NEW k \in 1 .. Len(semantic), NEW b, BestOf(b, p, m, k - 1)
  PROVE  BestOf(Consider(b, semantic[k], p, m), p, m, k)
<1> DEFINE e  == semantic[k]
           sc == Similarity(p, e.prompt)
           C  == Match(p, m, k - 1)
<1>1. Len(semantic) \in Nat /\ k \in 1 .. k /\ k \in Nat
  BY LenProperties
<1>2. \A i \in 1 .. Len(semantic) : semantic[i].prompt \in Prompts
  <2> TAKE i \in 1 .. Len(semantic)
  <2>1. semantic[i] \in Entry
    BY ElementOfSeq
  <2> QED BY <2>1 DEF Entry
<1>3. \A q \in Prompts : Similarity(p, q) \in Nat
  BY SemanticAssumption DEF Similarity
<1>4. Threshold \in Nat
  BY SemanticAssumption
<1>5. \A i : i \in 1 .. k <=> i \in 1 .. k - 1 \/ i = k
  BY <1>1
<1>6. CASE e.model # m \/ ~Serves(e)
  <2>1. Consider(b, e, p, m) = b
    BY <1>6 DEF Consider
  <2>2. Match(p, m, k) = C
    BY <1>5, <1>6 DEF Match
  <2> QED BY <2>1, <2>2 DEF BestOf
<1>7. CASE e.model = m /\ Serves(e)
  <2>1. \A i : i \in Match(p, m, k) <=> i \in C \/ i = k
    BY <1>5, <1>7 DEF Match
  <2>2. sc \in Nat
    BY <1>2, <1>3
  <2>3. \A i \in C : Similarity(p, semantic[i].prompt) \in Nat
    <3> TAKE i \in C
    <3>1. i \in 1 .. Len(semantic)
      BY <1>1 DEF Match
    <3> QED BY <1>2, <1>3, <3>1
  <2> HIDE DEF C, sc, e
  <2>4. CASE b = Start /\ C = {}
    <3> DEFINE new == [score |-> sc, answer |-> e.answer, found |-> sc >= Threshold]
    <3>1. b.score = -1 /\ b.found = FALSE
      BY <2>4 DEF Start
    <3>2. ~(sc <= b.score) /\ ~(e.model # m \/ ~Serves(e))
      BY <1>7, <2>2, <3>1
    <3>3. Consider(b, e, p, m) = new
      <4>1. (b.found \/ sc >= Threshold) = (sc >= Threshold)
        BY <3>1
      <4> QED BY <3>2, <4>1, Zenon DEF Consider, sc
    <3>4. new.score = sc /\ new.answer = e.answer /\ new.found = (sc >= Threshold)
      OBVIOUS
    <3> HIDE DEF new
    <3>5. \A j \in Match(p, m, k) : Similarity(p, semantic[j].prompt) <= sc
      BY <2>1, <2>2, <2>4 DEF sc, e
    <3>6. BestOf(new, p, m, k)
      BY <2>1, <3>4, <3>5 DEF BestOf, sc, e
    <3> QED BY <3>3, <3>6 DEF e
  <2>5. ASSUME NEW i \in C,
               b.score = Similarity(p, semantic[i].prompt), b.answer = semantic[i].answer,
               b.found <=> b.score >= Threshold,
               \A j \in C : Similarity(p, semantic[j].prompt) <= b.score
        PROVE  BestOf(Consider(b, e, p, m), p, m, k)
    <3>1. b.score \in Nat
      BY <2>3, <2>5
    <3>2. CASE sc <= b.score
      <4>1. Consider(b, e, p, m) = b
        BY <1>7, <3>2 DEF Consider, sc
      <4>2. \A j \in Match(p, m, k) : Similarity(p, semantic[j].prompt) <= b.score
        BY <2>1, <2>5, <3>2 DEF sc, e
      <4> QED BY <2>1, <2>5, <4>1, <4>2 DEF BestOf
    <3>3. CASE ~(sc <= b.score)
      <4> DEFINE fnd == b.found \/ sc >= Threshold
                 new == [score |-> sc, answer |-> e.answer, found |-> fnd]
      <4>1. Consider(b, e, p, m) = new
        BY <1>7, <3>3, Zenon DEF Consider, sc
      <4>2. fnd <=> sc >= Threshold
        BY <1>4, <2>2, <2>5, <3>1, <3>3
      <4>3. new.score = sc /\ new.answer = e.answer /\ new.found = fnd
        OBVIOUS
      <4> HIDE DEF new, fnd
      <4>4. \A j \in Match(p, m, k) : Similarity(p, semantic[j].prompt) <= sc
        <5> TAKE j \in Match(p, m, k)
        <5>1. CASE j = k
          BY <2>2, <5>1 DEF sc, e
        <5>2. CASE j \in C
          BY <2>2, <2>3, <2>5, <3>1, <3>3, <5>2
        <5> QED BY <2>1, <5>1, <5>2
      <4>5. BestOf(new, p, m, k)
        BY <2>1, <4>2, <4>3, <4>4 DEF BestOf, sc, e
      <4> QED BY <4>1, <4>5
    <3> QED BY <3>2, <3>3
  <2> QED BY <2>4, <2>5 DEF BestOf, C, e
<1> QED BY <1>6, <1>7 DEF e

LEMMA SearchFacts ==
  ASSUME semantic \in Seq(Entry)
  PROVE  SearchIsBest
<1> SUFFICES ASSUME NEW p \in Prompts, NEW m \in Models
             PROVE  LET hits == {e \in ToSet(semantic) : /\ e.model = m /\ Serves(e)
                                             /\ Similarity(p, e.prompt) >= Threshold}
                        best == {e \in hits : \A f \in hits :
                                    Similarity(p, e.prompt) >= Similarity(p, f.prompt)}
                    IN  IF hits = {} THEN Search(p, m) = None
                        ELSE Search(p, m) \in {e.answer : e \in best}
  BY DEF SearchIsBest
<1> DEFINE n == Len(semantic)
           hits == {e \in ToSet(semantic) : /\ e.model = m /\ Serves(e)
                                             /\ Similarity(p, e.prompt) >= Threshold}
           best == {e \in hits : \A f \in hits : Similarity(p, e.prompt) >= Similarity(p, f.prompt)}
<1>1. n \in Nat /\ ToSet(semantic) = {semantic[i] : i \in 1 .. n}
  BY LenProperties DEF ToSet
<1>2. PICK B : /\ B[0] = Start
               /\ \A k \in 1 .. n : B[k] = Consider(B[k - 1], semantic[k], p, m)
               /\ Search(p, m) = IF B[n].found THEN B[n].answer ELSE None
  BY Loop
<1> DEFINE T == {k \in Nat : k <= n => BestOf(B[k], p, m, k)}
<1>3. 0 \in T
  <2>1. Match(p, m, 0) = {}
    BY DEF Match
  <2> QED BY <1>2, <2>1 DEF BestOf
<1>4. ASSUME NEW k \in Nat, k \in T PROVE k + 1 \in T
  <2> SUFFICES ASSUME k + 1 <= n PROVE BestOf(B[k + 1], p, m, k + 1)
    OBVIOUS
  <2>1. k + 1 \in 1 .. n /\ (k + 1) - 1 = k /\ k <= n
    BY <1>1
  <2>2. BestOf(B[(k + 1) - 1], p, m, (k + 1) - 1)
    BY <1>4, <2>1
  <2>3. BestOf(Consider(B[(k + 1) - 1], semantic[k + 1], p, m), p, m, k + 1)
    BY <2>1, <2>2, ConsiderFacts
  <2> QED BY <1>2, <2>1, <2>3
<1>5. BestOf(B[n], p, m, n)
  <2> HIDE DEF T
  <2>1. n \in T
    BY <1>1, <1>3, <1>4, Induction
  <2> QED BY <1>1, <2>1 DEF T
<1>6. \A i \in 1 .. n : semantic[i] \in Entry /\ Similarity(p, semantic[i].prompt) \in Nat
  <2> TAKE i \in 1 .. n
  <2>1. semantic[i] \in Entry
    BY <1>1, ElementOfSeq
  <2> QED BY <2>1, SemanticAssumption DEF Entry, Similarity
<1>7. Threshold \in Nat
  BY SemanticAssumption
<1>8. \A e \in hits : \E i \in Match(p, m, n) :
         e = semantic[i] /\ Similarity(p, semantic[i].prompt) >= Threshold
  BY <1>1 DEF Match
<1>9. CASE Match(p, m, n) = {}
  <2>1. B[n] = Start
    BY <1>5, <1>9 DEF BestOf
  <2>2. hits = {}
    BY <1>8, <1>9
  <2> QED BY <1>2, <2>1, <2>2 DEF Start
<1>10. CASE Match(p, m, n) # {}
  <2>1. PICK i \in Match(p, m, n) :
          /\ B[n].score = Similarity(p, semantic[i].prompt) /\ B[n].answer = semantic[i].answer
          /\ B[n].found <=> B[n].score >= Threshold
          /\ \A j \in Match(p, m, n) : Similarity(p, semantic[j].prompt) <= B[n].score
    BY <1>5, <1>10 DEF BestOf
  <2>2. i \in 1 .. n /\ B[n].score \in Nat
    BY <1>6, <2>1 DEF Match
  <2>3. \A f \in hits : B[n].score >= Similarity(p, f.prompt)
    <3> TAKE f \in hits
    <3>1. PICK j \in Match(p, m, n) : f = semantic[j]
      BY <1>8
    <3>2. j \in 1 .. n
      BY DEF Match
    <3> QED BY <1>6, <2>1, <2>2, <3>1, <3>2
  <2>4. CASE B[n].found
    <3>1. semantic[i] \in hits
      BY <1>1, <2>1, <2>2, <2>4 DEF Match
    <3>2. semantic[i] \in best
      BY <2>1, <2>3, <3>1
    <3>3. Search(p, m) = semantic[i].answer
      BY <1>2, <2>1, <2>4
    <3> QED BY <3>1, <3>2, <3>3
  <2>5. CASE ~B[n].found
    <3>1. Search(p, m) = None
      BY <1>2, <2>5
    <3>2. hits = {}
      <4> SUFFICES ASSUME NEW f \in hits PROVE FALSE
        OBVIOUS
      <4>1. PICK j \in Match(p, m, n) :
               f = semantic[j] /\ Similarity(p, semantic[j].prompt) >= Threshold
        BY <1>8
      <4>2. j \in 1 .. n
        BY DEF Match
      <4> QED BY <1>6, <1>7, <2>1, <2>2, <2>5, <4>1, <4>2
    <3> QED BY <3>1, <3>2
  <2> QED BY <2>4, <2>5
<1> QED BY <1>9, <1>10

(* SearchIsBest: for all similarities and thresholds, what the loop of     *)
(* Search returns is the answer of an entry that is a hit and than which   *)
(* no hit is more similar, and nothing only if there is no hit.            *)
THEOREM SearchFindsBest == Spec => []SearchIsBest
<1>1. TypeOK => SearchIsBest
  BY SearchFacts DEF TypeOK
<1> QED BY <1>1, TypeCorrect, PTL
=============================================================================
