-------------------------- MODULE ExactCacheProofs --------------------------
(***************************************************************************)
(* The map and the doubly linked list of the exact cache always hold the   *)
(* same nodes in a proper order, and implement the abstract LRU cache: for *)
(* every set of keys, every capacity and every time to live.               *)
(***************************************************************************)
EXTENDS ExactCache, FiniteSetTheorems, SequenceTheorems, WellFoundedInduction, TLAPS

(* Sequences by position.                                                  *)
Without(s, i) == [j \in 1 .. Len(s) - 1 |-> IF j < i THEN s[j] ELSE s[j + 1]]
Fronted(x, s) == [j \in 1 .. Len(s) + 1 |-> IF j = 1 THEN x ELSE s[j - 1]]

LEMMA WithoutFacts ==
  ASSUME NEW S, NEW s \in Seq(S), NEW i \in 1 .. Len(s)
  PROVE  /\ Without(s, i) \in Seq(S) /\ Len(Without(s, i)) = Len(s) - 1 /\ Len(s) \in Nat
         /\ \A j \in 1 .. Len(s) - 1 : Without(s, i)[j] = IF j < i THEN s[j] ELSE s[j + 1]
<1>1. Len(s) \in Nat /\ Len(s) - 1 \in Nat /\ i \in Nat /\ i >= 1 /\ i <= Len(s)
  BY LenProperties
<1>2. \A j \in 1 .. Len(s) : s[j] \in S
  BY ElementOfSeq
<1> DEFINE f(j) == IF j < i THEN s[j] ELSE s[j + 1]
<1>3. \A j \in 1 .. Len(s) - 1 : f(j) \in S
  <2> TAKE j \in 1 .. Len(s) - 1
  <2>1. j \in 1 .. Len(s) /\ j + 1 \in 1 .. Len(s)
    BY <1>1
  <2> QED BY <1>2, <2>1
<1>4. Without(s, i) = [j \in 1 .. Len(s) - 1 |-> f(j)]
  BY DEF Without
<1> HIDE DEF f
<1>5. Without(s, i) \in [1 .. Len(s) - 1 -> S]
  BY <1>3, <1>4
<1>6. Without(s, i) \in Seq(S) /\ Len(Without(s, i)) = Len(s) - 1
  BY <1>1, <1>5, SeqDef, LenProperties
<1> QED BY <1>1, <1>4, <1>6 DEF f

LEMMA FrontedFacts ==
  ASSUME NEW S, NEW s \in Seq(S), NEW x \in S
  PROVE  /\ Fronted(x, s) \in Seq(S) /\ Len(Fronted(x, s)) = Len(s) + 1 /\ Len(s) \in Nat
         /\ \A j \in 1 .. Len(s) + 1 : Fronted(x, s)[j] = IF j = 1 THEN x ELSE s[j - 1]
<1>1. Len(s) \in Nat /\ Len(s) + 1 \in Nat
  BY LenProperties
<1>2. \A j \in 1 .. Len(s) : s[j] \in S
  BY ElementOfSeq
<1> DEFINE f(j) == IF j = 1 THEN x ELSE s[j - 1]
<1>3. \A j \in 1 .. Len(s) + 1 : f(j) \in S
  <2> TAKE j \in 1 .. Len(s) + 1
  <2>1. j # 1 => j - 1 \in 1 .. Len(s)
    BY <1>1
  <2> QED BY <1>2, <2>1
<1>4. Fronted(x, s) = [j \in 1 .. Len(s) + 1 |-> f(j)]
  BY DEF Fronted
<1> HIDE DEF f
<1>5. Fronted(x, s) \in [1 .. Len(s) + 1 -> S]
  BY <1>3, <1>4
<1>6. Fronted(x, s) \in Seq(S) /\ Len(Fronted(x, s)) = Len(s) + 1
  BY <1>1, <1>5, SeqDef, LenProperties
<1> QED BY <1>1, <1>4, <1>6 DEF f

LEMMA RemoveAtWithout ==
  ASSUME NEW S, NEW s \in Seq(S), NEW i \in 1 .. Len(s)
  PROVE  RemoveAt(s, i) = Without(s, i)
<1> DEFINE n == Len(s)
           front == SubSeq(s, 1, i - 1)
           back == SubSeq(s, i + 1, n)
<1>1. n \in Nat /\ i \in Nat /\ i >= 1 /\ i <= n /\ i - 1 \in Int /\ i + 1 \in Int /\ n \in Int
      /\ 1 \in Int
  BY LenProperties
<1>2. \A j \in 1 .. n : s[j] \in S
  BY ElementOfSeq
<1>3. /\ front \in Seq(S) /\ Len(front) = i - 1
      /\ \A j \in 1 .. i - 1 : front[j] = s[j]
  <2>1. \A j \in 1 .. i - 1 : s[j] \in S
    BY <1>1, <1>2
  <2>2. /\ front \in Seq(S) /\ Len(front) = IF 1 <= i - 1 THEN (i - 1) - 1 + 1 ELSE 0
        /\ \A j \in 1 .. (i - 1) - 1 + 1 : front[j] = s[1 + j - 1]
    BY <1>1, <2>1, SubSeqProperties
  <2>3. \A j \in 1 .. i - 1 : 1 + j - 1 = j
    BY <1>1
  <2> HIDE DEF front
  <2>4. (i - 1) - 1 + 1 = i - 1 /\ (~(1 <= i - 1) => i - 1 = 0)
    BY <1>1
  <2> QED BY <2>2, <2>3, <2>4
<1>4. /\ back \in Seq(S) /\ Len(back) = n - i
      /\ \A j \in 1 .. n - i : back[j] = s[i + j]
  <2>1. \A j \in i + 1 .. n : s[j] \in S
    BY <1>1, <1>2
  <2> HIDE DEF n
  <2>2. /\ back \in Seq(S) /\ Len(back) = IF i + 1 <= n THEN n - (i + 1) + 1 ELSE 0
        /\ \A j \in 1 .. n - (i + 1) + 1 : back[j] = s[(i + 1) + j - 1]
    BY <1>1, <2>1, SubSeqProperties
  <2>3. \A j \in 1 .. n - i : (i + 1) + j - 1 = i + j
    BY <1>1
  <2> HIDE DEF back
  <2>4. n - (i + 1) + 1 = n - i /\ (~(i + 1 <= n) => n - i = 0)
    BY <1>1
  <2> QED BY <2>2, <2>3, <2>4
<1>5. RemoveAt(s, i) = front \o back
  BY DEF RemoveAt
<1> HIDE DEF front, back, n
<1> DEFINE t == front \o back
<1>6. /\ t \in Seq(S) /\ Len(t) = Len(front) + Len(back)
      /\ \A j \in 1 .. Len(front) + Len(back) :
            t[j] = IF j <= Len(front) THEN front[j] ELSE back[j - Len(front)]
  BY <1>3, <1>4, ConcatProperties
<1> HIDE DEF t
<1>7. Len(t) = n - 1
  BY <1>1, <1>3, <1>4, <1>6
<1>8. /\ Without(s, i) \in Seq(S) /\ Len(Without(s, i)) = n - 1
      /\ \A j \in 1 .. n - 1 : Without(s, i)[j] = IF j < i THEN s[j] ELSE s[j + 1]
  BY WithoutFacts DEF n
<1>9. \A j \in 1 .. n - 1 : t[j] = Without(s, i)[j]
  <2> TAKE j \in 1 .. n - 1
  <2>1. t[j] = IF j <= i - 1 THEN front[j] ELSE back[j - (i - 1)]
    BY <1>1, <1>3, <1>4, <1>6
  <2>2. CASE j < i
    <3>1. j \in 1 .. i - 1 /\ j <= i - 1
      BY <1>1, <2>2
    <3> QED BY <1>3, <1>8, <2>1, <2>2, <3>1
  <2>3. CASE ~(j < i)
    <3>1. j - (i - 1) \in 1 .. n - i /\ ~(j <= i - 1) /\ i + (j - (i - 1)) = j + 1
      BY <1>1, <2>3
    <3> QED BY <1>4, <1>8, <2>1, <2>3, <3>1
  <2> QED BY <2>2, <2>3
<1>10. t = Without(s, i)
  BY <1>6, <1>7, <1>8, <1>9, SeqEqual
<1> QED BY <1>5, <1>10 DEF t

LEMMA ConcatFronted ==
  ASSUME NEW S, NEW s \in Seq(S), NEW x \in S
  PROVE  <<x>> \o s = Fronted(x, s)
<1> DEFINE t == <<x>> \o s
<1>1. <<x>> \in Seq(S) /\ Len(<<x>>) = 1 /\ <<x>>[1] = x /\ Len(s) \in Nat
  BY LenProperties
<1>2. /\ t \in Seq(S) /\ Len(t) = Len(<<x>>) + Len(s)
      /\ \A j \in 1 .. Len(<<x>>) + Len(s) :
            t[j] = IF j <= Len(<<x>>) THEN <<x>>[j] ELSE s[j - Len(<<x>>)]
  BY <1>1, ConcatProperties
<1> HIDE DEF t
<1>3. Len(t) = Len(s) + 1
  BY <1>1, <1>2
<1>4. /\ Fronted(x, s) \in Seq(S) /\ Len(Fronted(x, s)) = Len(s) + 1
      /\ \A j \in 1 .. Len(s) + 1 : Fronted(x, s)[j] = IF j = 1 THEN x ELSE s[j - 1]
  BY FrontedFacts
<1>5. \A j \in 1 .. Len(s) + 1 : t[j] = Fronted(x, s)[j]
  <2> TAKE j \in 1 .. Len(s) + 1
  <2>1. j \in 1 .. Len(<<x>>) + Len(s) /\ (j <= Len(<<x>>) <=> j = 1)
    BY <1>1
  <2>2. t[j] = IF j = 1 THEN <<x>>[1] ELSE s[j - 1]
    BY <1>1, <1>2, <2>1
  <2> QED BY <1>1, <1>4, <2>2
<1>6. t = Fronted(x, s)
  BY <1>2, <1>3, <1>4, <1>5, SeqEqual
<1> QED BY <1>6 DEF t

(***************************************************************************)
(* The nodes, field by field.                                              *)
(***************************************************************************)
Ends == Nodes \cup {Nil}

AnyNode == [key : Keys \cup {Miss}, val : Values \cup {Miss}, expiresAt : 0 .. MaxTime + TTL,
            prev : Ends, next : Ends]

CacheType == [items : [Keys -> Ends], node : [Nodes -> AnyNode], head : Ends, tail : Ends]

(* What a node stands for, apart from where it is in the list.             *)
Load(x) == [key |-> x.key, val |-> x.val, expiresAt |-> x.expiresAt]

Rewired(x, a, b) == [x EXCEPT !.next = a, !.prev = b]

LEMMA NodeFields ==
  ASSUME NEW x \in AnyNode, NEW a \in Ends, NEW b \in Ends
  PROVE  /\ Rewired(x, a, b) \in AnyNode /\ Load(Rewired(x, a, b)) = Load(x)
         /\ Rewired(x, a, b).next = a /\ Rewired(x, a, b).prev = b
BY DEF AnyNode, Load, Rewired

LEMMA CacheFields ==
  ASSUME NEW c \in CacheType
  PROVE  /\ c.items \in [Keys -> Ends] /\ c.node \in [Nodes -> AnyNode]
         /\ c.head \in Ends /\ c.tail \in Ends
         /\ \A n \in Nodes : c.node[n] \in AnyNode /\ c.node[n].prev \in Ends
                             /\ c.node[n].next \in Ends
BY DEF CacheType, AnyNode

LEMMA NodesAndNil ==
  /\ Nil \notin Nodes /\ Cardinality(Keys) \in Nat /\ Nodes \subseteq Nat
  /\ IsFiniteSet(Nodes) /\ Cardinality(Nodes) = Cardinality(Keys) + 1
<1>1. Cardinality(Keys) \in Nat
  BY KeysAssumption, FS_CardinalityType
<1>2. IsFiniteSet(1 .. Cardinality(Keys) + 1)
      /\ Cardinality(1 .. Cardinality(Keys) + 1) = Cardinality(Keys) + 1
  BY <1>1, FS_Interval
<1> QED BY <1>1, <1>2 DEF Nodes, Nil

(* A node taken out of the list: its neighbours meet.                      *)
LEMMA RemoveFields ==
  ASSUME NEW c \in CacheType, NEW n \in Nodes
  PROVE  LET r == RemoveNode(c, n)
             p == c.node[n].prev
             s == c.node[n].next
         IN  /\ r \in CacheType /\ r.items = c.items
             /\ r.head = (IF p = Nil THEN s ELSE c.head)
             /\ r.tail = (IF s = Nil THEN p ELSE c.tail)
             /\ \A m \in Nodes : /\ Load(r.node[m]) = Load(c.node[m])
                                 /\ r.node[m].next = IF m = p THEN s ELSE c.node[m].next
                                 /\ r.node[m].prev = IF m = s THEN p ELSE c.node[m].prev
<1> DEFINE p == c.node[n].prev
           s == c.node[n].next
           a(m) == IF m = p THEN s ELSE c.node[m].next
           b(m) == IF m = s THEN p ELSE c.node[m].prev
           y(m) == Rewired(c.node[m], a(m), b(m))
           h == IF p = Nil THEN s ELSE c.head
           t == IF s = Nil THEN p ELSE c.tail
           nodes == [m \in Nodes |-> y(m)]
           r == [c EXCEPT !.node = nodes, !.head = h, !.tail = t]
<1>1. r = RemoveNode(c, n)
  BY DEF RemoveNode, Rewired
<1>2. p \in Ends /\ s \in Ends /\ h \in Ends /\ t \in Ends
  BY CacheFields
<1>3. \A m \in Nodes : a(m) \in Ends /\ b(m) \in Ends
  BY <1>2, CacheFields
<1> HIDE DEF a, b, h, t
<1>4. \A m \in Nodes : /\ y(m) \in AnyNode /\ Load(y(m)) = Load(c.node[m])
                       /\ y(m).next = a(m) /\ y(m).prev = b(m)
  <2> TAKE m \in Nodes
  <2>1. PICK x \in AnyNode : x = c.node[m]
    BY CacheFields
  <2>2. a(m) \in Ends /\ b(m) \in Ends
    BY <1>3
  <2> QED BY <2>1, <2>2, NodeFields
<1> HIDE DEF y
<1>5. nodes \in [Nodes -> AnyNode] /\ \A m \in Nodes : nodes[m] = y(m)
  BY <1>4
<1> HIDE DEF nodes
<1>6. r \in CacheType /\ r.items = c.items /\ r.node = nodes /\ r.head = h /\ r.tail = t
  BY <1>2, <1>5 DEF CacheType
<1> HIDE DEF r
<1>7. \A m \in Nodes : /\ Load(r.node[m]) = Load(c.node[m])
                       /\ r.node[m].next = a(m) /\ r.node[m].prev = b(m)
  BY <1>4, <1>5, <1>6
<1> QED BY <1>1, <1>6, <1>7 DEF a, b, h, t

(* A node put at the head.                                                 *)
LEMMA AddFields ==
  ASSUME NEW c \in CacheType, NEW n \in Nodes, n # c.head
  PROVE  LET r == AddToHead(c, n)
         IN  /\ r \in CacheType /\ r.items = c.items
             /\ r.head = n
             /\ r.tail = (IF c.tail = Nil THEN n ELSE c.tail)
             /\ \A m \in Nodes :
                   /\ Load(r.node[m]) = Load(c.node[m])
                   /\ r.node[m].next = IF m = n THEN c.head ELSE c.node[m].next
                   /\ r.node[m].prev = IF m = n THEN Nil
                                       ELSE IF m = c.head THEN n ELSE c.node[m].prev
<1> DEFINE linked == [c.node EXCEPT ![n].prev = Nil, ![n].next = c.head]
           nodes == IF c.head = Nil THEN linked ELSE [linked EXCEPT ![c.head].prev = n]
           t == IF c.tail = Nil THEN n ELSE c.tail
           r == [c EXCEPT !.node = nodes, !.head = n, !.tail = t]
           a(m) == IF m = n THEN c.head ELSE c.node[m].next
           b(m) == IF m = n THEN Nil ELSE IF m = c.head THEN n ELSE c.node[m].prev
<1>1. r = AddToHead(c, n)
  BY DEF AddToHead
<1>2. c.node \in [Nodes -> AnyNode] /\ c.head \in Ends /\ c.tail \in Ends /\ Nil \in Ends
      /\ n \in Ends /\ t \in Ends
  BY CacheFields DEF Ends
<1>3. linked \in [Nodes -> AnyNode]
      /\ \A m \in Nodes : /\ Load(linked[m]) = Load(c.node[m])
                          /\ linked[m].next = a(m)
                          /\ linked[m].prev = IF m = n THEN Nil ELSE c.node[m].prev
  <2>1. PICK x \in AnyNode : x = c.node[n]
    BY <1>2
  <2> DEFINE y == Rewired(x, c.head, Nil)
  <2>2. y \in AnyNode /\ Load(y) = Load(x) /\ y.next = c.head /\ y.prev = Nil
    <3>1. x \in AnyNode /\ c.head \in Ends /\ Nil \in Ends
      BY <1>2, <2>1
    <3> QED BY <3>1, NodeFields
  <2>3. linked = [c.node EXCEPT ![n] = y]
    BY <1>2, <2>1 DEF AnyNode, Rewired
  <2> HIDE DEF y, linked
  <2>4. linked \in [Nodes -> AnyNode] /\ linked[n] = y
        /\ \A m \in Nodes : m # n => linked[m] = c.node[m]
    BY <1>2, <2>2, <2>3
  <2> QED BY <2>1, <2>2, <2>4
<1>4. nodes \in [Nodes -> AnyNode]
      /\ \A m \in Nodes : /\ Load(nodes[m]) = Load(c.node[m])
                          /\ nodes[m].next = a(m) /\ nodes[m].prev = b(m)
  <2> HIDE DEF a
  <2>1. CASE c.head = Nil
    <3> HIDE DEF linked
    <3>1. \A m \in Nodes : m # c.head
      BY <2>1, NodesAndNil
    <3> QED BY <1>3, <2>1, <3>1
  <2>2. CASE c.head # Nil
    <3>1. c.head \in Nodes
      BY <1>2, <2>2 DEF Ends
    <3> HIDE DEF linked
    <3>2. PICK h \in Nodes : h = c.head
      BY <3>1
    <3>3. PICK x \in AnyNode : x = linked[h]
      BY <1>3
    <3> DEFINE y == [x EXCEPT !.prev = n]
    <3>4. y \in AnyNode /\ Load(y) = Load(x) /\ y.next = x.next /\ y.prev = n
      BY <1>2 DEF AnyNode, Load
    <3>5. nodes = [linked EXCEPT ![h] = y]
      BY <1>3, <2>2, <3>2, <3>3 DEF AnyNode
    <3> HIDE DEF y, nodes
    <3>6. nodes \in [Nodes -> AnyNode] /\ nodes[h] = y
          /\ \A m \in Nodes : m # h => nodes[m] = linked[m]
      BY <1>3, <3>4, <3>5
    <3> QED BY <1>3, <3>2, <3>3, <3>4, <3>6
  <2> QED BY <2>1, <2>2
<1> HIDE DEF nodes, linked, t
<1>5. r \in CacheType /\ r.items = c.items /\ r.node = nodes /\ r.head = n /\ r.tail = t
  BY <1>2, <1>4 DEF CacheType
<1> HIDE DEF r
<1> QED BY <1>1, <1>4, <1>5 DEF t

(* Collection leaves what is referred to alone.                            *)
LEMMA CollectFields ==
  ASSUME NEW c \in CacheType
  PROVE  LET r == Collect(c)
         IN  /\ r \in CacheType /\ r.items = c.items /\ r.head = c.head /\ r.tail = c.tail
             /\ \A m \in Mapped(c) \cap Nodes : r.node[m] = c.node[m]
<1> DEFINE y(m) == IF m \in Referenced(c) THEN c.node[m] ELSE Garbage
           nodes == [m \in Nodes |-> y(m)]
           r == [c EXCEPT !.node = nodes]
<1>1. r = Collect(c)
  BY DEF Collect
<1>2. Garbage \in AnyNode
  BY NumbersAssumption DEF Garbage, AnyNode, Ends
<1>3. \A m \in Nodes : y(m) \in AnyNode
  BY <1>2, CacheFields
<1>4. \A m \in Mapped(c) : y(m) = c.node[m]
  BY DEF Referenced
<1> HIDE DEF y
<1>5. nodes \in [Nodes -> AnyNode] /\ \A m \in Nodes : nodes[m] = y(m)
  BY <1>3
<1> HIDE DEF nodes
<1>6. r \in CacheType /\ r.items = c.items /\ r.node = nodes /\ r.head = c.head
      /\ r.tail = c.tail
  BY <1>5 DEF CacheType
<1> HIDE DEF r
<1>7. \A m \in Mapped(c) \cap Nodes : r.node[m] = c.node[m]
  BY <1>4, <1>5, <1>6
<1> QED BY <1>1, <1>6, <1>7

(***************************************************************************)
(* A list of nodes, and the node at a position of it.                      *)
(***************************************************************************)
NodeAt(L, j) == IF j \in 1 .. Len(L) THEN L[j] ELSE Nil

Distinct(L) == \A i, j \in 1 .. Len(L) : L[i] = L[j] => i = j

Linked(c, L) ==
  /\ L \in Seq(Nodes) /\ Distinct(L)
  /\ c.head = NodeAt(L, 1) /\ c.tail = NodeAt(L, Len(L))
  /\ \A i \in 1 .. Len(L) : /\ c.node[L[i]].prev = NodeAt(L, i - 1)
                            /\ c.node[L[i]].next = NodeAt(L, i + 1)

LEMMA NodeAtFacts ==
  ASSUME NEW L \in Seq(Nodes), Distinct(L)
  PROVE  /\ Len(L) \in Nat
         /\ \A i \in 1 .. Len(L) : L[i] \in Nodes /\ NodeAt(L, i) = L[i]
         /\ \A j \in Int : NodeAt(L, j) \in Ends /\ (NodeAt(L, j) = Nil <=> j \notin 1 .. Len(L))
         /\ \A k \in 1 .. Len(L), j \in Int : L[k] = NodeAt(L, j) <=> j = k
<1>1. Len(L) \in Nat /\ \A i \in 1 .. Len(L) : L[i] \in Nodes
  BY LenProperties, ElementOfSeq
<1>2. \A i \in 1 .. Len(L) : NodeAt(L, i) = L[i]
  BY DEF NodeAt
<1>3. \A j \in Int : NodeAt(L, j) \in Ends /\ (NodeAt(L, j) = Nil <=> j \notin 1 .. Len(L))
  <2> TAKE j \in Int
  <2>1. CASE j \in 1 .. Len(L)
    BY <1>1, <1>2, <2>1, NodesAndNil DEF Ends
  <2>2. CASE j \notin 1 .. Len(L)
    BY <2>2 DEF NodeAt, Ends
  <2> QED BY <2>1, <2>2
<1>4. \A k \in 1 .. Len(L), j \in Int : L[k] = NodeAt(L, j) <=> j = k
  <2> TAKE k \in 1 .. Len(L), j \in Int
  <2>1. CASE j \in 1 .. Len(L)
    BY <1>2, <2>1 DEF Distinct
  <2>2. CASE j \notin 1 .. Len(L)
    BY <1>1, <1>3, <2>2, NodesAndNil
  <2> QED BY <2>1, <2>2
<1> QED BY <1>1, <1>2, <1>3, <1>4

LEMMA NodeAtWithout ==
  ASSUME NEW L \in Seq(Nodes), Distinct(L), NEW i \in 1 .. Len(L)
  PROVE  /\ Distinct(Without(L, i))
         /\ \A j \in Int : NodeAt(Without(L, i), j)
                              = IF j < i THEN NodeAt(L, j) ELSE NodeAt(L, j + 1)
<1> DEFINE M == Without(L, i)
<1>1. /\ Len(M) = Len(L) - 1 /\ Len(L) \in Nat
      /\ \A j \in 1 .. Len(L) - 1 : M[j] = IF j < i THEN L[j] ELSE L[j + 1]
  BY WithoutFacts
<1> HIDE DEF M
<1>2. Distinct(M)
  <2> SUFFICES ASSUME NEW j \in 1 .. Len(L) - 1, NEW k \in 1 .. Len(L) - 1, M[j] = M[k]
               PROVE  j = k
    BY <1>1 DEF Distinct
  <2>1. \A a, b \in 1 .. Len(L) : L[a] = L[b] => a = b
    BY DEF Distinct
  <2>2. j \in 1 .. Len(L) /\ j + 1 \in 1 .. Len(L) /\ k \in 1 .. Len(L) /\ k + 1 \in 1 .. Len(L)
    BY <1>1
  <2>3. PICK a \in {j, j + 1} : M[j] = L[a] /\ (a = IF j < i THEN j ELSE j + 1)
    BY <1>1
  <2>4. PICK b \in {k, k + 1} : M[k] = L[b] /\ (b = IF k < i THEN k ELSE k + 1)
    BY <1>1
  <2>5. a = b
    BY <2>1, <2>2, <2>3, <2>4
  <2> QED BY <2>3, <2>4, <2>5
<1>3. \A j \in Int : NodeAt(M, j) = IF j < i THEN NodeAt(L, j) ELSE NodeAt(L, j + 1)
  <2> TAKE j \in Int
  <2>1. CASE j \in 1 .. Len(L) - 1
    <3>1. j \in 1 .. Len(L) /\ j + 1 \in 1 .. Len(L)
      BY <1>1, <2>1
    <3>2. NodeAt(M, j) = M[j] /\ NodeAt(L, j) = L[j] /\ NodeAt(L, j + 1) = L[j + 1]
      BY <1>1, <2>1, <3>1 DEF NodeAt
    <3> QED BY <1>1, <2>1, <3>2
  <2>2. CASE j \notin 1 .. Len(L) - 1
    <3>1. NodeAt(M, j) = Nil
      BY <1>1, <2>2 DEF NodeAt
    <3>2. j < i => j \notin 1 .. Len(L)
      BY <1>1, <2>2
    <3>3. ~(j < i) => j + 1 \notin 1 .. Len(L)
      BY <1>1, <2>2
    <3> QED BY <3>1, <3>2, <3>3 DEF NodeAt
  <2> QED BY <2>1, <2>2
<1> QED BY <1>2, <1>3 DEF M

LEMMA NodeAtFronted ==
  ASSUME NEW L \in Seq(Nodes), Distinct(L), NEW n \in Nodes, \A i \in 1 .. Len(L) : L[i] # n
  PROVE  /\ Distinct(Fronted(n, L))
         /\ \A j \in Int : NodeAt(Fronted(n, L), j) = IF j = 1 THEN n ELSE NodeAt(L, j - 1)
<1> DEFINE M == Fronted(n, L)
<1>1. /\ Len(M) = Len(L) + 1 /\ Len(L) \in Nat
      /\ \A j \in 1 .. Len(L) + 1 : M[j] = IF j = 1 THEN n ELSE L[j - 1]
  BY FrontedFacts
<1> HIDE DEF M
<1>2. Distinct(M)
  <2> SUFFICES ASSUME NEW j \in 1 .. Len(L) + 1, NEW k \in 1 .. Len(L) + 1, M[j] = M[k]
               PROVE  j = k
    BY <1>1 DEF Distinct
  <2>1. \A a, b \in 1 .. Len(L) : L[a] = L[b] => a = b
    BY DEF Distinct
  <2>2. (j # 1 => j - 1 \in 1 .. Len(L)) /\ (k # 1 => k - 1 \in 1 .. Len(L))
    BY <1>1
  <2>3. CASE j = 1 \/ k = 1
    BY <1>1, <2>2, <2>3
  <2>4. CASE j # 1 /\ k # 1
    <3>1. L[j - 1] = L[k - 1]
      BY <1>1, <2>4
    <3>2. j - 1 = k - 1
      BY <2>1, <2>2, <2>4, <3>1
    <3> QED BY <3>2
  <2> QED BY <2>3, <2>4
<1>3. \A j \in Int : NodeAt(M, j) = IF j = 1 THEN n ELSE NodeAt(L, j - 1)
  <2> TAKE j \in Int
  <2>1. CASE j \in 1 .. Len(L) + 1
    <3>1. j # 1 => j - 1 \in 1 .. Len(L)
      BY <1>1, <2>1
    <3>2. NodeAt(M, j) = M[j] /\ (j # 1 => NodeAt(L, j - 1) = L[j - 1])
      BY <1>1, <2>1, <3>1 DEF NodeAt
    <3> QED BY <1>1, <2>1, <3>2
  <2>2. CASE j \notin 1 .. Len(L) + 1
    <3>1. NodeAt(M, j) = Nil
      BY <1>1, <2>2 DEF NodeAt
    <3>2. j # 1 /\ j - 1 \notin 1 .. Len(L)
      BY <1>1, <2>2
    <3> QED BY <3>1, <3>2 DEF NodeAt
  <2> QED BY <2>1, <2>2
<1> QED BY <1>2, <1>3 DEF M

(* Only the ends and the pointers of the listed nodes matter.              *)
LEMMA SameLinks ==
  ASSUME NEW c, NEW d, NEW L, Linked(c, L), d.head = c.head, d.tail = c.tail,
         \A i \in 1 .. Len(L) : /\ d.node[L[i]].prev = c.node[L[i]].prev
                                /\ d.node[L[i]].next = c.node[L[i]].next
  PROVE  Linked(d, L)
BY DEF Linked

(***************************************************************************)
(* The pointer surgery on a properly linked list.                          *)
(***************************************************************************)
LEMMA RemoveLinked ==
  ASSUME NEW c \in CacheType, NEW L, Linked(c, L), NEW i \in 1 .. Len(L)
  PROVE  Linked(RemoveNode(c, L[i]), Without(L, i))
<1> DEFINE n == L[i]
           M == Without(L, i)
           r == RemoveNode(c, n)
           p == NodeAt(L, i - 1)
           s == NodeAt(L, i + 1)
<1>1. /\ L \in Seq(Nodes) /\ Distinct(L) /\ c.head = NodeAt(L, 1) /\ c.tail = NodeAt(L, Len(L))
      /\ \A k \in 1 .. Len(L) : /\ c.node[L[k]].prev = NodeAt(L, k - 1)
                                /\ c.node[L[k]].next = NodeAt(L, k + 1)
  BY DEF Linked
<1>2. /\ Len(L) \in Nat /\ i \in Nat /\ i >= 1 /\ i <= Len(L)
      /\ \A k \in 1 .. Len(L) : L[k] \in Nodes /\ NodeAt(L, k) = L[k]
      /\ \A j \in Int : NodeAt(L, j) \in Ends /\ (NodeAt(L, j) = Nil <=> j \notin 1 .. Len(L))
      /\ \A k \in 1 .. Len(L), j \in Int : L[k] = NodeAt(L, j) <=> j = k
  <2>1. /\ Len(L) \in Nat
        /\ \A k \in 1 .. Len(L) : L[k] \in Nodes /\ NodeAt(L, k) = L[k]
        /\ \A j \in Int : NodeAt(L, j) \in Ends /\ (NodeAt(L, j) = Nil <=> j \notin 1 .. Len(L))
        /\ \A k \in 1 .. Len(L), j \in Int : L[k] = NodeAt(L, j) <=> j = k
    BY <1>1, NodeAtFacts
  <2>2. i \in Nat /\ i >= 1 /\ i <= Len(L)
    BY <2>1
  <2> QED BY <2>1, <2>2
<1>3. /\ M \in Seq(Nodes) /\ Len(M) = Len(L) - 1
      /\ \A j \in 1 .. Len(L) - 1 : M[j] = IF j < i THEN L[j] ELSE L[j + 1]
  BY <1>1, WithoutFacts
<1>4. /\ Distinct(M)
      /\ \A j \in Int : NodeAt(M, j) = IF j < i THEN NodeAt(L, j) ELSE NodeAt(L, j + 1)
  BY <1>1, NodeAtWithout
<1>5. n \in Nodes /\ c.node[n].prev = p /\ c.node[n].next = s
  BY <1>1, <1>2
<1>6. /\ r.head = (IF p = Nil THEN s ELSE c.head)
      /\ r.tail = (IF s = Nil THEN p ELSE c.tail)
      /\ \A m \in Nodes : /\ r.node[m].next = IF m = p THEN s ELSE c.node[m].next
                          /\ r.node[m].prev = IF m = s THEN p ELSE c.node[m].prev
  BY <1>5, RemoveFields
<1> HIDE DEF n, M, r
<1>7. r.head = NodeAt(M, 1)
  <2>1. p = Nil <=> i = 1
    BY <1>2
  <2>2. i = 1 => s = NodeAt(L, 1 + 1)
    OBVIOUS
  <2>3. NodeAt(M, 1) = IF 1 < i THEN NodeAt(L, 1) ELSE NodeAt(L, 1 + 1)
    BY <1>4
  <2> HIDE DEF p, s
  <2> QED BY <1>1, <1>2, <1>6, <2>1, <2>2, <2>3
<1>8. r.tail = NodeAt(M, Len(M))
  <2>1. s = Nil <=> i = Len(L)
    BY <1>2
  <2>2. i = Len(L) => p = NodeAt(L, Len(L) - 1)
    OBVIOUS
  <2>3. NodeAt(M, Len(M)) = IF Len(L) - 1 < i THEN NodeAt(L, Len(L) - 1)
                            ELSE NodeAt(L, (Len(L) - 1) + 1)
    <3>1. Len(L) - 1 \in Int
      BY <1>2
    <3> QED BY <1>3, <1>4, <3>1
  <2>4. (Len(L) - 1) + 1 = Len(L) /\ (Len(L) - 1 < i <=> i = Len(L))
    BY <1>2
  <2> HIDE DEF p, s
  <2> QED BY <1>1, <1>6, <2>1, <2>2, <2>3, <2>4
<1>9. \A j \in 1 .. Len(M) : /\ r.node[M[j]].prev = NodeAt(M, j - 1)
                             /\ r.node[M[j]].next = NodeAt(M, j + 1)
  <2> TAKE j \in 1 .. Len(M)
  <2>1. PICK k \in 1 .. Len(L) : k = IF j < i THEN j ELSE j + 1
    BY <1>2, <1>3
  <2>2. j \in Int /\ k \in Int /\ k - 1 \in Int /\ k + 1 \in Int /\ j - 1 \in Int /\ j + 1 \in Int
        /\ i - 1 \in Int /\ i + 1 \in Int
    BY <1>2, <1>3
  <2>3. M[j] = L[k] /\ L[k] \in Nodes
    BY <1>2, <1>3, <2>1
  <2>4. (L[k] = p <=> i - 1 = k) /\ (L[k] = s <=> i + 1 = k)
    BY <1>2, <2>2
  <2>5. c.node[L[k]].prev = NodeAt(L, k - 1) /\ c.node[L[k]].next = NodeAt(L, k + 1)
    BY <1>1
  <2>6. /\ r.node[M[j]].next = IF i - 1 = k THEN s ELSE NodeAt(L, k + 1)
        /\ r.node[M[j]].prev = IF i + 1 = k THEN p ELSE NodeAt(L, k - 1)
    <3> HIDE DEF p, s
    <3> QED BY <1>6, <2>3, <2>4, <2>5
  <2>7. /\ NodeAt(M, j - 1) = IF j - 1 < i THEN NodeAt(L, j - 1) ELSE NodeAt(L, (j - 1) + 1)
        /\ NodeAt(M, j + 1) = IF j + 1 < i THEN NodeAt(L, j + 1) ELSE NodeAt(L, (j + 1) + 1)
    BY <1>4, <2>2
  <2> DEFINE N(x) == NodeAt(L, x)
  <2>8. /\ r.node[M[j]].next = IF i - 1 = k THEN N(i + 1) ELSE N(k + 1)
        /\ r.node[M[j]].prev = IF i + 1 = k THEN N(i - 1) ELSE N(k - 1)
        /\ NodeAt(M, j - 1) = IF j - 1 < i THEN N(j - 1) ELSE N((j - 1) + 1)
        /\ NodeAt(M, j + 1) = IF j + 1 < i THEN N(j + 1) ELSE N((j + 1) + 1)
    BY <2>6, <2>7
  <2> HIDE DEF N
  <2>9. CASE j < i
    <3>1. k = j /\ i + 1 # k /\ j - 1 < i /\ (i - 1 = k <=> ~(j + 1 < i))
          /\ (i - 1 = k => i + 1 = (j + 1) + 1)
      BY <1>2, <2>1, <2>2, <2>9
    <3> QED BY <2>8, <3>1
  <2>10. CASE ~(j < i)
    <3>1. k = j + 1 /\ i - 1 # k /\ ~(j + 1 < i) /\ (i + 1 = k <=> j - 1 < i)
          /\ (i + 1 = k => i - 1 = j - 1) /\ (j - 1) + 1 = k - 1
      BY <1>2, <2>1, <2>2, <2>10
    <3> QED BY <2>8, <3>1
  <2> QED BY <2>9, <2>10
<1> QED BY <1>3, <1>4, <1>7, <1>8, <1>9 DEF Linked, M, n, r

LEMMA AddLinked ==
  ASSUME NEW c \in CacheType, NEW L, Linked(c, L), NEW n \in Nodes,
         \A i \in 1 .. Len(L) : L[i] # n
  PROVE  n # c.head /\ Linked(AddToHead(c, n), Fronted(n, L))
<1> DEFINE M == Fronted(n, L)
           r == AddToHead(c, n)
<1>1. /\ L \in Seq(Nodes) /\ Distinct(L) /\ c.head = NodeAt(L, 1) /\ c.tail = NodeAt(L, Len(L))
      /\ \A k \in 1 .. Len(L) : /\ c.node[L[k]].prev = NodeAt(L, k - 1)
                                /\ c.node[L[k]].next = NodeAt(L, k + 1)
  BY DEF Linked
<1>2. /\ Len(L) \in Nat
      /\ \A k \in 1 .. Len(L) : L[k] \in Nodes /\ NodeAt(L, k) = L[k]
      /\ \A j \in Int : NodeAt(L, j) \in Ends /\ (NodeAt(L, j) = Nil <=> j \notin 1 .. Len(L))
      /\ \A k \in 1 .. Len(L), j \in Int : L[k] = NodeAt(L, j) <=> j = k
  BY <1>1, NodeAtFacts
<1>3. /\ M \in Seq(Nodes) /\ Len(M) = Len(L) + 1
      /\ \A j \in 1 .. Len(L) + 1 : M[j] = IF j = 1 THEN n ELSE L[j - 1]
  BY <1>1, FrontedFacts
<1>4. Distinct(M) /\ \A j \in Int : NodeAt(M, j) = IF j = 1 THEN n ELSE NodeAt(L, j - 1)
  BY <1>1, NodeAtFronted
<1>5. n # c.head
  <2>1. NodeAt(L, 1) = Nil \/ 1 \in 1 .. Len(L)
    BY <1>2
  <2> QED BY <1>1, <1>2, <2>1, NodesAndNil
<1>6. /\ r.head = n
      /\ r.tail = (IF c.tail = Nil THEN n ELSE c.tail)
      /\ \A m \in Nodes : /\ r.node[m].next = IF m = n THEN c.head ELSE c.node[m].next
                          /\ r.node[m].prev = IF m = n THEN Nil
                                              ELSE IF m = c.head THEN n ELSE c.node[m].prev
  BY <1>5, AddFields
<1> HIDE DEF M, r
<1>7. r.head = NodeAt(M, 1)
  BY <1>4, <1>6
<1>8. r.tail = NodeAt(M, Len(M))
  <2>1. NodeAt(M, Len(M)) = IF Len(L) + 1 = 1 THEN n ELSE NodeAt(L, Len(L))
    <3>1. Len(L) + 1 \in Int /\ (Len(L) + 1) - 1 = Len(L)
      BY <1>2
    <3> QED BY <1>3, <1>4, <3>1
  <2>2. c.tail = Nil <=> Len(L) + 1 = 1
    BY <1>1, <1>2
  <2> QED BY <1>1, <1>6, <2>1, <2>2
<1>9. \A j \in 1 .. Len(M) : /\ r.node[M[j]].prev = NodeAt(M, j - 1)
                             /\ r.node[M[j]].next = NodeAt(M, j + 1)
  <2> TAKE j \in 1 .. Len(M)
  <2>1. j \in Nat /\ j >= 1 /\ j <= Len(L) + 1 /\ j - 1 \in Int /\ j + 1 \in Int
        /\ (j + 1) - 1 = j /\ (j - 1) + 1 = j /\ j + 1 # 1
    BY <1>2, <1>3
  <2>2. /\ NodeAt(M, j - 1) = IF j - 1 = 1 THEN n ELSE NodeAt(L, (j - 1) - 1)
        /\ NodeAt(M, j + 1) = NodeAt(L, j)
    BY <1>4, <2>1
  <2>3. CASE j = 1
    <3>1. M[j] = n /\ (j - 1) - 1 \notin 1 .. Len(L) /\ j - 1 # 1 /\ (j - 1) - 1 \in Int
      BY <1>2, <1>3, <2>1, <2>3
    <3>2. NodeAt(L, (j - 1) - 1) = Nil
      BY <1>2, <3>1
    <3> QED BY <1>1, <1>6, <2>2, <2>3, <3>1, <3>2
  <2>4. CASE j # 1
    <3>1. PICK k \in 1 .. Len(L) : k = j - 1
      BY <1>2, <2>1, <2>4
    <3>2. M[j] = L[k] /\ L[k] \in Nodes /\ L[k] # n
      BY <1>2, <1>3, <2>4, <3>1
    <3>3. L[k] = c.head <=> k = 1
      BY <1>1, <1>2
    <3>4. c.node[L[k]].prev = NodeAt(L, (j - 1) - 1) /\ c.node[L[k]].next = NodeAt(L, j)
      BY <1>1, <2>1, <3>1
    <3> QED BY <1>6, <2>2, <3>1, <3>2, <3>3, <3>4
  <2> QED BY <2>3, <2>4
<1> QED BY <1>3, <1>4, <1>5, <1>7, <1>8, <1>9 DEF Linked, M, r

(***************************************************************************)
(* The cache c holds the nodes of the list L: the list is properly linked, *)
(* and its nodes are those of the map, each under its own key.             *)
(***************************************************************************)
Stored == [key : Keys, val : Values, expiresAt : 0 .. MaxTime + TTL]

Listed(L) == {L[i] : i \in 1 .. Len(L)}

Filed(c) == \A k \in Cached(c) : /\ Load(c.node[c.items[k]]) \in Stored
                                 /\ c.node[c.items[k]].key = k

Rep(c, L) == /\ c \in CacheType /\ Linked(c, L)
             /\ Filed(c) /\ Listed(L) = Mapped(c)

(* What the list holds, most recently used first.                          *)
Loads(c, L) == [i \in 1 .. Len(L) |-> Load(c.node[L[i]])]

LEMMA ListedWithout ==
  ASSUME NEW L \in Seq(Nodes), Distinct(L), NEW i \in 1 .. Len(L)
  PROVE  Listed(Without(L, i)) = Listed(L) \ {L[i]}
<1>1. /\ Len(Without(L, i)) = Len(L) - 1 /\ Len(L) \in Nat
      /\ \A j \in 1 .. Len(L) - 1 : Without(L, i)[j] = IF j < i THEN L[j] ELSE L[j + 1]
  BY WithoutFacts
<1>2. \A j \in 1 .. Len(L) - 1 : Without(L, i)[j] \in Listed(L) \ {L[i]}
  <2> TAKE j \in 1 .. Len(L) - 1
  <2>1. PICK k \in 1 .. Len(L) : k = IF j < i THEN j ELSE j + 1
    BY <1>1
  <2>2. k # i /\ Without(L, i)[j] = L[k]
    BY <1>1, <2>1
  <2> QED BY <2>2 DEF Distinct, Listed
<1>3. ASSUME NEW k \in 1 .. Len(L), k # i
      PROVE  L[k] \in Listed(Without(L, i))
  <2>1. PICK j \in 1 .. Len(L) - 1 : j = IF k < i THEN k ELSE k - 1
    BY <1>1, <1>3
  <2>2. L[k] = Without(L, i)[j]
    BY <1>1, <1>3, <2>1
  <2> QED BY <1>1, <2>2 DEF Listed
<1>4. Listed(Without(L, i)) \subseteq Listed(L) \ {L[i]}
  BY <1>1, <1>2 DEF Listed
<1>5. Listed(L) \ {L[i]} \subseteq Listed(Without(L, i))
  BY <1>3 DEF Listed
<1> QED BY <1>4, <1>5

LEMMA ListedFronted ==
  ASSUME NEW L \in Seq(Nodes), NEW n \in Nodes
  PROVE  Listed(Fronted(n, L)) = Listed(L) \cup {n}
<1>1. /\ Len(Fronted(n, L)) = Len(L) + 1 /\ Len(L) \in Nat
      /\ \A j \in 1 .. Len(L) + 1 : Fronted(n, L)[j] = IF j = 1 THEN n ELSE L[j - 1]
  BY FrontedFacts
<1>2. \A j \in 1 .. Len(L) + 1 : Fronted(n, L)[j] \in Listed(L) \cup {n}
  <2> TAKE j \in 1 .. Len(L) + 1
  <2>1. j # 1 => j - 1 \in 1 .. Len(L)
    BY <1>1
  <2> QED BY <1>1, <2>1 DEF Listed
<1>3. \A k \in 1 .. Len(L) : L[k] \in Listed(Fronted(n, L))
  <2> TAKE k \in 1 .. Len(L)
  <2>1. k + 1 \in 1 .. Len(L) + 1 /\ k + 1 # 1 /\ (k + 1) - 1 = k
    BY <1>1
  <2>2. Fronted(n, L)[k + 1] = L[k]
    BY <1>1, <2>1
  <2> QED BY <1>1, <2>1, <2>2 DEF Listed
<1>4. n \in Listed(Fronted(n, L))
  <2>1. 1 \in 1 .. Len(L) + 1
    BY <1>1
  <2> QED BY <1>1, <2>1 DEF Listed
<1>5. Listed(Fronted(n, L)) \subseteq Listed(L) \cup {n}
  BY <1>1, <1>2 DEF Listed
<1>6. Listed(L) \cup {n} \subseteq Listed(Fronted(n, L))
  BY <1>3, <1>4 DEF Listed
<1> QED BY <1>5, <1>6

LEMMA MappedFacts ==
  ASSUME NEW c \in CacheType
  PROVE  /\ \A k \in Cached(c) : k \in Keys /\ c.items[k] \in Nodes /\ c.items[k] \in Mapped(c)
         /\ \A n \in Mapped(c) : n \in Nodes /\ \E k \in Cached(c) : c.items[k] = n
BY CacheFields DEF Cached, Mapped, Ends

(* The key of a listed node is its own.                                    *)
LEMMA RepFacts ==
  ASSUME NEW c, NEW L, Rep(c, L)
  PROVE  /\ L \in Seq(Nodes) /\ Distinct(L) /\ Len(L) \in Nat /\ c \in CacheType
         /\ \A i \in 1 .. Len(L) : /\ L[i] \in Nodes
                                   /\ Load(c.node[L[i]]) \in Stored
                                   /\ c.node[L[i]].key \in Cached(c)
                                   /\ c.items[c.node[L[i]].key] = L[i]
         /\ \A k \in Cached(c) : \E i \in 1 .. Len(L) : /\ L[i] = c.items[k]
                                                        /\ c.node[L[i]].key = k
<1>1. /\ L \in Seq(Nodes) /\ Distinct(L) /\ c \in CacheType /\ Filed(c) /\ Listed(L) = Mapped(c)
  BY DEF Rep, Linked
<1>2. Len(L) \in Nat
  BY <1>1, LenProperties
<1>3. ASSUME NEW i \in 1 .. Len(L)
      PROVE  /\ L[i] \in Nodes /\ Load(c.node[L[i]]) \in Stored
             /\ c.node[L[i]].key \in Cached(c) /\ c.items[c.node[L[i]].key] = L[i]
  <2>1. L[i] \in Mapped(c)
    BY <1>1 DEF Listed
  <2>2. PICK k \in Cached(c) : c.items[k] = L[i]
    BY <1>1, <2>1, MappedFacts
  <2> QED BY <1>1, <2>1, <2>2, MappedFacts DEF Filed
<1>4. ASSUME NEW k \in Cached(c)
      PROVE  \E i \in 1 .. Len(L) : L[i] = c.items[k] /\ c.node[L[i]].key = k
  <2>1. c.items[k] \in Listed(L)
    BY <1>1, MappedFacts
  <2>2. PICK i \in 1 .. Len(L) : L[i] = c.items[k]
    BY <2>1 DEF Listed
  <2> QED BY <1>1, <2>2 DEF Filed
<1> QED BY <1>1, <1>2, <1>3, <1>4

(***************************************************************************)
(* The operations on the map and the list together.                        *)
(***************************************************************************)
LEMMA DropRep ==
  ASSUME NEW c, NEW L, Rep(c, L), NEW i \in 1 .. Len(L)
  PROVE  LET d == Drop(c, L[i])
             M == Without(L, i)
         IN  /\ Rep(d, M) /\ Cached(d) = Cached(c) \ {c.node[L[i]].key}
             /\ \A j \in 1 .. Len(M) : Load(d.node[M[j]]) = Load(c.node[M[j]])
<1> DEFINE n == L[i]
           k0 == c.node[n].key
           M == Without(L, i)
           r == RemoveNode(c, n)
           s == [r EXCEPT !.items[k0] = Nil]
           d == Collect(s)
<1>1. /\ L \in Seq(Nodes) /\ Distinct(L) /\ Len(L) \in Nat /\ c \in CacheType
      /\ n \in Nodes /\ k0 \in Cached(c) /\ c.items[k0] = n
      /\ Filed(c) /\ Listed(L) = Mapped(c) /\ Linked(c, L)
  BY RepFacts DEF Rep
<1>2. d = Drop(c, L[i])
  BY DEF Drop
<1>3. /\ r \in CacheType /\ r.items = c.items
      /\ \A m \in Nodes : Load(r.node[m]) = Load(c.node[m])
  BY <1>1, RemoveFields
<1>4. Linked(r, M)
  BY <1>1, RemoveLinked
<1>5. Listed(M) = Mapped(c) \ {n}
  BY <1>1, ListedWithout
<1> HIDE DEF r, M, n
<1>6. k0 \in Keys /\ \A k \in Cached(c) : c.items[k] = n <=> k = k0
  <2>1. k0 \in Keys
    BY <1>1 DEF Cached
  <2>2. \A k \in Cached(c) : c.node[c.items[k]].key = k
    BY <1>1 DEF Filed
  <2> QED BY <1>1, <2>1, <2>2
<1>7. /\ s \in CacheType /\ s.items = [c.items EXCEPT ![k0] = Nil]
      /\ s.node = r.node /\ s.head = r.head /\ s.tail = r.tail
  <2> HIDE DEF k0
  <2>1. [r.items EXCEPT ![k0] = Nil] \in [Keys -> Ends]
    BY <1>3, <1>6, CacheFields DEF Ends
  <2>2. s = [r EXCEPT !.items = [r.items EXCEPT ![k0] = Nil]]
    BY <1>3 DEF CacheType
  <2> DEFINE it == [r.items EXCEPT ![k0] = Nil]
  <2>3. it \in [Keys -> Ends] /\ it = [c.items EXCEPT ![k0] = Nil]
    BY <1>3, <2>1
  <2> HIDE DEF s, it
  <2>4. s = [r EXCEPT !.items = it]
    BY <2>2 DEF it
  <2>5. s \in CacheType /\ s.items = it /\ s.node = r.node /\ s.head = r.head /\ s.tail = r.tail
    BY <1>3, <2>3, <2>4 DEF CacheType
  <2> QED BY <2>3, <2>5
<1>8. \A k \in Keys : s.items[k] = IF k = k0 THEN Nil ELSE c.items[k]
  <2> HIDE DEF s, k0
  <2> QED BY <1>1, <1>7, CacheFields
<1> HIDE DEF s, k0
<1>9. Cached(s) = Cached(c) \ {k0}
  BY <1>6, <1>8 DEF Cached
<1>10. \A k \in Cached(s) : s.items[k] = c.items[k]
  BY <1>6, <1>8, <1>9 DEF Cached
<1>11. Mapped(s) = Mapped(c) \ {n}
  <2>1. Mapped(s) \subseteq Mapped(c) \ {n}
    BY <1>6, <1>9, <1>10 DEF Mapped
  <2>2. ASSUME NEW m \in Mapped(c) \ {n}
        PROVE  m \in Mapped(s)
    <3>1. PICK k \in Cached(c) : c.items[k] = m
      BY DEF Mapped
    <3>2. k \in Cached(s) /\ s.items[k] = m
      BY <1>1, <1>9, <1>10, <3>1
    <3> QED BY <3>2 DEF Mapped
  <2> QED BY <2>1, <2>2
<1>12. /\ d \in CacheType /\ d.items = s.items /\ d.head = s.head /\ d.tail = s.tail
       /\ \A m \in Mapped(s) \cap Nodes : d.node[m] = s.node[m]
  BY <1>7, CollectFields
<1>13. \A j \in 1 .. Len(M) : M[j] \in Mapped(s) \cap Nodes
  <2>1. M \in Seq(Nodes)
    BY <1>4 DEF Linked
  <2>2. \A j \in 1 .. Len(M) : M[j] \in Nodes
    BY <2>1, ElementOfSeq
  <2> QED BY <1>5, <1>11, <2>2 DEF Listed
<1> HIDE DEF d
<1>14. \A j \in 1 .. Len(M) : d.node[M[j]] = r.node[M[j]]
  BY <1>7, <1>12, <1>13
<1>15. Linked(d, M)
  BY <1>4, <1>7, <1>12, <1>14, SameLinks
<1>16. Cached(d) = Cached(s) /\ Mapped(d) = Mapped(s)
  BY <1>12 DEF Cached, Mapped
<1>17. \A j \in 1 .. Len(M) : Load(d.node[M[j]]) = Load(c.node[M[j]])
  BY <1>3, <1>13, <1>14
<1>18. Filed(d)
  <2> SUFFICES ASSUME NEW k \in Cached(d)
               PROVE  Load(d.node[d.items[k]]) \in Stored /\ d.node[d.items[k]].key = k
    BY DEF Filed
  <2>1. k \in Cached(c) /\ d.items[k] = c.items[k] /\ d.items[k] \in Mapped(s)
    BY <1>9, <1>10, <1>12, <1>16 DEF Mapped
  <2>2. PICK m \in Mapped(s) \cap Nodes : m = c.items[k]
    BY <1>1, <2>1, MappedFacts
  <2>3. Load(d.node[m]) = Load(c.node[m])
    BY <1>3, <1>7, <1>12, <2>2
  <2>4. Load(c.node[m]) \in Stored /\ c.node[m].key = k
    BY <1>1, <2>1, <2>2 DEF Filed
  <2> QED BY <2>1, <2>2, <2>3, <2>4 DEF Load
<1>19. Rep(d, M)
  BY <1>5, <1>11, <1>12, <1>15, <1>16, <1>18 DEF Rep
<1> QED BY <1>2, <1>9, <1>16, <1>17, <1>19 DEF M, n, k0

LEMMA MoveRep ==
  ASSUME NEW c, NEW L, Rep(c, L), NEW i \in 1 .. Len(L)
  PROVE  LET d == MoveToHead(c, L[i])
             M == Fronted(L[i], Without(L, i))
         IN  /\ Rep(d, M) /\ Cached(d) = Cached(c)
             /\ \A m \in Nodes : Load(d.node[m]) = Load(c.node[m])
<1> DEFINE n == L[i]
           W == Without(L, i)
           M == Fronted(n, W)
           r == RemoveNode(c, n)
           a == AddToHead(r, n)
<1>1. /\ L \in Seq(Nodes) /\ Distinct(L) /\ Len(L) \in Nat /\ c \in CacheType
      /\ n \in Nodes /\ Filed(c) /\ Listed(L) = Mapped(c) /\ Linked(c, L)
  BY RepFacts DEF Rep
<1>2. /\ W \in Seq(Nodes) /\ Len(W) = Len(L) - 1
      /\ \A j \in 1 .. Len(L) - 1 : W[j] = IF j < i THEN L[j] ELSE L[j + 1]
  BY <1>1, WithoutFacts
<1>3. Listed(W) = Mapped(c) \ {n}
  BY <1>1, ListedWithout
<1>4. M \in Seq(Nodes) /\ Len(M) = Len(W) + 1
      /\ \A j \in 1 .. Len(W) + 1 : M[j] = IF j = 1 THEN n ELSE W[j - 1]
  <2> HIDE DEF W, n
  <2>1. n \in Nodes /\ W \in Seq(Nodes)
    BY <1>1, <1>2
  <2> QED BY <2>1, FrontedFacts
<1>5. Listed(M) = Mapped(c)
  <2>1. n \in Listed(L)
    BY DEF Listed
  <2>2. Listed(M) = Listed(W) \cup {n}
    BY <1>1, <1>2, ListedFronted
  <2> QED BY <1>1, <1>3, <2>1, <2>2
<1>6. /\ r \in CacheType /\ r.items = c.items
      /\ \A m \in Nodes : Load(r.node[m]) = Load(c.node[m])
  BY <1>1, RemoveFields
<1>7. Linked(r, W)
  BY <1>1, RemoveLinked
<1>8. \A j \in 1 .. Len(W) : W[j] # n
  BY <1>3 DEF Listed
<1>9. CASE c.head = n
  <2>1. i = 1
    <3>1. c.head = NodeAt(L, 1)
      BY <1>1 DEF Linked
    <3>2. \A k \in 1 .. Len(L), j \in Int : L[k] = NodeAt(L, j) <=> j = k
      BY <1>1, NodeAtFacts
    <3>3. L[i] = NodeAt(L, 1)
      BY <1>9, <3>1
    <3> QED BY <3>2, <3>3
  <2>2. M = L
    <3> HIDE DEF M, W
    <3>1. Len(M) = Len(L)
      BY <1>1, <1>2, <1>4
    <3>2. \A j \in 1 .. Len(M) : M[j] = L[j]
      <4> TAKE j \in 1 .. Len(M)
      <4>1. j # 1 => j - 1 \in 1 .. Len(L) - 1 /\ (j - 1) + 1 = j /\ ~(j - 1 < 1)
        BY <1>1, <3>1
      <4>2. j \in 1 .. Len(W) + 1
        BY <1>4
      <4> QED BY <1>2, <1>4, <2>1, <4>1, <4>2
    <3> QED BY <1>1, <1>4, <3>1, <3>2, SeqEqual
  <2>3. MoveToHead(c, n) = c
    BY <1>9 DEF MoveToHead
  <2> HIDE DEF M, n
  <2>4. /\ Rep(MoveToHead(c, n), M) /\ Cached(MoveToHead(c, n)) = Cached(c)
        /\ \A m \in Nodes : Load(MoveToHead(c, n).node[m]) = Load(c.node[m])
    BY <2>2, <2>3
  <2> QED BY <2>4 DEF M, n
<1>10. CASE c.head # n
  <2> HIDE DEF r, W
  <2>1. n # r.head /\ Linked(a, M)
    BY <1>1, <1>6, <1>7, <1>8, AddLinked
  <2>2. /\ a \in CacheType /\ a.items = r.items
        /\ \A m \in Nodes : Load(a.node[m]) = Load(r.node[m])
    BY <1>1, <1>6, <2>1, AddFields
  <2>3. a = MoveToHead(c, n)
    BY <1>10 DEF MoveToHead, r
  <2> HIDE DEF a, M, n
  <2>4. Cached(a) = Cached(c) /\ Mapped(a) = Mapped(c) /\ a.items = c.items
    BY <1>6, <2>2 DEF Cached, Mapped
  <2>5. \A m \in Nodes : Load(a.node[m]) = Load(c.node[m])
    BY <1>6, <2>2
  <2>6. Filed(a)
    <3> SUFFICES ASSUME NEW k \in Cached(c)
                 PROVE  Load(a.node[c.items[k]]) \in Stored /\ a.node[c.items[k]].key = k
      BY <2>4 DEF Filed
    <3>1. PICK m \in Nodes : m = c.items[k]
      BY <1>1, MappedFacts
    <3>2. Load(a.node[m]) = Load(c.node[m])
      BY <2>5
    <3>3. Load(c.node[m]) \in Stored /\ c.node[m].key = k
      BY <1>1, <3>1 DEF Filed
    <3> QED BY <3>1, <3>2, <3>3 DEF Load
  <2>7. Rep(a, M)
    BY <1>5, <2>1, <2>2, <2>4, <2>6 DEF Rep
  <2> QED BY <2>3, <2>4, <2>5, <2>7 DEF M, W, n
<1> QED BY <1>9, <1>10

(* There are as many entries as there are positions.                       *)
LEMMA CachedCard ==
  ASSUME NEW c, NEW L, Rep(c, L)
  PROVE  Cardinality(Cached(c)) = Len(L) /\ Len(L) <= Cardinality(Keys)
<1> DEFINE f == [i \in 1 .. Len(L) |-> c.node[L[i]].key]
<1>1. Len(L) \in Nat /\ Cached(c) \subseteq Keys
  BY RepFacts DEF Cached
<1>2. \A i \in 1 .. Len(L) : /\ L[i] \in Nodes /\ c.node[L[i]].key \in Cached(c)
                             /\ c.items[c.node[L[i]].key] = L[i]
  BY RepFacts
<1>3. f \in [1 .. Len(L) -> Cached(c)] /\ \A i \in 1 .. Len(L) : f[i] = c.node[L[i]].key
  BY <1>2
<1> HIDE DEF f
<1>4. \A i, j \in 1 .. Len(L) : f[i] = f[j] => i = j
  <2>1. Distinct(L)
    BY RepFacts
  <2> QED BY <1>2, <1>3, <2>1 DEF Distinct
<1>5. \A k \in Cached(c) : \E i \in 1 .. Len(L) : f[i] = k
  <2> TAKE k \in Cached(c)
  <2>1. PICK i \in 1 .. Len(L) : L[i] = c.items[k] /\ c.node[L[i]].key = k
    BY RepFacts
  <2> QED BY <1>3, <2>1
<1>6. f \in Bijection(1 .. Len(L), Cached(c))
  BY <1>3, <1>4, <1>5 DEF Bijection, Injection, Surjection, IsInjective
<1>7. Cardinality(Cached(c)) = Len(L)
  BY <1>1, <1>6, FS_CountingElements DEF ExistsBijection
<1>8. Cardinality(Cached(c)) <= Cardinality(Keys)
  <2>1. IsFiniteSet(Keys) /\ Cached(c) \in SUBSET Keys
    BY <1>1, KeysAssumption
  <2> QED BY <2>1, FS_Subset
<1> QED BY <1>7, <1>8

(* There is one node more than there are keys, and listed nodes have keys  *)
(* of their own: there is always a node that nothing refers to.            *)
LEMMA FreshNode ==
  ASSUME NEW c, NEW L, Rep(c, L)
  PROVE  Fresh(c) \in Nodes /\ Fresh(c) \notin Mapped(c)
<1>1. /\ L \in Seq(Nodes) /\ Distinct(L) /\ Len(L) \in Nat /\ c \in CacheType
      /\ Listed(L) = Mapped(c) /\ Linked(c, L)
  BY RepFacts DEF Rep
<1>2. \A j \in Int : NodeAt(L, j) \in Mapped(c) \cup {Nil}
  <2> TAKE j \in Int
  <2>1. CASE j \in 1 .. Len(L)
    BY <1>1, <2>1 DEF NodeAt, Listed
  <2>2. CASE j \notin 1 .. Len(L)
    BY <2>2 DEF NodeAt
  <2> QED BY <2>1, <2>2
<1>3. c.head \in Mapped(c) \cup {Nil} /\ c.tail \in Mapped(c) \cup {Nil}
  BY <1>1, <1>2 DEF Linked
<1>4. ASSUME NEW n \in Mapped(c)
      PROVE  c.node[n].prev \in Mapped(c) \cup {Nil} /\ c.node[n].next \in Mapped(c) \cup {Nil}
  <2>1. PICK i \in 1 .. Len(L) : L[i] = n
    BY <1>1 DEF Listed
  <2>2. i - 1 \in Int /\ i + 1 \in Int
    BY <1>1
  <2>3. c.node[n].prev = NodeAt(L, i - 1) /\ c.node[n].next = NodeAt(L, i + 1)
    BY <1>1, <2>1 DEF Linked
  <2> QED BY <1>2, <2>2, <2>3
<1>5. Referenced(c) \subseteq Mapped(c) \cup {Nil} /\ Mapped(c) \subseteq Referenced(c)
  BY <1>3, <1>4 DEF Referenced
<1>6. SUFFICES \E n \in Nodes : n \notin Mapped(c)
  BY <1>5, NodesAndNil DEF Fresh
<1>7. SUFFICES ASSUME Nodes \subseteq Mapped(c)
               PROVE  FALSE
  OBVIOUS
<1> DEFINE f == [n \in Nodes |-> c.node[n].key]
<1>8. \A n \in Nodes : c.node[n].key \in Keys /\ c.items[c.node[n].key] = n
  <2> TAKE n \in Nodes
  <2>1. PICK i \in 1 .. Len(L) : L[i] = n
    BY <1>1, <1>7 DEF Listed
  <2> QED BY <2>1, RepFacts DEF Cached
<1>9. f \in [Nodes -> Keys] /\ \A n \in Nodes : f[n] = c.node[n].key
  BY <1>8
<1> HIDE DEF f
<1>10. Cardinality(Keys) < Cardinality(Nodes)
  BY NodesAndNil
<1>11. \E x, y \in Nodes : x # y /\ f[x] = f[y]
  <2>1. IsFiniteSet(Nodes) /\ IsFiniteSet(Keys) /\ Cardinality(Keys) < Cardinality(Nodes)
        /\ f \in [Nodes -> Keys]
    BY <1>9, <1>10, NodesAndNil, KeysAssumption
  <2> QED BY <2>1, FS_PigeonHole
<1> QED BY <1>8, <1>9, <1>11

LEMMA InsertRep ==
  ASSUME NEW c, NEW L, Rep(c, L), NEW e \in Stored, e.key \notin Cached(c)
  PROVE  LET n == Fresh(c)
             d == Insert(c, e)
         IN  /\ n \in Nodes /\ \A i \in 1 .. Len(L) : L[i] # n
             /\ Rep(d, Fronted(n, L)) /\ Cached(d) = Cached(c) \cup {e.key}
             /\ Load(d.node[n]) = e
             /\ \A i \in 1 .. Len(L) : Load(d.node[L[i]]) = Load(c.node[L[i]])
<1> DEFINE n == Fresh(c)
           x == [key |-> e.key, val |-> e.val, expiresAt |-> e.expiresAt,
                 prev |-> Nil, next |-> Nil]
           it == [c.items EXCEPT ![e.key] = n]
           nodes == [c.node EXCEPT ![n] = x]
           b == [c EXCEPT !.items = it, !.node = nodes]
           d == AddToHead(b, n)
           M == Fronted(n, L)
<1>1. /\ L \in Seq(Nodes) /\ Distinct(L) /\ Len(L) \in Nat /\ c \in CacheType
      /\ Filed(c) /\ Listed(L) = Mapped(c) /\ Linked(c, L)
  BY RepFacts DEF Rep
<1>2. n \in Nodes /\ n \notin Mapped(c)
  BY FreshNode
<1>3. d = Insert(c, e)
  BY <1>1 DEF Insert, CacheType
<1> HIDE DEF n
<1>4. \A i \in 1 .. Len(L) : L[i] # n /\ L[i] \in Nodes
  BY <1>1, <1>2, RepFacts DEF Listed
<1>5. x \in AnyNode /\ Load(x) = e /\ e.key \in Keys
  BY DEF AnyNode, Load, Stored, Ends
<1> HIDE DEF x
<1>6. /\ it \in [Keys -> Ends] /\ nodes \in [Nodes -> AnyNode]
      /\ \A k \in Keys : it[k] = IF k = e.key THEN n ELSE c.items[k]
      /\ nodes[n] = x /\ \A m \in Nodes : m # n => nodes[m] = c.node[m]
  BY <1>1, <1>2, <1>5, CacheFields DEF Ends
<1> HIDE DEF it, nodes
<1>7. /\ b \in CacheType /\ b.items = it /\ b.node = nodes /\ b.head = c.head
      /\ b.tail = c.tail
  BY <1>1, <1>6 DEF CacheType
<1> HIDE DEF b
<1>8. Linked(b, L)
  <2>1. \A i \in 1 .. Len(L) : b.node[L[i]] = c.node[L[i]]
    BY <1>4, <1>6, <1>7
  <2> QED BY <1>1, <1>7, <2>1, SameLinks
<1>9. n # b.head /\ Linked(d, M)
  BY <1>2, <1>4, <1>7, <1>8, AddLinked
<1>10. /\ d \in CacheType /\ d.items = it
       /\ \A m \in Nodes : Load(d.node[m]) = Load(nodes[m])
  BY <1>2, <1>7, <1>9, AddFields
<1> HIDE DEF d
<1>11. Load(d.node[n]) = e
  BY <1>2, <1>5, <1>6, <1>10
<1>12. \A m \in Nodes : m # n => Load(d.node[m]) = Load(c.node[m])
  BY <1>6, <1>10
<1>13. Cached(d) = Cached(c) \cup {e.key}
  BY <1>2, <1>5, <1>6, <1>10, NodesAndNil DEF Cached
<1>14. d.items[e.key] = n /\ \A k \in Cached(c) : d.items[k] = c.items[k]
  BY <1>5, <1>6, <1>10 DEF Cached
<1>15. Mapped(d) = Mapped(c) \cup {n}
  <2>1. Mapped(d) = {d.items[k] : k \in Cached(c) \cup {e.key}}
    BY <1>13 DEF Mapped
  <2>2. Mapped(c) = {c.items[k] : k \in Cached(c)}
    BY DEF Mapped
  <2> QED BY <1>14, <2>1, <2>2
<1>16. Filed(d)
  <2> SUFFICES ASSUME NEW k \in Cached(d)
               PROVE  Load(d.node[d.items[k]]) \in Stored /\ d.node[d.items[k]].key = k
    BY DEF Filed
  <2>1. CASE k = e.key
    BY <1>11, <1>14, <2>1 DEF Load
  <2>2. CASE k # e.key
    <3>1. k \in Cached(c)
      BY <1>13, <2>2
    <3>2. PICK m \in Nodes : m = c.items[k] /\ m \in Mapped(c)
      BY <1>1, <3>1, MappedFacts
    <3>3. Load(d.node[m]) = Load(c.node[m])
      BY <1>2, <1>12, <3>2
    <3>4. Load(c.node[m]) \in Stored /\ c.node[m].key = k
      BY <1>1, <3>1, <3>2 DEF Filed
    <3> QED BY <1>14, <3>1, <3>2, <3>3, <3>4 DEF Load
  <2> QED BY <2>1, <2>2
<1>17. Listed(M) = Mapped(d)
  BY <1>1, <1>2, <1>15, ListedFronted
<1> HIDE DEF M
<1>18. Rep(d, M)
  BY <1>9, <1>10, <1>16, <1>17 DEF Rep
<1>19. \A i \in 1 .. Len(L) : Load(d.node[L[i]]) = Load(c.node[L[i]])
  BY <1>4, <1>12
<1> QED BY <1>2, <1>3, <1>4, <1>11, <1>13, <1>18, <1>19 DEF M, n

Refreshed(c, n, v, t) == [c EXCEPT !.node[n].val = v, !.node[n].expiresAt = t]

LEMMA RefreshRep ==
  ASSUME NEW c, NEW L, Rep(c, L), NEW i \in 1 .. Len(L), NEW v \in Values,
         NEW t \in 0 .. MaxTime + TTL
  PROVE  LET n == L[i]
             d == Refreshed(c, n, v, t)
         IN  /\ Rep(d, L) /\ Cached(d) = Cached(c)
             /\ Load(d.node[n]) = [key |-> c.node[n].key, val |-> v, expiresAt |-> t]
             /\ \A m \in Nodes : m # n => d.node[m] = c.node[m]
<1> DEFINE n == L[i]
           d == [c EXCEPT !.node[n].val = v, !.node[n].expiresAt = t]
<1>1. /\ L \in Seq(Nodes) /\ Distinct(L) /\ Len(L) \in Nat /\ c \in CacheType
      /\ Filed(c) /\ Listed(L) = Mapped(c) /\ Linked(c, L) /\ n \in Nodes
  BY RepFacts DEF Rep
<1>2. \A k \in 1 .. Len(L) : L[k] \in Nodes
  BY RepFacts
<1> HIDE DEF n
<1>3. PICK x \in AnyNode : x = c.node[n]
  BY <1>1, CacheFields
<1>4. Load(x) \in Stored
  BY <1>3, RepFacts DEF n
<1> DEFINE y == [x EXCEPT !.val = v, !.expiresAt = t]
<1>5. /\ y \in AnyNode /\ y.prev = x.prev /\ y.next = x.next /\ y.key = x.key
      /\ Load(y) = [key |-> x.key, val |-> v, expiresAt |-> t]
  BY DEF AnyNode, Load
<1>6. Load(y) \in Stored
  BY <1>4, <1>5 DEF Load, Stored
<1> DEFINE nodes == [c.node EXCEPT ![n] = y]
<1>7. d = [c EXCEPT !.node = nodes]
  BY <1>1, <1>3, CacheFields DEF CacheType, AnyNode
<1> HIDE DEF y, d
<1>8. /\ nodes \in [Nodes -> AnyNode]
      /\ nodes[n] = y /\ \A m \in Nodes : m # n => nodes[m] = c.node[m]
  BY <1>1, <1>5, CacheFields
<1> HIDE DEF nodes
<1>9. /\ d \in CacheType /\ d.items = c.items /\ d.node = nodes /\ d.head = c.head
      /\ d.tail = c.tail
  BY <1>1, <1>7, <1>8 DEF CacheType
<1>10. Cached(d) = Cached(c) /\ Mapped(d) = Mapped(c)
  BY <1>9 DEF Cached, Mapped
<1>11. \A m \in Nodes : d.node[m].prev = c.node[m].prev /\ d.node[m].next = c.node[m].next
                        /\ d.node[m].key = c.node[m].key
  BY <1>3, <1>5, <1>8, <1>9
<1>12. Linked(d, L)
  BY <1>1, <1>2, <1>9, <1>11, SameLinks
<1>13. Filed(d)
  <2> SUFFICES ASSUME NEW k \in Cached(c)
               PROVE  Load(d.node[c.items[k]]) \in Stored /\ d.node[c.items[k]].key = k
    BY <1>9, <1>10 DEF Filed
  <2>1. PICK m \in Nodes : m = c.items[k]
    BY <1>1, MappedFacts
  <2>2. Load(c.node[m]) \in Stored /\ c.node[m].key = k
    BY <1>1, <2>1 DEF Filed
  <2>3. Load(d.node[m]) \in Stored
    BY <1>6, <1>8, <1>9, <2>2
  <2> QED BY <1>11, <2>1, <2>2, <2>3
<1>14. Rep(d, L)
  BY <1>1, <1>9, <1>10, <1>12, <1>13 DEF Rep
<1>15. Load(d.node[n]) = [key |-> c.node[n].key, val |-> v, expiresAt |-> t]
       /\ \A m \in Nodes : m # n => d.node[m] = c.node[m]
  BY <1>3, <1>5, <1>8, <1>9
<1> QED BY <1>10, <1>14, <1>15 DEF d, n, Refreshed

LEMMA EmptyRep ==
  ASSUME NEW c \in CacheType, c.items = EmptyCache.items, c.head = Nil, c.tail = Nil
  PROVE  Rep(c, <<>>) /\ Cached(c) = {}
<1>1. Cached(c) = {} /\ Mapped(c) = {}
  BY DEF Cached, Mapped, EmptyCache
<1>2. <<>> \in Seq(Nodes) /\ Len(<<>>) = 0
  BY LenProperties
<1>3. Listed(<<>>) = {} /\ Distinct(<<>>) /\ \A j : NodeAt(<<>>, j) = Nil
  BY <1>2 DEF Listed, Distinct, NodeAt
<1> QED BY <1>1, <1>2, <1>3 DEF Rep, Linked, Filed

(***************************************************************************)
(* Following the pointers from one end of a list yields the list.          *)
(***************************************************************************)
Less == {r \in Nat \X Nat : r[1] < r[2]}

LEMMA Induction ==
  ASSUME NEW T, 0 \in T, \A n \in Nat : n \in T => n + 1 \in T
  PROVE  \A n \in Nat : n \in T
<1> SUFFICES ASSUME NEW k \in Nat, k \notin T PROVE FALSE
  OBVIOUS
<1> DEFINE U == {n \in Nat : n \notin T}
<1>1. IsWellFoundedOn(Less, Nat)
  BY NatLessThanWellFounded DEF Less, OpToRel
<1>2. U \subseteq Nat /\ U # {}
  OBVIOUS
<1>3. PICK x \in U : \A y \in U : ~(<<y, x>> \in Less)
  BY <1>1, <1>2, WFMin
<1>4. x \in Nat /\ x # 0 /\ x - 1 \in Nat
  OBVIOUS
<1>5. x - 1 \in U
  <2>1. (x - 1) + 1 = x
    BY <1>4
  <2> QED BY <1>4, <2>1
<1>6. <<x - 1, x>> \in Less
  BY <1>4 DEF Less
<1> QED BY <1>3, <1>5, <1>6

Walks(at, first, step) == at = [i \in Nodes |-> IF i = 1 THEN first ELSE step[at[i - 1]]]

LEMMA WalkIs ==
  ASSUME NEW first, NEW step
  PROVE  Walk(first, step) = CHOOSE at : Walks(at, first, step)
BY DEF Walk, Walks

LEMMA WalkFact ==
  ASSUME NEW L \in Seq(Nodes), Distinct(L), Len(L) <= Cardinality(Keys), NEW first, NEW step,
         first = NodeAt(L, 1), step[Nil] = Nil,
         \A i \in 1 .. Len(L) : step[L[i]] = NodeAt(L, i + 1)
  PROVE  Follow(first, step) = L
<1>1. /\ Len(L) \in Nat
      /\ \A i \in 1 .. Len(L) : L[i] \in Nodes /\ NodeAt(L, i) = L[i]
      /\ \A j \in Int : NodeAt(L, j) \in Ends /\ (NodeAt(L, j) = Nil <=> j \notin 1 .. Len(L))
  BY NodeAtFacts
<1>2. Cardinality(Keys) \in Nat
  BY NodesAndNil
<1>3. \A i \in Nodes : i # 1 => step[NodeAt(L, i - 1)] = NodeAt(L, i)
  <2> SUFFICES ASSUME NEW i \in Nodes, i # 1
               PROVE  step[NodeAt(L, i - 1)] = NodeAt(L, i)
    OBVIOUS
  <2>1. i \in Nat /\ i > 1 /\ i - 1 \in Nat /\ (i - 1) + 1 = i
    BY <1>2 DEF Nodes
  <2>2. CASE i - 1 \in 1 .. Len(L)
    <3>1. PICK j \in 1 .. Len(L) : j = i - 1
      BY <2>2
    <3>2. step[L[j]] = NodeAt(L, j + 1) /\ NodeAt(L, j) = L[j]
      BY <1>1
    <3> QED BY <2>1, <3>1, <3>2
  <2>3. CASE i - 1 \notin 1 .. Len(L)
    <3>1. i \notin 1 .. Len(L)
      BY <1>1, <2>1, <2>3
    <3> QED BY <2>3, <3>1 DEF NodeAt
  <2> QED BY <2>2, <2>3
<1> DEFINE w == [i \in Nodes |-> NodeAt(L, i)]
<1>4. Walks(w, first, step)
  <2>1. \A i \in Nodes : i # 1 => i - 1 \in Nodes
    BY <1>2 DEF Nodes
  <2>2. \A i \in Nodes : w[i] = IF i = 1 THEN first ELSE step[w[i - 1]]
    BY <1>3, <2>1
  <2>3. w = [i \in Nodes |-> w[i]]
    OBVIOUS
  <2> HIDE DEF w
  <2> QED BY <2>2, <2>3 DEF Walks
<1> DEFINE at == CHOOSE at : Walks(at, first, step)
<1>5. Walks(at, first, step)
  BY <1>4
<1>6. at = Walk(first, step)
  BY WalkIs
<1> HIDE DEF at, w
<1>7. \A i \in Nodes : at[i] = IF i = 1 THEN first ELSE step[at[i - 1]]
  BY <1>5 DEF Walks
<1> DEFINE T == {k \in Nat : k + 1 \in Nodes => at[k + 1] = NodeAt(L, k + 1)}
<1>8. 0 \in T
  <2>1. 0 + 1 = 1 /\ 1 \in Nodes
    BY <1>2 DEF Nodes
  <2> QED BY <1>7, <2>1
<1>9. ASSUME NEW k \in Nat, k \in T PROVE k + 1 \in T
  <2>1. SUFFICES ASSUME k + 1 + 1 \in Nodes PROVE at[k + 1 + 1] = NodeAt(L, k + 1 + 1)
    OBVIOUS
  <2>2. k + 1 \in Nodes /\ k + 1 + 1 # 1 /\ (k + 1 + 1) - 1 = k + 1
    BY <1>2, <2>1 DEF Nodes
  <2>3. at[k + 1] = NodeAt(L, k + 1)
    BY <1>9, <2>2
  <2>4. at[k + 1 + 1] = step[at[(k + 1 + 1) - 1]]
    BY <1>7, <2>1, <2>2
  <2>5. step[NodeAt(L, (k + 1 + 1) - 1)] = NodeAt(L, k + 1 + 1)
    BY <1>3, <2>1, <2>2
  <2> QED BY <2>2, <2>3, <2>4, <2>5
<1> HIDE DEF T
<1>10. \A k \in Nat : k \in T
  BY <1>8, <1>9, Induction
<1>11. \A i \in Nodes : at[i] = NodeAt(L, i)
  <2> TAKE i \in Nodes
  <2>1. i - 1 \in Nat /\ (i - 1) + 1 = i
    BY <1>2 DEF Nodes
  <2>2. i - 1 \in T
    BY <1>10, <2>1
  <2> QED BY <2>1, <2>2 DEF T
<1>12. {j \in Nodes : at[j] # Nil} = 1 .. Len(L)
  <2>1. \A j \in Nodes : at[j] # Nil <=> j \in 1 .. Len(L)
    BY <1>1, <1>2, <1>11 DEF Nodes
  <2>2. 1 .. Len(L) \subseteq Nodes
    BY <1>1, <1>2 DEF Nodes
  <2> QED BY <2>1, <2>2
<1>13. Cardinality(1 .. Len(L)) = Len(L)
  BY <1>1, FS_Interval
<1>14. Follow(first, step) = [i \in 1 .. Len(L) |-> at[i]]
  BY <1>6, <1>12, <1>13 DEF Follow
<1>15. \A i \in 1 .. Len(L) : at[i] = L[i]
  <2>1. 1 .. Len(L) \subseteq Nodes
    BY <1>1, <1>2 DEF Nodes
  <2> QED BY <1>1, <1>11, <2>1
<1>16. L = [i \in 1 .. Len(L) |-> L[i]]
  <2>1. L \in [1 .. Len(L) -> Nodes]
    BY LenProperties
  <2> QED BY <2>1
<1> QED BY <1>14, <1>15, <1>16

(* The list as the properties read it.                                     *)
LEMMA ForwardsIs ==
  ASSUME NEW L, Rep(cache, L)
  PROVE  Forwards = L
<1>1. /\ L \in Seq(Nodes) /\ Distinct(L) /\ Len(L) \in Nat /\ Linked(cache, L)
      /\ \A i \in 1 .. Len(L) : L[i] \in Nodes
  BY RepFacts DEF Rep
<1>2. Len(L) <= Cardinality(Keys)
  BY CachedCard
<1> DEFINE step == [n \in Nodes \cup {Nil} |-> Successor(n)]
<1>3. step[Nil] = Nil
  BY DEF Successor
<1>4. \A n \in Nodes : step[n] = cache.node[n].next
  BY NodesAndNil DEF Successor
<1>5. Forwards = Follow(cache.head, step)
  BY DEF Forwards
<1> HIDE DEF step
<1>6. \A i \in 1 .. Len(L) : step[L[i]] = NodeAt(L, i + 1)
  BY <1>1, <1>4 DEF Linked
<1>7. cache.head = NodeAt(L, 1)
  BY <1>1 DEF Linked
<1>8. PICK first : first = cache.head
  OBVIOUS
<1>9. PICK s : s = step
  OBVIOUS
<1>10. Follow(first, s) = L
  BY <1>1, <1>2, <1>3, <1>6, <1>7, <1>8, <1>9, WalkFact
<1> QED BY <1>5, <1>8, <1>9, <1>10

Backed(L) == [i \in 1 .. Len(L) |-> L[Len(L) - i + 1]]

LEMMA BackwardsIs ==
  ASSUME NEW L, Rep(cache, L)
  PROVE  Forwards = Reverse(Backwards)
<1>1. /\ L \in Seq(Nodes) /\ Distinct(L) /\ Len(L) \in Nat /\ Linked(cache, L)
      /\ \A i \in 1 .. Len(L) : L[i] \in Nodes
  BY RepFacts DEF Rep
<1>2. Len(L) <= Cardinality(Keys)
  BY CachedCard
<1> DEFINE n == Len(L)
           R == Backed(L)
<1>3. \A i \in 1 .. n : n - i + 1 \in 1 .. n /\ n - (n - i + 1) + 1 = i
  BY <1>1
<1>4. R \in Seq(Nodes) /\ Len(R) = n /\ \A i \in 1 .. n : R[i] = L[n - i + 1]
  <2>1. R \in [1 .. n -> Nodes] /\ \A i \in 1 .. n : R[i] = L[n - i + 1]
    BY <1>1, <1>3 DEF Backed
  <2> HIDE DEF R, n
  <2>2. n \in Nat
    BY <1>1 DEF n
  <2> QED BY <2>1, <2>2, SeqDef, LenProperties
<1> HIDE DEF R
<1>5. Distinct(R)
  <2> SUFFICES ASSUME NEW i \in 1 .. n, NEW j \in 1 .. n, R[i] = R[j]
               PROVE  i = j
    BY <1>4 DEF Distinct
  <2>1. L[n - i + 1] = L[n - j + 1]
    BY <1>4
  <2>2. n - i + 1 = n - j + 1
    BY <1>1, <1>3, <2>1 DEF Distinct
  <2> QED BY <1>1, <2>2
<1>6. \A j \in Int : NodeAt(R, j) = NodeAt(L, n - j + 1)
  <2> TAKE j \in Int
  <2>1. CASE j \in 1 .. n
    BY <1>3, <1>4, <2>1 DEF NodeAt
  <2>2. CASE j \notin 1 .. n
    <3>1. n - j + 1 \notin 1 .. n
      BY <1>1, <2>2
    <3> QED BY <1>4, <2>2, <3>1 DEF NodeAt
  <2> QED BY <2>1, <2>2
<1> DEFINE step == [m \in Nodes \cup {Nil} |-> Predecessor(m)]
<1>7. step[Nil] = Nil
  BY DEF Predecessor
<1>8. \A m \in Nodes : step[m] = cache.node[m].prev
  BY NodesAndNil DEF Predecessor
<1>9. Backwards = Follow(cache.tail, step)
  BY DEF Backwards
<1> HIDE DEF step
<1>10. \A i \in 1 .. Len(R) : step[R[i]] = NodeAt(R, i + 1)
  <2> TAKE i \in 1 .. Len(R)
  <2>1. PICK j \in 1 .. n : j = n - i + 1
    BY <1>3, <1>4
  <2>2. cache.node[L[j]].prev = NodeAt(L, j - 1)
    BY <1>1 DEF Linked
  <2>3. i + 1 \in Int /\ n - (i + 1) + 1 = j - 1
    BY <1>1, <1>4, <2>1
  <2>4. NodeAt(R, i + 1) = NodeAt(L, j - 1)
    BY <1>6, <2>3
  <2>5. R[i] = L[j] /\ L[j] \in Nodes
    BY <1>1, <1>4, <2>1
  <2> QED BY <1>8, <2>2, <2>4, <2>5
<1>11. cache.tail = NodeAt(R, 1)
  <2>1. 1 \in Int /\ n - 1 + 1 = n
    BY <1>1
  <2>2. NodeAt(R, 1) = NodeAt(L, n)
    BY <1>6, <2>1
  <2> QED BY <1>1, <2>2 DEF Linked
<1>12. PICK first : first = cache.tail
  OBVIOUS
<1>13. PICK s : s = step
  OBVIOUS
<1>14. Follow(first, s) = R
  BY <1>2, <1>4, <1>5, <1>7, <1>10, <1>11, <1>12, <1>13, WalkFact
<1>15. Backwards = R
  BY <1>9, <1>12, <1>13, <1>14
<1>16. Reverse(R) = [i \in 1 .. Len(R) |-> R[(Len(R) - i) + 1]]
  BY DEF Reverse
<1>17. \A i \in 1 .. n : R[(n - i) + 1] = L[i]
  BY <1>3, <1>4
<1>18. L = [i \in 1 .. n |-> L[i]]
  <2>1. L \in [1 .. n -> Nodes]
    BY <1>1, LenProperties
  <2> QED BY <2>1
<1>19. Reverse(R) = L
  <2> HIDE DEF n
  <2> QED BY <1>4, <1>16, <1>17, <1>18
<1> QED BY <1>15, <1>19, ForwardsIs

LEMMA EntriesIs ==
  ASSUME NEW L, Rep(cache, L)
  PROVE  Entries = Loads(cache, L)
<1>1. DOMAIN L = 1 .. Len(L)
  BY RepFacts, LenProperties
<1>2. Entries = [i \in DOMAIN L |-> EntryOf(L[i])]
  BY ForwardsIs DEF Entries
<1>3. \A n : EntryOf(n) = Load(cache.node[n])
  BY DEF EntryOf, Load
<1> QED BY <1>1, <1>2, <1>3 DEF Loads

LEMMA WellLinkedIs ==
  ASSUME NEW L, Rep(cache, L), Len(L) <= capacity
  PROVE  WellLinked
<1>1. /\ L \in Seq(Nodes) /\ Distinct(L) /\ Filed(cache) /\ Listed(L) = Mapped(cache)
  BY RepFacts DEF Rep
<1>2. Forwards = L /\ DOMAIN L = 1 .. Len(L)
  BY <1>1, ForwardsIs, LenProperties
<1>3. ToSet(L) = Mapped(cache)
  BY <1>1, <1>2 DEF ToSet, Listed
<1>4. IsInjective(L)
  BY <1>1, <1>2 DEF IsInjective, Distinct
<1>5. \A k \in Cached(cache) : cache.node[cache.items[k]].key = k
  BY <1>1 DEF Filed
<1>6. Cardinality(Cached(cache)) <= capacity
  BY CachedCard
<1>7. Forwards = Reverse(Backwards)
  BY BackwardsIs
<1> QED BY <1>2, <1>3, <1>4, <1>5, <1>6, <1>7 DEF WellLinked

(***************************************************************************)
(* The cache c holds the entries E, most recently used first. What the     *)
(* operations of the map and the list do to the entries.                   *)
(***************************************************************************)
Holds(c, E) == \E L : Rep(c, L) /\ Loads(c, L) = E

LEMMA LoadsFacts ==
  ASSUME NEW c, NEW L, Rep(c, L)
  PROVE  /\ Loads(c, L) \in Seq(Stored) /\ Len(Loads(c, L)) = Len(L)
         /\ \A i \in 1 .. Len(L) : Loads(c, L)[i] = Load(c.node[L[i]])
<1>1. Len(L) \in Nat /\ \A i \in 1 .. Len(L) : Load(c.node[L[i]]) \in Stored
  BY RepFacts
<1> DEFINE E == Loads(c, L)
<1>2. E \in [1 .. Len(L) -> Stored] /\ \A i \in 1 .. Len(L) : E[i] = Load(c.node[L[i]])
  BY <1>1 DEF Loads
<1> HIDE DEF E
<1>3. E \in Seq(Stored) /\ Len(E) = Len(L)
  BY <1>1, <1>2, SeqDef, LenProperties
<1> QED BY <1>2, <1>3 DEF E

LEMMA HoldsFacts ==
  ASSUME NEW c, NEW E, Holds(c, E)
  PROVE  /\ c \in CacheType /\ E \in Seq(Stored) /\ Len(E) \in Nat
         /\ Cardinality(Cached(c)) = Len(E)
         /\ \A i \in 1 .. Len(E) : E[i] \in Stored /\ E[i].key \in Cached(c)
         /\ \A i, j \in 1 .. Len(E) : E[i].key = E[j].key => i = j
         /\ \A k \in Cached(c) : \E i \in 1 .. Len(E) : E[i].key = k
<1>1. PICK L : Rep(c, L) /\ Loads(c, L) = E
  BY DEF Holds
<1>2. /\ E \in Seq(Stored) /\ Len(E) = Len(L)
      /\ \A i \in 1 .. Len(L) : E[i] = Load(c.node[L[i]])
  BY <1>1, LoadsFacts
<1>3. Cardinality(Cached(c)) = Len(L)
  BY <1>1, CachedCard
<1>4. /\ Distinct(L) /\ Len(L) \in Nat /\ c \in CacheType
      /\ \A i \in 1 .. Len(L) : /\ Load(c.node[L[i]]) \in Stored
                                /\ c.node[L[i]].key \in Cached(c)
                                /\ c.items[c.node[L[i]].key] = L[i]
      /\ \A k \in Cached(c) : \E i \in 1 .. Len(L) : /\ L[i] = c.items[k]
                                                     /\ c.node[L[i]].key = k
  BY <1>1, RepFacts
<1>5. \A i \in 1 .. Len(L) : E[i].key = c.node[L[i]].key
  <2>1. \A x : Load(x).key = x.key
    BY DEF Load
  <2> QED BY <1>2, <2>1
<1>6. \A i, j \in 1 .. Len(L) : E[i].key = E[j].key => i = j
  BY <1>4, <1>5 DEF Distinct
<1>7. \A i \in 1 .. Len(L) : E[i] \in Stored /\ E[i].key \in Cached(c)
  BY <1>2, <1>4, <1>5
<1>8. \A k \in Cached(c) : \E i \in 1 .. Len(L) : E[i].key = k
  BY <1>4, <1>5
<1> QED BY <1>2, <1>3, <1>4, <1>6, <1>7, <1>8

(* A cache holds one list of entries, the one that the properties read.    *)
LEMMA HoldsEntries == \A E : Holds(cache, E) => Entries = E
BY EntriesIs DEF Holds

LEMMA LoadsWithout ==
  ASSUME NEW c, NEW L \in Seq(Nodes), NEW i \in 1 .. Len(L)
  PROVE  Loads(c, Without(L, i)) = Without(Loads(c, L), i)
<1> DEFINE E == Loads(c, L)
           M == Without(L, i)
           f(n) == Load(c.node[n])
<1>1. Len(L) \in Nat
  BY LenProperties
<1>2. Len(M) = Len(L) - 1 /\ \A j \in 1 .. Len(L) - 1 : M[j] = IF j < i THEN L[j] ELSE L[j + 1]
  BY WithoutFacts
<1>3. E = [j \in 1 .. Len(L) |-> f(L[j])] /\ Len(E) = Len(L)
  <2>1. E = [j \in 1 .. Len(L) |-> f(L[j])]
    BY DEF Loads
  <2>2. DOMAIN E = 1 .. Len(L)
    BY <2>1
  <2> HIDE DEF E, f
  <2>3. E \in [1 .. Len(L) -> {f(n) : n \in Nodes}]
    BY <2>1, ElementOfSeq
  <2> QED BY <1>1, <2>1, <2>3, LenProperties, SeqDef
<1>4. Without(E, i) = [j \in 1 .. Len(L) - 1 |-> IF j < i THEN E[j] ELSE E[j + 1]]
  BY <1>3 DEF Without
<1>5. Loads(c, M) = [j \in 1 .. Len(L) - 1 |-> f(M[j])]
  BY <1>2 DEF Loads
<1> HIDE DEF E, M, f
<1>6. \A j \in 1 .. Len(L) - 1 : f(M[j]) = IF j < i THEN E[j] ELSE E[j + 1]
  <2> TAKE j \in 1 .. Len(L) - 1
  <2>1. j \in 1 .. Len(L) /\ j + 1 \in 1 .. Len(L)
    BY <1>1
  <2>2. E[j] = f(L[j]) /\ E[j + 1] = f(L[j + 1])
    BY <1>3, <2>1
  <2> QED BY <1>2, <2>2
<1> QED BY <1>4, <1>5, <1>6 DEF E, M

LEMMA LoadsFronted ==
  ASSUME NEW c, NEW L \in Seq(Nodes), NEW n \in Nodes
  PROVE  Loads(c, Fronted(n, L)) = Fronted(Load(c.node[n]), Loads(c, L))
<1> DEFINE E == Loads(c, L)
           M == Fronted(n, L)
           f(m) == Load(c.node[m])
<1>1. Len(L) \in Nat
  BY LenProperties
<1>2. Len(M) = Len(L) + 1 /\ \A j \in 1 .. Len(L) + 1 : M[j] = IF j = 1 THEN n ELSE L[j - 1]
  BY FrontedFacts
<1>3. E = [j \in 1 .. Len(L) |-> f(L[j])] /\ Len(E) = Len(L)
  <2>1. E = [j \in 1 .. Len(L) |-> f(L[j])]
    BY DEF Loads
  <2> HIDE DEF E, f
  <2>3. E \in [1 .. Len(L) -> {f(m) : m \in Nodes}]
    BY <2>1, ElementOfSeq
  <2> QED BY <1>1, <2>1, <2>3, LenProperties, SeqDef
<1>4. Fronted(f(n), E) = [j \in 1 .. Len(L) + 1 |-> IF j = 1 THEN f(n) ELSE E[j - 1]]
  BY <1>3 DEF Fronted
<1>5. Loads(c, M) = [j \in 1 .. Len(L) + 1 |-> f(M[j])]
  BY <1>2 DEF Loads
<1> HIDE DEF E, M, f
<1>6. \A j \in 1 .. Len(L) + 1 : f(M[j]) = IF j = 1 THEN f(n) ELSE E[j - 1]
  <2> TAKE j \in 1 .. Len(L) + 1
  <2>1. j # 1 => j - 1 \in 1 .. Len(L)
    BY <1>1
  <2>2. j # 1 => E[j - 1] = f(L[j - 1])
    BY <1>3, <2>1
  <2> QED BY <1>2, <2>2
<1> QED BY <1>4, <1>5, <1>6 DEF E, M, f

LEMMA LoadsSame ==
  ASSUME NEW c, NEW d, NEW L, \A i \in 1 .. Len(L) : Load(d.node[L[i]]) = Load(c.node[L[i]])
  PROVE  Loads(d, L) = Loads(c, L)
<1> DEFINE f(i) == Load(d.node[L[i]])
           g(i) == Load(c.node[L[i]])
<1>1. Loads(d, L) = [i \in 1 .. Len(L) |-> f(i)] /\ Loads(c, L) = [i \in 1 .. Len(L) |-> g(i)]
  BY DEF Loads
<1>2. \A i \in 1 .. Len(L) : f(i) = g(i)
  OBVIOUS
<1> HIDE DEF f, g
<1> QED BY <1>1, <1>2

(* Where the entry of a key is.                                            *)
LEMMA FindNode ==
  ASSUME NEW c, NEW L, Rep(c, L), NEW k \in Cached(c)
  PROVE  \E i \in 1 .. Len(L) : /\ L[i] = c.items[k] /\ Loads(c, L)[i].key = k
                                /\ Loads(c, L)[i] = Load(c.node[c.items[k]])
                                /\ c.node[c.items[k]].key = k
<1>1. PICK i \in 1 .. Len(L) : L[i] = c.items[k] /\ c.node[L[i]].key = k
  BY RepFacts
<1>2. Loads(c, L)[i] = Load(c.node[L[i]])
  BY LoadsFacts
<1>3. Loads(c, L)[i].key = k
  BY <1>1, <1>2 DEF Load
<1> QED BY <1>1, <1>2, <1>3

LEMMA DropHolds ==
  ASSUME NEW c, NEW E, Holds(c, E), NEW k \in Cached(c)
  PROVE  \E i \in 1 .. Len(E) :
            /\ E[i].key = k /\ E[i] = Load(c.node[c.items[k]])
            /\ Holds(Drop(c, c.items[k]), Without(E, i))
            /\ Cached(Drop(c, c.items[k])) = Cached(c) \ {k}
<1>1. PICK L : Rep(c, L) /\ Loads(c, L) = E
  BY DEF Holds
<1>2. PICK i \in 1 .. Len(L) : /\ L[i] = c.items[k] /\ E[i].key = k
                               /\ E[i] = Load(c.node[c.items[k]]) /\ c.node[c.items[k]].key = k
  BY <1>1, FindNode
<1> DEFINE d == Drop(c, L[i])
           M == Without(L, i)
<1>3. /\ Rep(d, M) /\ Cached(d) = Cached(c) \ {c.node[L[i]].key}
      /\ \A j \in 1 .. Len(M) : Load(d.node[M[j]]) = Load(c.node[M[j]])
  BY <1>1, DropRep
<1>4. L \in Seq(Nodes)
  BY <1>1, RepFacts
<1>5. Loads(c, M) = Without(E, i)
  BY <1>1, <1>4, LoadsWithout
<1> HIDE DEF d, M
<1>6. Loads(d, M) = Loads(c, M)
  BY <1>3, LoadsSame
<1>7. Holds(d, Without(E, i))
  BY <1>3, <1>5, <1>6 DEF Holds
<1>8. i \in 1 .. Len(E)
  BY <1>1, LoadsFacts
<1>9. d = Drop(c, c.items[k]) /\ Cached(d) = Cached(c) \ {k}
  BY <1>2, <1>3 DEF d
<1> QED BY <1>2, <1>7, <1>8, <1>9

LEMMA MoveHolds ==
  ASSUME NEW c, NEW E, Holds(c, E), NEW k \in Cached(c)
  PROVE  \E i \in 1 .. Len(E) :
            /\ E[i].key = k /\ E[i] = Load(c.node[c.items[k]])
            /\ Holds(MoveToHead(c, c.items[k]), Fronted(E[i], Without(E, i)))
            /\ Cached(MoveToHead(c, c.items[k])) = Cached(c)
<1>1. PICK L : Rep(c, L) /\ Loads(c, L) = E
  BY DEF Holds
<1>2. PICK i \in 1 .. Len(L) : /\ L[i] = c.items[k] /\ E[i].key = k
                               /\ E[i] = Load(c.node[c.items[k]]) /\ c.node[c.items[k]].key = k
  BY <1>1, FindNode
<1> DEFINE d == MoveToHead(c, L[i])
           W == Without(L, i)
           M == Fronted(L[i], W)
<1>3. /\ Rep(d, M) /\ Cached(d) = Cached(c)
      /\ \A m \in Nodes : Load(d.node[m]) = Load(c.node[m])
  BY <1>1, MoveRep
<1>4. L \in Seq(Nodes) /\ L[i] \in Nodes
  BY <1>1, RepFacts
<1>5. W \in Seq(Nodes) /\ Loads(c, W) = Without(E, i)
  BY <1>1, <1>4, WithoutFacts, LoadsWithout
<1> HIDE DEF W
<1>6. Loads(c, M) = Fronted(Load(c.node[L[i]]), Loads(c, W))
  BY <1>4, <1>5, LoadsFronted
<1>7. M \in Seq(Nodes)
  BY <1>3, RepFacts
<1> HIDE DEF d, M
<1>8. Loads(d, M) = Loads(c, M)
  <2>1. \A j \in 1 .. Len(M) : M[j] \in Nodes
    BY <1>7, ElementOfSeq
  <2>2. \A j \in 1 .. Len(M) : Load(d.node[M[j]]) = Load(c.node[M[j]])
    BY <1>3, <2>1
  <2> QED BY <2>2, LoadsSame
<1>9. Loads(d, M) = Fronted(E[i], Without(E, i))
  BY <1>2, <1>5, <1>6, <1>8
<1>10. Holds(d, Fronted(E[i], Without(E, i)))
  BY <1>3, <1>9 DEF Holds
<1>11. i \in 1 .. Len(E)
  BY <1>1, LoadsFacts
<1>12. d = MoveToHead(c, c.items[k]) /\ Cached(d) = Cached(c)
  BY <1>2, <1>3 DEF d
<1> QED BY <1>2, <1>10, <1>11, <1>12

LEMMA InsertHolds ==
  ASSUME NEW c, NEW E, Holds(c, E), NEW e \in Stored, e.key \notin Cached(c)
  PROVE  Holds(Insert(c, e), Fronted(e, E)) /\ Cached(Insert(c, e)) = Cached(c) \cup {e.key}
<1>1. PICK L : Rep(c, L) /\ Loads(c, L) = E
  BY DEF Holds
<1> DEFINE n == Fresh(c)
           d == Insert(c, e)
<1>2. /\ n \in Nodes /\ Rep(d, Fronted(n, L)) /\ Cached(d) = Cached(c) \cup {e.key}
      /\ Load(d.node[n]) = e
      /\ \A i \in 1 .. Len(L) : Load(d.node[L[i]]) = Load(c.node[L[i]])
  BY <1>1, InsertRep
<1>3. L \in Seq(Nodes)
  BY <1>1, RepFacts
<1> HIDE DEF n, d
<1>4. Loads(d, L) = Loads(c, L)
  BY <1>2, LoadsSame
<1>5. Loads(d, Fronted(n, L)) = Fronted(Load(d.node[n]), Loads(d, L))
  BY <1>2, <1>3, LoadsFronted
<1>6. Loads(d, Fronted(n, L)) = Fronted(e, E)
  BY <1>1, <1>2, <1>4, <1>5
<1>7. Holds(d, Fronted(e, E)) /\ Cached(d) = Cached(c) \cup {e.key}
  BY <1>2, <1>6 DEF Holds
<1> QED BY <1>7 DEF d

(* An entry that is given a new value and moves to the front.              *)
LEMMA RefreshHolds ==
  ASSUME NEW c, NEW E, Holds(c, E), NEW k \in Cached(c), NEW v \in Values,
         NEW t \in 0 .. MaxTime + TTL
  PROVE  LET n == c.items[k]
             d == MoveToHead(Refreshed(c, n, v, t), n)
             e == [key |-> k, val |-> v, expiresAt |-> t]
         IN  /\ \E i \in 1 .. Len(E) : E[i].key = k /\ Holds(d, Fronted(e, Without(E, i)))
             /\ Cached(d) = Cached(c)
<1> DEFINE n == c.items[k]
           b == [c EXCEPT !.node[n].val = v, !.node[n].expiresAt = t]
           d == MoveToHead(b, n)
           e == [key |-> k, val |-> v, expiresAt |-> t]
<1>1. PICK L : Rep(c, L) /\ Loads(c, L) = E
  BY DEF Holds
<1>2. PICK i \in 1 .. Len(L) : /\ L[i] = n /\ E[i].key = k /\ c.node[n].key = k
  BY <1>1, FindNode
<1>3. /\ Rep(b, L) /\ Cached(b) = Cached(c) /\ Load(b.node[n]) = e
      /\ \A m \in Nodes : m # n => b.node[m] = c.node[m]
  <2> DEFINE q == L[i]
             r == Refreshed(c, q, v, t)
  <2>1. /\ Rep(r, L) /\ Cached(r) = Cached(c)
        /\ Load(r.node[q]) = [key |-> c.node[q].key, val |-> v, expiresAt |-> t]
        /\ \A m \in Nodes : m # q => r.node[m] = c.node[m]
    BY <1>1, RefreshRep
  <2>2. q = n
    BY <1>2
  <2>3. r = b
    BY <2>2 DEF Refreshed
  <2> HIDE DEF b, n, r, q
  <2>4. c.node[n].key = k /\ q = n /\ r = b
    BY <1>2, <2>2, <2>3
  <2> QED BY <2>1, <2>4
<1> HIDE DEF b, e, n
<1> DEFINE W == Without(L, i)
           M == Fronted(L[i], W)
<1>4. d = MoveToHead(b, L[i])
  BY <1>2
<1>5. /\ Rep(d, M) /\ Cached(d) = Cached(b)
      /\ \A m \in Nodes : Load(d.node[m]) = Load(b.node[m])
  BY <1>3, <1>4, MoveRep
<1>6. /\ L \in Seq(Nodes) /\ Distinct(L) /\ Len(L) \in Nat
      /\ \A j \in 1 .. Len(L) : L[j] \in Nodes
  BY <1>1, RepFacts
<1>7. W \in Seq(Nodes) /\ Loads(c, W) = Without(E, i)
  BY <1>1, <1>6, WithoutFacts, LoadsWithout
<1>8. \A j \in 1 .. Len(W) : W[j] \in Nodes /\ W[j] # n
  <2>1. Listed(W) = Listed(L) \ {L[i]}
    BY <1>6, ListedWithout
  <2> HIDE DEF W
  <2>2. \A j \in 1 .. Len(W) : W[j] \in Nodes
    BY <1>7, ElementOfSeq
  <2> QED BY <1>2, <2>1, <2>2 DEF Listed
<1> HIDE DEF W, d
<1>9. Loads(d, W) = Loads(c, W)
  <2>1. \A j \in 1 .. Len(W) : Load(d.node[W[j]]) = Load(c.node[W[j]])
    BY <1>3, <1>5, <1>8
  <2> QED BY <2>1, LoadsSame
<1>10. Loads(d, M) = Fronted(Load(d.node[L[i]]), Loads(d, W))
  BY <1>6, <1>7, LoadsFronted
<1>11. Load(d.node[L[i]]) = e
  BY <1>2, <1>3, <1>5, <1>6
<1> HIDE DEF M
<1>12. Holds(d, Fronted(e, Without(E, i)))
  BY <1>5, <1>7, <1>9, <1>10, <1>11 DEF Holds
<1>13. i \in 1 .. Len(E)
  BY <1>1, LoadsFacts
<1>14. (\E j \in 1 .. Len(E) : E[j].key = k /\ Holds(d, Fronted(e, Without(E, j))))
       /\ Cached(d) = Cached(c)
  BY <1>2, <1>3, <1>5, <1>12, <1>13
<1> QED BY <1>14 DEF d, b, e, n, Refreshed

LEMMA MakeRoomHolds ==
  ASSUME NEW c, NEW E, Holds(c, E), Len(E) <= capacity, capacity \in Capacities
  PROVE  /\ Len(E) = capacity =>
              /\ Len(E) \in 1 .. Len(E)
              /\ Holds(MakeRoom(c), Without(E, Len(E)))
              /\ Cached(MakeRoom(c)) = Cached(c) \ {E[Len(E)].key}
         /\ Len(E) # capacity => MakeRoom(c) = c
<1>1. PICK L : Rep(c, L) /\ Loads(c, L) = E
  BY DEF Holds
<1>2. /\ L \in Seq(Nodes) /\ Distinct(L) /\ Len(L) \in Nat /\ Linked(c, L)
      /\ \A i \in 1 .. Len(L) : L[i] \in Nodes
  BY <1>1, RepFacts DEF Rep
<1>3. /\ Len(E) = Len(L) /\ \A i \in 1 .. Len(L) : E[i] = Load(c.node[L[i]])
  BY <1>1, LoadsFacts
<1>4. Cardinality(Cached(c)) = Len(E)
  BY HoldsFacts
<1>5. capacity \in Nat /\ capacity # 0
  BY NumbersAssumption
<1>6. ASSUME Len(E) # capacity PROVE MakeRoom(c) = c
  <2>1. ~(Cardinality(Cached(c)) >= capacity)
    BY <1>2, <1>3, <1>4, <1>5, <1>6
  <2> QED BY <2>1 DEF MakeRoom
<1>7. ASSUME Len(E) = capacity
      PROVE  /\ Len(E) \in 1 .. Len(E)
             /\ Holds(MakeRoom(c), Without(E, Len(E)))
             /\ Cached(MakeRoom(c)) = Cached(c) \ {E[Len(E)].key}
  <2>1. PICK i \in 1 .. Len(L) : i = Len(L)
    BY <1>2, <1>3, <1>5, <1>7
  <2>2. c.tail = L[i]
    BY <1>2, <2>1 DEF Linked, NodeAt
  <2>3. MakeRoom(c) = Drop(c, L[i])
    <3>1. Cardinality(Cached(c)) >= capacity /\ c.tail # Nil
      BY <1>2, <1>4, <1>5, <1>7, <2>2, NodesAndNil
    <3> QED BY <2>2, <3>1 DEF MakeRoom
  <2> DEFINE d == Drop(c, L[i])
             M == Without(L, i)
  <2>4. /\ Rep(d, M) /\ Cached(d) = Cached(c) \ {c.node[L[i]].key}
        /\ \A j \in 1 .. Len(M) : Load(d.node[M[j]]) = Load(c.node[M[j]])
    BY <1>1, DropRep
  <2>5. Loads(c, M) = Without(E, i)
    BY <1>1, <1>2, LoadsWithout
  <2> HIDE DEF d, M
  <2>6. Loads(d, M) = Loads(c, M)
    BY <2>4, LoadsSame
  <2>7. Holds(d, Without(E, i))
    BY <2>4, <2>5, <2>6 DEF Holds
  <2>8. E[i].key = c.node[L[i]].key
    <3>1. \A x : Load(x).key = x.key
      BY DEF Load
    <3> QED BY <1>3, <3>1
  <2> QED BY <1>3, <2>1, <2>3, <2>4, <2>7, <2>8 DEF d
<1> QED BY <1>6, <1>7

LEMMA ClearHolds ==
  ASSUME NEW c \in CacheType
  PROVE  LET d == Collect([c EXCEPT !.items = EmptyCache.items, !.head = Nil, !.tail = Nil])
         IN  Holds(d, <<>>) /\ Cached(d) = {}
<1> DEFINE it == EmptyCache.items
           b == [c EXCEPT !.items = it, !.head = Nil, !.tail = Nil]
           d == Collect(b)
<1>1. it \in [Keys -> Ends] /\ Nil \in Ends
  BY DEF EmptyCache, Ends
<1>2. /\ b \in CacheType /\ b.items = it /\ b.head = Nil /\ b.tail = Nil
  <2> HIDE DEF it
  <2> QED BY <1>1 DEF CacheType
<1> HIDE DEF b
<1>3. /\ d \in CacheType /\ d.items = it /\ d.head = Nil /\ d.tail = Nil
  BY <1>2, CollectFields
<1> HIDE DEF d
<1>4. Rep(d, <<>>) /\ Cached(d) = {}
  BY <1>3, EmptyRep
<1>5. Loads(d, <<>>) = <<>>
  <2>1. Len(<<>>) = 0 /\ <<>> \in Seq(Stored)
    BY LenProperties
  <2>2. Loads(d, <<>>) \in Seq(Stored) /\ Len(Loads(d, <<>>)) = Len(<<>>)
    BY <1>4, LoadsFacts
  <2> QED BY <2>1, <2>2, SeqEqual
<1>6. Holds(d, <<>>) /\ Cached(d) = {}
  BY <1>4, <1>5 DEF Holds
<1> QED BY <1>6 DEF d, b

LEMMA EmptyHolds == Holds(EmptyCache, <<>>)
<1>1. Garbage \in AnyNode
  BY NumbersAssumption DEF Garbage, AnyNode, Ends
<1>2. EmptyCache \in CacheType
  <2>1. [n \in Nodes |-> Garbage] \in [Nodes -> AnyNode]
    BY <1>1
  <2>2. [k \in Keys |-> Nil] \in [Keys -> Ends]
    BY DEF Ends
  <2> QED BY <2>1, <2>2 DEF EmptyCache, CacheType, Ends
<1>3. EmptyCache.head = Nil /\ EmptyCache.tail = Nil
  BY DEF EmptyCache
<1> DEFINE e == EmptyCache
<1>4. e \in CacheType /\ e.items = EmptyCache.items /\ e.head = Nil /\ e.tail = Nil
  BY <1>2, <1>3
<1>5. Rep(e, <<>>)
  BY <1>4, EmptyRep
<1>6. Loads(e, <<>>) = <<>>
  <2>1. Len(<<>>) = 0 /\ <<>> \in Seq(Stored)
    BY LenProperties
  <2>2. Loads(e, <<>>) \in Seq(Stored) /\ Len(Loads(e, <<>>)) = Len(<<>>)
    BY <1>5, LoadsFacts
  <2> QED BY <2>1, <2>2, SeqEqual
<1> QED BY <1>5, <1>6 DEF Holds

(***************************************************************************)
(* The import of a snapshot file. It is a fold, which the community        *)
(* modules define by a recursive function on the sets of positions; that   *)
(* the function exists is proved by induction.                             *)
(***************************************************************************)

(* What a cache that has just been built holds.                            *)
Ready(c) == \E E : /\ Holds(c, E) /\ Len(E) <= capacity
                   /\ \A i \in 1 .. Len(E) : E[i].expiresAt \in 1 .. TTL

LEMMA ImportReady ==
  ASSUME now = 0, capacity \in Capacities, NEW c, Ready(c), NEW e \in Entry
  PROVE  Ready(ImportEntry(c, e))
<1>1. PICK E : /\ Holds(c, E) /\ Len(E) <= capacity
               /\ \A i \in 1 .. Len(E) : E[i].expiresAt \in 1 .. TTL
  BY DEF Ready
<1>2. E \in Seq(Stored) /\ Len(E) \in Nat /\ Cardinality(Cached(c)) = Len(E)
  BY <1>1, HoldsFacts
<1>3. capacity \in Nat /\ capacity # 0 /\ TTL \in Nat /\ MaxTime \in Nat
  BY NumbersAssumption
<1>4. e \in Stored /\ e.expiresAt \in 0 .. TTL
  BY <1>3 DEF Entry, Stored
<1>5. CASE ~(now < e.expiresAt)
  BY <1>5 DEF ImportEntry
<1>6. CASE now < e.expiresAt
  <2> DEFINE b == IF e.key \in Cached(c) THEN Drop(c, c.items[e.key]) ELSE MakeRoom(c)
  <2>1. SUFFICES \E F : /\ Holds(b, F) /\ Len(F) < capacity /\ e.key \notin Cached(b)
                        /\ \A i \in 1 .. Len(F) : F[i].expiresAt \in 1 .. TTL
    <3>1. PICK F : /\ Holds(b, F) /\ Len(F) < capacity /\ e.key \notin Cached(b)
                   /\ \A i \in 1 .. Len(F) : F[i].expiresAt \in 1 .. TTL
      BY <2>1
    <3>2. ImportEntry(c, e) = Insert(b, e)
      BY <1>6 DEF ImportEntry
    <3> HIDE DEF b
    <3>3. Holds(Insert(b, e), Fronted(e, F))
      BY <1>4, <3>1, InsertHolds
    <3>4. F \in Seq(Stored) /\ Len(F) \in Nat
      BY <3>1, HoldsFacts
    <3>5. Len(Fronted(e, F)) = Len(F) + 1
          /\ \A j \in 1 .. Len(F) + 1 : Fronted(e, F)[j] = IF j = 1 THEN e ELSE F[j - 1]
      <4>1. e \in Stored /\ F \in Seq(Stored)
        BY <1>4, <3>4
      <4> QED BY <4>1, FrontedFacts
    <3>6. Len(Fronted(e, F)) <= capacity
      BY <1>3, <3>1, <3>4, <3>5
    <3>7. \A j \in 1 .. Len(F) + 1 : Fronted(e, F)[j].expiresAt \in 1 .. TTL
      <4> TAKE j \in 1 .. Len(F) + 1
      <4>1. j # 1 => j - 1 \in 1 .. Len(F)
        BY <3>4
      <4>2. e.expiresAt \in 1 .. TTL
        BY <1>3, <1>4, <1>6
      <4> QED BY <3>1, <3>5, <4>1, <4>2
    <3> QED BY <3>2, <3>3, <3>5, <3>6, <3>7 DEF Ready
  <2>2. ASSUME NEW i \in 1 .. Len(E)
        PROVE  /\ Len(Without(E, i)) < capacity
               /\ \A j \in 1 .. Len(Without(E, i)) :
                     Without(E, i)[j].expiresAt \in 1 .. TTL
    <3>1. Len(Without(E, i)) = Len(E) - 1
          /\ \A j \in 1 .. Len(E) - 1 : Without(E, i)[j] = IF j < i THEN E[j] ELSE E[j + 1]
      BY <1>2, WithoutFacts
    <3>2. \A j \in 1 .. Len(E) - 1 : j \in 1 .. Len(E) /\ j + 1 \in 1 .. Len(E)
      BY <1>2
    <3>3. Len(E) - 1 < capacity
      BY <1>1, <1>2, <1>3
    <3> QED BY <1>1, <3>1, <3>2, <3>3
  <2>3. CASE e.key \in Cached(c)
    <3>1. PICK i \in 1 .. Len(E) : /\ Holds(Drop(c, c.items[e.key]), Without(E, i))
                                   /\ Cached(Drop(c, c.items[e.key])) = Cached(c) \ {e.key}
      BY <1>1, <2>3, DropHolds
    <3>2. b = Drop(c, c.items[e.key])
      BY <2>3
    <3> QED BY <2>2, <3>1, <3>2
  <2>4. CASE e.key \notin Cached(c)
    <3>1. b = MakeRoom(c)
      BY <2>4
    <3>2. CASE Len(E) = capacity
      <4>1. /\ Len(E) \in 1 .. Len(E) /\ Holds(MakeRoom(c), Without(E, Len(E)))
            /\ Cached(MakeRoom(c)) = Cached(c) \ {E[Len(E)].key}
        BY <1>1, <3>2, MakeRoomHolds
      <4> QED BY <2>2, <2>4, <3>1, <4>1
    <3>3. CASE Len(E) # capacity
      <4>1. b = c
        BY <1>1, <3>1, <3>3, MakeRoomHolds
      <4>2. Len(E) < capacity
        BY <1>1, <1>2, <1>3, <3>3
      <4> QED BY <1>1, <2>4, <4>1, <4>2
    <3> QED BY <3>2, <3>3
  <2> QED BY <2>3, <2>4
<1> QED BY <1>5, <1>6

LEMMA MaxOf ==
  ASSUME NEW I \in SUBSET Nat, NEW n \in I, \A i \in I : i <= n
  PROVE  Max(I) = n
<1>1. \A x \in I : (\A y \in I : x >= y) <=> x = n
  OBVIOUS
<1> QED BY <1>1 DEF Max

(* The fold behind the import, over the positions in D.                    *)
Imports(it, file, D) ==
   it = [I \in SUBSET D |-> IF I = {} THEN EmptyCache
                            ELSE ImportEntry(it[I \ {Max(I)}], file[Max(I)])]

LEMMA ImportFold ==
  ASSUME NEW file
  PROVE  ImportEntries(EmptyCache, file)
            = (CHOOSE it : Imports(it, file, DOMAIN file))[DOMAIN file]
BY DEF ImportEntries, FoldLeft, MapThenFoldSet, Imports

LEMMA ImportsExists ==
  ASSUME NEW file
  PROVE  \A n \in Nat : \E it : Imports(it, file, 1 .. n)
<1> DEFINE T == {n \in Nat : \E it : Imports(it, file, 1 .. n)}
<1>1. 0 \in T
  <2> DEFINE it == [I \in {{}} |-> EmptyCache]
  <2>1. SUBSET (1 .. 0) = {{}}
    OBVIOUS
  <2>2. it = [I \in {{}} |-> IF I = {} THEN EmptyCache
                             ELSE ImportEntry(it[I \ {Max(I)}], file[Max(I)])]
    OBVIOUS
  <2>3. Imports(it, file, 1 .. 0)
    BY <2>1, <2>2 DEF Imports
  <2> QED BY <2>3
<1>2. ASSUME NEW n \in Nat, n \in T PROVE n + 1 \in T
  <2>1. PICK it : Imports(it, file, 1 .. n)
    BY <1>2
  <2> DEFINE D == SUBSET (1 .. n + 1)
             new == [I \in D |-> IF n + 1 \in I
                        THEN ImportEntry(it[I \ {n + 1}], file[n + 1]) ELSE it[I]]
  <2>2. ASSUME NEW I \in D, I # {}
        PROVE  new[I] = ImportEntry(new[I \ {Max(I)}], file[Max(I)])
    <3>1. CASE n + 1 \in I
      <4>1. Max(I) = n + 1
        BY <1>2, <3>1, MaxOf
      <4>2. I \ {n + 1} \in D /\ n + 1 \notin I \ {n + 1}
        OBVIOUS
      <4>3. new[I \ {n + 1}] = it[I \ {n + 1}]
        BY <4>2
      <4> QED BY <3>1, <4>1, <4>3
    <3>2. CASE n + 1 \notin I
      <4>1. I \in SUBSET (1 .. n)
        BY <1>2, <3>2
      <4>2. it[I] = ImportEntry(it[I \ {Max(I)}], file[Max(I)])
        BY <2>1, <2>2, <4>1 DEF Imports
      <4>3. I \ {Max(I)} \in D /\ n + 1 \notin I \ {Max(I)}
        BY <3>2
      <4> QED BY <3>2, <4>2, <4>3
    <3> QED BY <3>1, <3>2
  <2>3. new[{}] = EmptyCache
    <3>1. {} \in D /\ {} \in SUBSET (1 .. n)
      OBVIOUS
    <3>2. it[{}] = EmptyCache
      BY <2>1, <3>1 DEF Imports
    <3> QED BY <3>1, <3>2
  <2>4. new = [I \in D |-> new[I]]
    OBVIOUS
  <2> HIDE DEF new
  <2>5. Imports(new, file, 1 .. n + 1)
    BY <2>2, <2>3, <2>4 DEF Imports
  <2> QED BY <1>2, <2>5
<1> HIDE DEF T
<1>3. \A n \in Nat : n \in T
  BY <1>1, <1>2, Induction
<1> QED BY <1>3 DEF T

LEMMA ImportedReady ==
  ASSUME now = 0, capacity \in Capacities, NEW file \in Seq(Entry)
  PROVE  Ready(ImportEntries(EmptyCache, file))
<1> DEFINE n == Len(file)
<1>1. n \in Nat /\ DOMAIN file = 1 .. n /\ \A i \in 1 .. n : file[i] \in Entry
  BY LenProperties, ElementOfSeq
<1>2. \E it : Imports(it, file, 1 .. n)
  BY <1>1, ImportsExists
<1> DEFINE it == CHOOSE it : Imports(it, file, 1 .. n)
<1>3. Imports(it, file, 1 .. n)
  BY <1>2
<1>4. ImportEntries(EmptyCache, file) = it[1 .. n]
  BY <1>1, ImportFold
<1> HIDE DEF it
<1> DEFINE T == {k \in Nat : k <= n => Ready(it[1 .. k])}
<1>5. 0 \in T
  <2>1. 1 .. 0 = {} /\ {} \in SUBSET (1 .. n)
    OBVIOUS
  <2>2. it[{}] = EmptyCache
    BY <1>3, <2>1 DEF Imports
  <2>3. Ready(EmptyCache)
    <3>1. Len(<<>>) = 0 /\ Len(<<>>) <= capacity
      BY NumbersAssumption, LenProperties
    <3> QED BY <3>1, EmptyHolds DEF Ready
  <2> QED BY <2>1, <2>2, <2>3
<1>6. ASSUME NEW k \in Nat, k \in T PROVE k + 1 \in T
  <2>1. SUFFICES ASSUME k + 1 <= n PROVE Ready(it[1 .. k + 1])
    OBVIOUS
  <2>2. Ready(it[1 .. k]) /\ k + 1 \in 1 .. n
    BY <1>1, <1>6, <2>1
  <2> DEFINE I == 1 .. k + 1
  <2>3. Max(I) = k + 1
    <3>1. I \in SUBSET Nat /\ k + 1 \in I /\ \A i \in I : i <= k + 1
      OBVIOUS
    <3> QED BY <3>1, MaxOf
  <2>4. I \in SUBSET (1 .. n) /\ I # {} /\ I \ {k + 1} = 1 .. k
    BY <1>1, <2>1
  <2>5. it[I] = ImportEntry(it[I \ {Max(I)}], file[Max(I)])
    BY <1>3, <2>4 DEF Imports
  <2>6. it[I] = ImportEntry(it[1 .. k], file[k + 1])
    BY <2>3, <2>4, <2>5
  <2>7. Ready(ImportEntry(it[1 .. k], file[k + 1]))
    BY <1>1, <2>2, ImportReady
  <2> QED BY <2>6, <2>7
<1> HIDE DEF T
<1>7. n \in T
  BY <1>1, <1>5, <1>6, Induction
<1>8. Ready(it[1 .. n])
  BY <1>1, <1>7 DEF T
<1> QED BY <1>4, <1>8

(***************************************************************************)
(* The operations of the cache, as its entries see them.                   *)
(***************************************************************************)
Sound ==
  /\ capacity \in Capacities /\ now \in 0 .. MaxTime /\ answer \in Values \cup {Miss}
  /\ Holds(cache, Entries) /\ Len(Entries) <= capacity

LEMMA GetEffect ==
  ASSUME Sound, NEW k \in Keys, Get(k)
  PROVE  \/ /\ k \notin Cached(cache) /\ answer' = Miss /\ UNCHANGED <<cache, since>>
         \/ \E i \in 1 .. Len(Entries) :
               /\ Entries[i].key = k /\ now > Entries[i].expiresAt
               /\ Holds(cache', Without(Entries, i))
               /\ Cached(cache') = Cached(cache) \ {k}
               /\ answer' = Miss /\ since' = [since EXCEPT ![k] = Unused]
         \/ \E i \in 1 .. Len(Entries) :
               /\ Entries[i].key = k /\ ~(now > Entries[i].expiresAt)
               /\ Holds(cache', Fronted(Entries[i], Without(Entries, i)))
               /\ Cached(cache') = Cached(cache)
               /\ answer' = Entries[i].val /\ Use(k)
<1> DEFINE n == cache.items[k]
<1>1. Holds(cache, Entries)
  BY DEF Sound
<1>2. PICK E : E = Entries
  OBVIOUS
<1>3. \A x : Load(x).expiresAt = x.expiresAt /\ Load(x).val = x.val
  BY DEF Load
<1>4. CASE k \notin Cached(cache)
  BY <1>4 DEF Get
<1>5. CASE k \in Cached(cache) /\ Expired(n)
  <2>1. cache' = Drop(cache, n) /\ answer' = Miss /\ since' = [since EXCEPT ![k] = Unused]
    BY <1>5 DEF Get
  <2>2. PICK i \in 1 .. Len(E) :
            /\ E[i].key = k /\ E[i] = Load(cache.node[n])
            /\ Holds(Drop(cache, n), Without(E, i))
            /\ Cached(Drop(cache, n)) = Cached(cache) \ {k}
    BY <1>1, <1>2, <1>5, DropHolds
  <2>3. now > E[i].expiresAt
    BY <1>3, <1>5, <2>2 DEF Expired
  <2> QED BY <1>2, <2>1, <2>2, <2>3
<1>6. CASE k \in Cached(cache) /\ ~Expired(n)
  <2>1. cache' = MoveToHead(cache, n) /\ answer' = cache.node[n].val /\ Use(k)
    BY <1>6 DEF Get
  <2>2. PICK i \in 1 .. Len(E) :
            /\ E[i].key = k /\ E[i] = Load(cache.node[n])
            /\ Holds(MoveToHead(cache, n), Fronted(E[i], Without(E, i)))
            /\ Cached(MoveToHead(cache, n)) = Cached(cache)
    BY <1>1, <1>2, <1>6, MoveHolds
  <2>3. ~(now > E[i].expiresAt) /\ E[i].val = cache.node[n].val
    BY <1>3, <1>6, <2>2 DEF Expired
  <2> QED BY <1>2, <2>1, <2>2, <2>3
<1> QED BY <1>4, <1>5, <1>6

LEMMA SetEffect ==
  ASSUME Sound, NEW k \in Keys, NEW v \in Values, Set(k, v)
  PROVE  LET e == [key |-> k, val |-> v, expiresAt |-> now + TTL]
             n == Len(Entries)
         IN  /\ e \in Stored /\ e.key = k
             /\ \/ \E i \in 1 .. n : /\ Entries[i].key = k
                                     /\ Holds(cache', Fronted(e, Without(Entries, i)))
                                     /\ Cached(cache') = Cached(cache)
                \/ /\ k \notin Cached(cache) /\ n = capacity /\ n \in 1 .. n
                   /\ Holds(cache', Fronted(e, Without(Entries, n)))
                   /\ Cached(cache') = (Cached(cache) \ {Entries[n].key}) \cup {k}
                \/ /\ k \notin Cached(cache) /\ n < capacity
                   /\ Holds(cache', Fronted(e, Entries))
                   /\ Cached(cache') = Cached(cache) \cup {k}
<1> DEFINE m == cache.items[k]
           t == now + TTL
           e == [key |-> k, val |-> v, expiresAt |-> t]
<1>1. Holds(cache, Entries) /\ Len(Entries) <= capacity /\ capacity \in Capacities
      /\ capacity \in Nat
  BY NumbersAssumption DEF Sound
<1>2. PICK E : E = Entries
  OBVIOUS
<1>3. t \in 0 .. MaxTime + TTL
  BY NumbersAssumption DEF Sound
<1>4. e \in Stored /\ e.key = k
  BY <1>3 DEF Stored
<1>5. CASE k \in Cached(cache)
  <2>1. cache' = MoveToHead(Refreshed(cache, m, v, t), m)
    BY <1>5 DEF Set, Refreshed
  <2>2. PICK s \in 0 .. MaxTime + TTL : s = t
    BY <1>3
  <2> DEFINE d == MoveToHead(Refreshed(cache, m, v, s), m)
             g == [key |-> k, val |-> v, expiresAt |-> s]
  <2>3. /\ \E i \in 1 .. Len(E) : E[i].key = k /\ Holds(d, Fronted(g, Without(E, i)))
        /\ Cached(d) = Cached(cache)
    BY <1>1, <1>2, <1>5, RefreshHolds
  <2>4. d = cache' /\ g = e
    BY <2>1, <2>2
  <2> HIDE DEF d, g, e
  <2> QED BY <1>2, <1>4, <2>3, <2>4 DEF e
<1>6. CASE k \notin Cached(cache)
  <2>1. cache' = Insert(MakeRoom(cache), e)
    BY <1>6 DEF Set
  <2>2. Len(E) \in Nat
    BY <1>1, <1>2, HoldsFacts
  <2> HIDE DEF e
  <2>3. CASE Len(E) = capacity
    <3>1. /\ Len(E) \in 1 .. Len(E)
          /\ Holds(MakeRoom(cache), Without(E, Len(E)))
          /\ Cached(MakeRoom(cache)) = Cached(cache) \ {E[Len(E)].key}
      BY <1>1, <1>2, <2>3, MakeRoomHolds
    <3>2. PICK b : b = MakeRoom(cache)
      OBVIOUS
    <3>3. PICK F : F = Without(E, Len(E))
      OBVIOUS
    <3>4. PICK g \in Stored : g = e
      BY <1>4
    <3>5. Holds(b, F) /\ g.key \notin Cached(b)
      BY <1>4, <1>6, <3>1, <3>2, <3>3, <3>4
    <3>6. Holds(Insert(b, g), Fronted(g, F)) /\ Cached(Insert(b, g)) = Cached(b) \cup {g.key}
      BY <3>5, InsertHolds
    <3> QED BY <1>2, <1>4, <1>6, <2>1, <2>3, <3>1, <3>2, <3>3, <3>4, <3>6 DEF e
  <2>4. CASE Len(E) # capacity
    <3>1. MakeRoom(cache) = cache
      BY <1>1, <1>2, <2>4, MakeRoomHolds
    <3>2. PICK g \in Stored : g = e
      BY <1>4
    <3>3. Holds(Insert(cache, g), Fronted(g, E))
          /\ Cached(Insert(cache, g)) = Cached(cache) \cup {g.key}
      BY <1>1, <1>2, <1>4, <1>6, <3>2, InsertHolds
    <3>4. Len(E) < capacity
      BY <1>1, <1>2, <2>2, <2>4
    <3> QED BY <1>2, <1>4, <1>6, <2>1, <3>1, <3>2, <3>3, <3>4 DEF e
  <2> QED BY <2>3, <2>4
<1> QED BY <1>5, <1>6

LEMMA ClearEffect ==
  ASSUME Sound, Clear
  PROVE  Holds(cache', <<>>) /\ Cached(cache') = {}
<1>1. cache \in CacheType
  BY HoldsFacts DEF Sound
<1>2. cache' = Collect([cache EXCEPT !.items = EmptyCache.items, !.head = Nil, !.tail = Nil])
  BY DEF Clear
<1> QED BY <1>1, <1>2, ClearHolds

LEMMA HoldsEntriesNext == \A E : Holds(cache', E) => Entries' = E
<1>1. (\A E : Holds(cache, E) => Entries = E)'
  BY HoldsEntries, PTL
<1> QED BY <1>1

(***************************************************************************)
(* The cache is sound in every state.                                      *)
(***************************************************************************)
LEMMA SoundInit == Init => Sound
<1> SUFFICES ASSUME Init PROVE Sound
  OBVIOUS
<1>1. now = 0 /\ capacity \in Capacities /\ answer = Miss
  BY DEF Init
<1>2. PICK file \in SnapshotFiles : cache = ImportEntries(EmptyCache, file)
  BY DEF Init
<1>3. file \in Seq(Entry)
  <2>1. PICK n \in 0 .. Cardinality(Keys) : file \in [1 .. n -> Entry]
    BY <1>2 DEF SnapshotFiles
  <2>2. n \in Nat
    BY <2>1, NodesAndNil
  <2> QED BY <2>1, <2>2, SeqDef
<1>4. Ready(cache)
  BY <1>1, <1>2, <1>3, ImportedReady
<1>5. PICK E : Holds(cache, E) /\ Len(E) <= capacity
  BY <1>4 DEF Ready
<1>6. Entries = E
  BY <1>5, HoldsEntries
<1> QED BY <1>1, <1>5, <1>6, NumbersAssumption DEF Sound

LEMMA SoundNext == Sound /\ [Next]_vars => Sound'
<1> SUFFICES ASSUME Sound, [Next]_vars PROVE Sound'
  OBVIOUS
<1>1. /\ Holds(cache, Entries) /\ Len(Entries) <= capacity /\ capacity \in Capacities
      /\ now \in 0 .. MaxTime /\ answer \in Values \cup {Miss}
  BY DEF Sound
<1>2. /\ Entries \in Seq(Stored) /\ Len(Entries) \in Nat
      /\ \A i \in 1 .. Len(Entries) : Entries[i] \in Stored
  BY <1>1, HoldsFacts
<1>3. capacity \in Nat /\ capacity # 0 /\ MaxTime \in Nat
  BY <1>1, NumbersAssumption
<1>4. ASSUME NEW E, Holds(cache', E), Len(E) <= capacity, capacity' = capacity,
             now' \in 0 .. MaxTime, answer' \in Values \cup {Miss}
      PROVE  Sound'
  <2>1. Entries' = E
    BY <1>4, HoldsEntriesNext
  <2> QED BY <1>1, <1>4, <2>1 DEF Sound
<1>5. ASSUME NEW i \in 1 .. Len(Entries)
      PROVE  /\ Len(Without(Entries, i)) <= capacity
             /\ \A e \in Stored : Len(Fronted(e, Without(Entries, i))) <= capacity
  <2>1. Without(Entries, i) \in Seq(Stored) /\ Len(Without(Entries, i)) = Len(Entries) - 1
    BY <1>2, WithoutFacts
  <2>2. \A e \in Stored : Len(Fronted(e, Without(Entries, i))) = (Len(Entries) - 1) + 1
    <3> TAKE e \in Stored
    <3>1. PICK W \in Seq(Stored) : W = Without(Entries, i)
      BY <2>1
    <3>2. Len(Fronted(e, W)) = Len(W) + 1
      BY FrontedFacts
    <3> QED BY <2>1, <3>1, <3>2
  <2>3. Len(Entries) - 1 <= capacity /\ (Len(Entries) - 1) + 1 <= capacity
    BY <1>1, <1>2, <1>3
  <2> QED BY <2>1, <2>2, <2>3
<1>6. ASSUME NEW k \in Keys, Get(k) PROVE Sound'
  <2>1. capacity' = capacity /\ now' \in 0 .. MaxTime
    BY <1>1, <1>6 DEF Get
  <2>2. CASE answer' = Miss /\ UNCHANGED <<cache, since>>
    BY <1>1, <1>4, <2>1, <2>2
  <2>3. ASSUME NEW i \in 1 .. Len(Entries), Holds(cache', Without(Entries, i)), answer' = Miss
        PROVE  Sound'
    BY <1>4, <1>5, <2>1, <2>3
  <2>4. ASSUME NEW i \in 1 .. Len(Entries), answer' = Entries[i].val,
               Holds(cache', Fronted(Entries[i], Without(Entries, i)))
        PROVE  Sound'
    <3>1. answer' \in Values
      BY <1>2, <2>4 DEF Stored
    <3> QED BY <1>2, <1>4, <1>5, <2>1, <2>4, <3>1
  <2> QED BY <1>6, <2>2, <2>3, <2>4, GetEffect
<1>7. ASSUME NEW k \in Keys, NEW v \in Values, Set(k, v) PROVE Sound'
  <2>1. capacity' = capacity /\ now' \in 0 .. MaxTime /\ answer' \in Values \cup {Miss}
    BY <1>1, <1>7 DEF Set
  <2>2. PICK e \in Stored :
           \/ \E i \in 1 .. Len(Entries) : Holds(cache', Fronted(e, Without(Entries, i)))
           \/ /\ Len(Entries) \in 1 .. Len(Entries)
              /\ Holds(cache', Fronted(e, Without(Entries, Len(Entries))))
           \/ Len(Entries) < capacity /\ Holds(cache', Fronted(e, Entries))
    BY <1>7, SetEffect
  <2>3. ASSUME NEW i \in 1 .. Len(Entries), Holds(cache', Fronted(e, Without(Entries, i)))
        PROVE  Sound'
    BY <1>4, <1>5, <2>1, <2>3
  <2>4. CASE Len(Entries) < capacity /\ Holds(cache', Fronted(e, Entries))
    <3>1. Len(Fronted(e, Entries)) = Len(Entries) + 1
      BY <1>2, FrontedFacts
    <3>2. Len(Entries) + 1 <= capacity
      BY <1>2, <1>3, <2>4
    <3> QED BY <1>4, <2>1, <2>4, <3>1, <3>2
  <2> QED BY <2>2, <2>3, <2>4
<1>8. CASE Clear
  <2>1. Holds(cache', <<>>) /\ Len(<<>>) <= capacity
    BY <1>3, <1>8, ClearEffect, LenProperties
  <2>2. capacity' = capacity /\ now' \in 0 .. MaxTime /\ answer' \in Values \cup {Miss}
    BY <1>1, <1>8 DEF Clear
  <2> QED BY <1>4, <2>1, <2>2
<1>9. CASE Tick
  <2>1. now' \in 0 .. MaxTime
    BY <1>1, <1>3, <1>9 DEF Tick
  <2> QED BY <1>1, <1>4, <1>9, <2>1 DEF Tick
<1>10. CASE UNCHANGED vars
  BY <1>1, <1>4, <1>10 DEF vars
<1> QED BY <1>6, <1>7, <1>8, <1>9, <1>10 DEF Next

LEMMA AlwaysSound == Spec => []Sound
BY SoundInit, SoundNext, PTL DEF Spec

(* The map and the list hold the same nodes in a proper order (AddToHead,  *)
(* RemoveNode and their callers), and no more of them than the capacity.   *)
THEOREM ProperlyLinked == Spec => []WellLinked
<1>1. Sound => WellLinked
  <2> SUFFICES ASSUME Sound PROVE WellLinked
    OBVIOUS
  <2>1. PICK L : Rep(cache, L) /\ Loads(cache, L) = Entries
    BY DEF Sound, Holds
  <2>2. Len(L) <= capacity
    BY <2>1, LoadsFacts DEF Sound
  <2> QED BY <2>1, <2>2, WellLinkedIs
<1> QED BY <1>1, AlwaysSound, PTL

(***************************************************************************)
(* Least recently used: what stands before a key in the list was used      *)
(* after it. A key that falls off the end has therefore seen as many other *)
(* keys as are then in the cache.                                          *)
(***************************************************************************)
Ahead(s, E) == \A i, j \in 1 .. Len(E) : i < j /\ s[E[j].key] # Unused
                                            => E[i].key \in s[E[j].key]

Tracked(s) == /\ s = [k \in Keys |-> s[k]]
              /\ \A k \in Keys : s[k] = Unused \/ s[k] \in SUBSET (Keys \ {k})

(* The history t after a use of k at the history s.                        *)
Used(k, s, t) == /\ Tracked(t) /\ t[k] = {}
                 /\ \A j \in Keys \ {k} : /\ s[j] = Unused => t[j] = Unused
                                          /\ s[j] # Unused => t[j] = s[j] \cup {k}

Recent == Tracked(since) /\ Ahead(since, Entries) /\ NoEarlyEviction

LEMMA UseFacts ==
  ASSUME Tracked(since), NEW k \in Keys, Use(k)
  PROVE  Used(k, since, since')
<1> DEFINE f(j) == CASE j = k -> {}
                     [] j # k /\ since[j] = Unused -> Unused
                     [] OTHER -> since[j] \cup {k}
<1>1. since' = [j \in Keys |-> f(j)]
  BY DEF Use
<1>2. f(k) = {}
  OBVIOUS
<1>3. ASSUME NEW j \in Keys \ {k}
      PROVE  /\ since[j] = Unused => f(j) = Unused
             /\ since[j] # Unused => f(j) = since[j] \cup {k}
  OBVIOUS
<1>4. \A j \in Keys \ {k} : since[j] # Unused => since[j] \cup {k} \in SUBSET (Keys \ {j})
  BY DEF Tracked
<1> HIDE DEF f
<1>5. \A j \in Keys : since'[j] = f(j)
  BY <1>1
<1>6. since' = [j \in Keys |-> since'[j]]
  BY <1>1
<1>7. \A j \in Keys : f(j) = Unused \/ f(j) \in SUBSET (Keys \ {j})
  <2> TAKE j \in Keys
  <2>1. CASE j = k
    BY <1>2, <2>1
  <2>2. CASE j # k
    BY <1>3, <1>4, <2>2
  <2> QED BY <2>1, <2>2
<1>8. Tracked(since')
  BY <1>5, <1>6, <1>7 DEF Tracked
<1> QED BY <1>2, <1>3, <1>5, <1>8 DEF Used

LEMMA AheadWithout ==
  ASSUME NEW s, NEW E \in Seq(Stored), Ahead(s, E), NEW i \in 1 .. Len(E)
  PROVE  Ahead(s, Without(E, i))
<1> DEFINE F == Without(E, i)
<1>1. /\ Len(F) = Len(E) - 1 /\ Len(E) \in Nat
      /\ \A j \in 1 .. Len(E) - 1 : F[j] = IF j < i THEN E[j] ELSE E[j + 1]
  BY WithoutFacts
<1> HIDE DEF F
<1>2. SUFFICES ASSUME NEW a \in 1 .. Len(E) - 1, NEW b \in 1 .. Len(E) - 1, a < b,
                      s[F[b].key] # Unused
               PROVE  F[a].key \in s[F[b].key]
  BY <1>1 DEF Ahead, F
<1>3. PICK x \in 1 .. Len(E) : x = IF a < i THEN a ELSE a + 1
  BY <1>1
<1>4. PICK y \in 1 .. Len(E) : y = IF b < i THEN b ELSE b + 1
  BY <1>1
<1>5. x < y
  BY <1>1, <1>2, <1>3, <1>4
<1>6. F[a] = E[x] /\ F[b] = E[y]
  BY <1>1, <1>3, <1>4
<1> QED BY <1>2, <1>5, <1>6 DEF Ahead

LEMMA AheadUsed ==
  ASSUME NEW s, NEW t, NEW k \in Keys, Used(k, s, t), NEW F \in Seq(Stored), Ahead(s, F),
         \A j \in 1 .. Len(F) : F[j].key # k, NEW e \in Stored, e.key = k
  PROVE  Ahead(t, Fronted(e, F))
<1> DEFINE G == Fronted(e, F)
<1>1. /\ Len(G) = Len(F) + 1 /\ Len(F) \in Nat
      /\ \A j \in 1 .. Len(F) + 1 : G[j] = IF j = 1 THEN e ELSE F[j - 1]
  BY FrontedFacts
<1>2. \A j \in 1 .. Len(F) : F[j] \in Stored
  BY ElementOfSeq
<1> HIDE DEF G
<1>3. SUFFICES ASSUME NEW a \in 1 .. Len(F) + 1, NEW b \in 1 .. Len(F) + 1, a < b,
                      t[G[b].key] # Unused
               PROVE  G[a].key \in t[G[b].key]
  BY <1>1 DEF Ahead, G
<1>4. PICK y \in 1 .. Len(F) : y = b - 1 /\ G[b] = F[y]
  BY <1>1, <1>3
<1>5. F[y].key \in Keys \ {k}
  BY <1>2 DEF Stored
<1>6. s[F[y].key] # Unused /\ t[F[y].key] = s[F[y].key] \cup {k}
  BY <1>3, <1>4, <1>5 DEF Used
<1>7. CASE a = 1
  BY <1>1, <1>4, <1>6, <1>7
<1>8. CASE a # 1
  <2>1. PICK x \in 1 .. Len(F) : x = a - 1 /\ G[a] = F[x]
    BY <1>1, <1>8
  <2>2. x < y
    BY <1>1, <1>3, <1>4, <2>1
  <2>3. F[x].key \in s[F[y].key]
    BY <1>6, <2>2 DEF Ahead
  <2> QED BY <1>4, <1>6, <2>1, <2>3
<1> QED BY <1>7, <1>8

(* A use takes no key from those that another one has seen.                *)
LEMMA SeenGrows ==
  ASSUME NEW s, NEW t, NEW k \in Keys, Tracked(s), Used(k, s, t), NEW z \in Keys \ {k},
         t[z] # Unused
  PROVE  /\ s[z] # Unused /\ IsFiniteSet(t[z]) /\ Cardinality(t[z]) \in Nat
         /\ Cardinality(s[z]) \in Nat /\ Cardinality(s[z]) <= Cardinality(t[z])
<1>1. s[z] # Unused /\ t[z] = s[z] \cup {k}
  BY DEF Used
<1>2. t[z] \in SUBSET Keys /\ s[z] \in SUBSET t[z]
  BY <1>1 DEF Used, Tracked
<1>3. IsFiniteSet(Keys)
  BY KeysAssumption
<1>4. IsFiniteSet(t[z])
  BY <1>2, <1>3, FS_Subset
<1>5. IsFiniteSet(s[z]) /\ Cardinality(s[z]) <= Cardinality(t[z])
  BY <1>2, <1>4, FS_Subset
<1> QED BY <1>1, <1>4, <1>5, FS_CardinalityType

LEMMA RecentInit == Init => Recent
<1> SUFFICES ASSUME Init PROVE Recent
  OBVIOUS
<1>1. since = [k \in Keys |-> Unused] /\ Sound
  BY SoundInit DEF Init
<1>2. \A k \in Keys : since[k] = Unused
  BY <1>1
<1>3. Tracked(since)
  BY <1>1, <1>2 DEF Tracked
<1>4. \A i \in 1 .. Len(Entries) : Entries[i].key \in Keys
  BY <1>1, HoldsFacts DEF Sound, Stored
<1> QED BY <1>2, <1>3, <1>4 DEF Recent, Ahead, NoEarlyEviction

LEMMA RecentNext == Sound /\ Recent /\ [Next]_vars => Recent'
<1> SUFFICES ASSUME Sound, Recent, [Next]_vars PROVE Recent'
  OBVIOUS
<1> DEFINE n == Len(Entries)
<1>1. /\ Holds(cache, Entries) /\ n <= capacity /\ capacity \in Capacities
      /\ Tracked(since) /\ Ahead(since, Entries) /\ NoEarlyEviction
  BY DEF Sound, Recent
<1>2. /\ Entries \in Seq(Stored) /\ n \in Nat
      /\ \A i \in 1 .. n : Entries[i] \in Stored /\ Entries[i].key \in Cached(cache)
      /\ \A i, j \in 1 .. n : Entries[i].key = Entries[j].key => i = j
      /\ \A k \in Cached(cache) : \E i \in 1 .. n : Entries[i].key = k
  BY <1>1, HoldsFacts
<1>3. capacity \in Nat /\ capacity # 0 /\ capacity' = capacity
  <2>1. capacity' = capacity
    BY DEF Next, vars, Get, Set, Clear, Tick
  <2> QED BY <1>1, <2>1, NumbersAssumption
(* It is enough to look at the entries and at the keys that were in the    *)
(* cache.                                                                  *)
<1>4. ASSUME NEW k \in Keys, Use(k), NEW e \in Stored, e.key = k, NEW F \in Seq(Stored),
             Ahead(since, F), \A j \in 1 .. Len(F) : F[j].key # k,
             Holds(cache', Fronted(e, F)),
             k \in Cached(cache'),
             \A z \in Cached(cache) \ Cached(cache') :
                since'[z] # Unused => Cardinality(since'[z]) >= capacity
      PROVE  Recent'
  <2>1. Used(k, since, since')
    BY <1>1, <1>4, UseFacts
  <2>2. PICK t : t = since'
    OBVIOUS
  <2>3. Ahead(t, Fronted(e, F))
    BY <1>4, <2>1, <2>2, AheadUsed
  <2>4. Entries' = Fronted(e, F)
    BY <1>4, HoldsEntriesNext
  <2>5. Ahead(since, Entries)'
    BY <2>2, <2>3, <2>4 DEF Ahead
  <2>6. Tracked(since)'
    BY <2>1 DEF Used, Tracked
  <2>7. ASSUME NEW z \in Keys \ Cached(cache'), since'[z] # Unused
        PROVE  Cardinality(since'[z]) >= capacity
    <3>1. CASE z \in Cached(cache)
      BY <1>4, <2>7, <3>1
    <3>2. CASE z \notin Cached(cache)
      <4>1. z # k
        BY <1>4
      <4>2. /\ since[z] # Unused /\ Cardinality(since'[z]) \in Nat
            /\ Cardinality(since[z]) \in Nat
            /\ Cardinality(since[z]) <= Cardinality(since'[z])
        BY <1>1, <2>1, <2>7, <4>1, SeenGrows
      <4>3. Cardinality(since[z]) >= capacity
        BY <1>1, <3>2, <4>2 DEF NoEarlyEviction
      <4> QED BY <1>3, <4>2, <4>3
    <3> QED BY <3>1, <3>2
  <2>8. NoEarlyEviction'
    BY <1>3, <2>7 DEF NoEarlyEviction
  <2> QED BY <2>5, <2>6, <2>8 DEF Recent
<1>5. ASSUME NEW i \in 1 .. n
      PROVE  /\ Without(Entries, i) \in Seq(Stored) /\ Ahead(since, Without(Entries, i))
             /\ \A j \in 1 .. Len(Without(Entries, i)) :
                   /\ Without(Entries, i)[j].key \in Cached(cache)
                   /\ Without(Entries, i)[j].key # Entries[i].key
  <2> DEFINE F == Without(Entries, i)
  <2>1. /\ F \in Seq(Stored) /\ Len(F) = n - 1
        /\ \A j \in 1 .. n - 1 : F[j] = IF j < i THEN Entries[j] ELSE Entries[j + 1]
    BY <1>2, WithoutFacts
  <2>2. Ahead(since, F)
    <3>1. PICK s : s = since
      OBVIOUS
    <3>2. Ahead(s, F)
      BY <1>1, <1>2, <3>1, AheadWithout
    <3> QED BY <3>1, <3>2
  <2> HIDE DEF F
  <2>3. \A j \in 1 .. Len(F) : F[j].key \in Cached(cache) /\ F[j].key # Entries[i].key
    <3> TAKE j \in 1 .. Len(F)
    <3>1. PICK x \in 1 .. n : x # i /\ F[j] = Entries[x]
      BY <1>2, <2>1
    <3> QED BY <1>2, <3>1
  <2> QED BY <2>1, <2>2, <2>3 DEF F
<1>6. CASE UNCHANGED <<cache, since>>
  <2>1. Entries' = Entries
    BY <1>1, <1>6, HoldsEntriesNext
  <2>2. Cached(cache') = Cached(cache)
    BY <1>6
  <2> QED BY <1>1, <1>3, <1>6, <2>1, <2>2 DEF Recent, Ahead, Tracked, NoEarlyEviction
<1>7. ASSUME NEW k \in Keys, Get(k) PROVE Recent'
  <2>1. CASE answer' = Miss /\ UNCHANGED <<cache, since>>
    BY <1>6, <2>1
  <2>2. ASSUME NEW i \in 1 .. n, Entries[i].key = k, Holds(cache', Without(Entries, i)),
               Cached(cache') = Cached(cache) \ {k}, since' = [since EXCEPT ![k] = Unused]
        PROVE  Recent'
    <3>1. PICK F \in Seq(Stored) : F = Without(Entries, i)
      BY <1>5
    <3>2. /\ Ahead(since, F)
          /\ \A j \in 1 .. Len(F) : F[j].key \in Cached(cache) /\ F[j].key # k
      BY <1>5, <2>2, <3>1
    <3>3. Entries' = F
      BY <2>2, <3>1, HoldsEntriesNext
    <3>4. /\ since' = [j \in Keys |-> since'[j]] /\ since'[k] = Unused
          /\ \A j \in Keys : j # k => since'[j] = since[j]
      BY <1>1, <2>2 DEF Tracked
    <3>5. Tracked(since)'
      BY <1>1, <3>4 DEF Tracked
    <3>6. Ahead(since, Entries)'
      <4>1. \A j \in 1 .. Len(F) : since'[F[j].key] = since[F[j].key]
        BY <3>2, <3>4 DEF Cached
      <4> QED BY <3>2, <3>3, <4>1 DEF Ahead
    <3>7. NoEarlyEviction'
      BY <1>1, <1>3, <2>2, <3>4 DEF NoEarlyEviction
    <3> QED BY <3>5, <3>6, <3>7 DEF Recent
  <2>3. ASSUME NEW i \in 1 .. n, Entries[i].key = k,
               Holds(cache', Fronted(Entries[i], Without(Entries, i))),
               Cached(cache') = Cached(cache), Use(k)
        PROVE  Recent'
    <3>1. PICK F \in Seq(Stored) : F = Without(Entries, i)
      BY <1>5
    <3>2. Ahead(since, F) /\ \A j \in 1 .. Len(F) : F[j].key # k
      BY <1>5, <2>3, <3>1
    <3>3. k \in Cached(cache') /\ Entries[i] \in Stored
      BY <1>2, <2>3
    <3> QED BY <1>4, <2>3, <3>1, <3>2, <3>3
  <2> QED BY <1>7, <2>1, <2>2, <2>3, GetEffect
<1>8. ASSUME NEW k \in Keys, NEW v \in Values, Set(k, v) PROVE Recent'
  <2>1. Use(k)
    BY <1>8 DEF Set
  <2>2. PICK e \in Stored :
          /\ e.key = k
          /\ \/ \E i \in 1 .. n : /\ Entries[i].key = k
                                  /\ Holds(cache', Fronted(e, Without(Entries, i)))
                                  /\ Cached(cache') = Cached(cache)
             \/ /\ k \notin Cached(cache) /\ n = capacity /\ n \in 1 .. n
                /\ Holds(cache', Fronted(e, Without(Entries, n)))
                /\ Cached(cache') = (Cached(cache) \ {Entries[n].key}) \cup {k}
             \/ /\ k \notin Cached(cache) /\ n < capacity
                /\ Holds(cache', Fronted(e, Entries))
                /\ Cached(cache') = Cached(cache) \cup {k}
    BY <1>8, SetEffect
  <2>3. ASSUME NEW i \in 1 .. n, Entries[i].key = k,
               Holds(cache', Fronted(e, Without(Entries, i))), Cached(cache') = Cached(cache)
        PROVE  Recent'
    <3>1. PICK F \in Seq(Stored) : F = Without(Entries, i)
      BY <1>5
    <3>2. Ahead(since, F) /\ \A j \in 1 .. Len(F) : F[j].key # k
      BY <1>5, <2>3, <3>1
    <3>3. k \in Cached(cache')
      BY <1>2, <2>3
    <3> QED BY <1>4, <2>1, <2>2, <2>3, <3>1, <3>2, <3>3
  <2>4. CASE /\ k \notin Cached(cache) /\ n = capacity /\ n \in 1 .. n
             /\ Holds(cache', Fronted(e, Without(Entries, n)))
             /\ Cached(cache') = (Cached(cache) \ {Entries[n].key}) \cup {k}
    <3>1. PICK F \in Seq(Stored) : F = Without(Entries, n)
      BY <1>5, <2>4
    <3>2. Ahead(since, F) /\ \A j \in 1 .. Len(F) : F[j].key # k
      BY <1>5, <2>4, <3>1
    <3>3. k \in Cached(cache')
      BY <2>4
    <3>4. Cardinality(Cached(cache')) = capacity
      <4>1. Cardinality(Cached(cache')) = Len(Fronted(e, F))
        BY <2>4, <3>1, HoldsFacts
      <4>2. Len(Fronted(e, F)) = Len(F) + 1
        BY FrontedFacts
      <4>3. Len(F) = n - 1
        BY <1>2, <2>4, <3>1, WithoutFacts
      <4>4. (n - 1) + 1 = capacity
        BY <1>2, <2>4
      <4> QED BY <4>1, <4>2, <4>3, <4>4
    <3>5. ASSUME NEW z \in Cached(cache) \ Cached(cache'), since'[z] # Unused
          PROVE  Cardinality(since'[z]) >= capacity
      <4>1. z = Entries[n].key /\ z \in Keys \ {k}
        BY <2>4, <3>5 DEF Cached
      <4>2. Used(k, since, since')
        BY <1>1, <2>1, UseFacts
      <4>3. since[z] # Unused /\ since'[z] = since[z] \cup {k}
        BY <3>5, <4>1, <4>2 DEF Used
      <4>4. ASSUME NEW y \in Cached(cache) \ {z} PROVE y \in since[z]
        <5>1. PICK i \in 1 .. n : Entries[i].key = y
          BY <1>2
        <5>2. i < n
          BY <1>2, <4>1, <5>1
        <5> QED BY <1>1, <2>4, <4>1, <4>3, <5>1, <5>2 DEF Ahead
      <4>5. Cached(cache') \subseteq since'[z]
        BY <2>4, <4>1, <4>3, <4>4
      <4>6. IsFiniteSet(since'[z]) /\ Cardinality(since'[z]) \in Nat
        BY <1>1, <3>5, <4>1, <4>2, SeenGrows
      <4>7. Cardinality(Cached(cache')) <= Cardinality(since'[z])
        BY <4>5, <4>6, FS_Subset
      <4> QED BY <1>3, <3>4, <4>6, <4>7
    <3> QED BY <1>4, <2>1, <2>2, <2>4, <3>1, <3>2, <3>3, <3>5
  <2>5. CASE /\ k \notin Cached(cache) /\ n < capacity
             /\ Holds(cache', Fronted(e, Entries))
             /\ Cached(cache') = Cached(cache) \cup {k}
    <3>1. PICK F \in Seq(Stored) : F = Entries
      BY <1>2
    <3>2. Ahead(since, F) /\ \A j \in 1 .. Len(F) : F[j].key # k
      BY <1>1, <1>2, <2>5, <3>1
    <3> QED BY <1>4, <2>1, <2>2, <2>5, <3>1, <3>2
  <2> QED BY <2>2, <2>3, <2>4, <2>5
<1>9. CASE Clear
  <2>1. Holds(cache', <<>>) /\ since' = [k \in Keys |-> Unused]
    BY <1>9, ClearEffect DEF Clear
  <2>2. Entries' = <<>> /\ Len(<<>>) = 0
    BY <2>1, HoldsEntriesNext, LenProperties
  <2>3. \A k \in Keys : since'[k] = Unused
    BY <2>1
  <2>4. Tracked(since)' /\ NoEarlyEviction'
    BY <2>1, <2>3 DEF Tracked, NoEarlyEviction
  <2>5. Ahead(since, Entries)'
    BY <2>2 DEF Ahead
  <2> QED BY <2>4, <2>5 DEF Recent
<1>10. CASE Tick \/ UNCHANGED vars
  BY <1>6, <1>10 DEF Tick, vars
<1> QED BY <1>7, <1>8, <1>9, <1>10 DEF Next

LEMMA AlwaysRecent == Spec => []Recent
BY AlwaysSound, RecentInit, RecentNext, PTL DEF Spec

(* Least recently used (MoveToHead, MakeRoom): a key that was stored or    *)
(* hit, and has not expired or been cleared since, is gone only when as    *)
(* many other keys as the cache holds were used after it.                  *)
THEOREM EvictsLeastRecent == Spec => []NoEarlyEviction
<1>1. Recent => NoEarlyEviction
  BY DEF Recent
<1> QED BY <1>1, AlwaysRecent, PTL

(* What the cache maps to is complete: a key, a value and a time of expiry *)
(* in every node that the map holds, and an answer that is a value.        *)
THEOREM TypeCorrect == Spec => []TypeOK
<1>1. Sound /\ Recent => TypeOK
  <2> SUFFICES ASSUME Sound, Recent PROVE TypeOK
    OBVIOUS
  <2>1. PICK L : Rep(cache, L)
    BY DEF Sound, Holds
  <2>2. cache \in CacheType /\ Filed(cache)
    BY <2>1 DEF Rep
  <2>3. /\ cache.items \in [Keys -> Nodes \cup {Nil}]
        /\ cache.head \in Nodes \cup {Nil} /\ cache.tail \in Nodes \cup {Nil}
    BY <2>2, CacheFields DEF Ends
  <2>4. ASSUME NEW m \in Mapped(cache) PROVE cache.node[m] \in Node
    <3>1. PICK k \in Cached(cache) : m = cache.items[k] /\ m \in Nodes
      BY <2>2, <2>4, MappedFacts
    <3>2. PICK x \in AnyNode : x = cache.node[m]
      BY <2>2, <3>1, CacheFields
    <3>3. Load(x) \in Stored
      BY <2>2, <3>1, <3>2 DEF Filed
    <3>4. x \in Node
      BY <3>3 DEF AnyNode, Load, Stored, Node, Ends
    <3> QED BY <3>2, <3>4
  <2>5. \A k \in Keys : since[k] = Unused \/ since[k] \subseteq Keys \ {k}
    BY DEF Recent, Tracked
  <2> QED BY <2>3, <2>4, <2>5 DEF TypeOK, Sound
<1> QED BY <1>1, AlwaysSound, AlwaysRecent, PTL

(***************************************************************************)
(* The entries behave as those of the abstract cache.                      *)
(***************************************************************************)

(* What is left of the entries when there must be room for one.            *)
Fitting(E, cap) == SubSeq(E, 1, Min({cap - 1, Len(E)}))

LEMMA MinOf ==
  ASSUME NEW a \in Int, NEW b \in Int
  PROVE  Min({a, b}) = IF a <= b THEN a ELSE b
<1> DEFINE m == IF a <= b THEN a ELSE b
<1>1. \A x \in {a, b} : (\A y \in {a, b} : x <= y) <=> x = m
  OBVIOUS
<1>2. m \in {a, b}
  OBVIOUS
<1> HIDE DEF m
<1>3. Min({a, b}) = m
  BY <1>1, <1>2 DEF Min
<1> QED BY <1>3 DEF m

LEMMA FittingFacts ==
  ASSUME NEW S, NEW E \in Seq(S), NEW cap \in Nat, cap # 0, Len(E) <= cap
  PROVE  /\ Len(E) = cap => Fitting(E, cap) = Without(E, Len(E))
         /\ Len(E) # cap => Fitting(E, cap) = E
<1> DEFINE n == Len(E)
           m == IF cap - 1 <= n THEN cap - 1 ELSE n
           F == SubSeq(E, 1, m)
<1>1. n \in Nat /\ \A i \in 1 .. n : E[i] \in S
  BY LenProperties, ElementOfSeq
<1>2. Fitting(E, cap) = F
  <2>1. Min({cap - 1, n}) = m
    <3>1. cap - 1 \in Int /\ n \in Int
      BY <1>1
    <3> HIDE DEF n
    <3> QED BY <3>1, MinOf
  <2> QED BY <2>1 DEF Fitting
<1>3. m \in Nat /\ m <= n /\ m = (IF n = cap THEN n - 1 ELSE n)
  BY <1>1
<1> HIDE DEF m, n
<1>4. /\ F \in Seq(S) /\ Len(F) = m /\ \A j \in 1 .. m : F[j] = E[j]
  <2>1. 1 \in Int /\ m \in Int /\ \A j \in 1 .. m : E[j] \in S
    BY <1>1, <1>3
  <2>2. /\ F \in Seq(S) /\ Len(F) = IF 1 <= m THEN m - 1 + 1 ELSE 0
        /\ \A j \in 1 .. m - 1 + 1 : F[j] = E[1 + j - 1]
    BY <2>1, SubSeqProperties
  <2>3. m - 1 + 1 = m /\ (~(1 <= m) => m = 0) /\ \A j \in 1 .. m : 1 + j - 1 = j
    BY <1>3
  <2> HIDE DEF F
  <2> QED BY <2>2, <2>3
<1> HIDE DEF F
<1>5. ASSUME n # cap PROVE F = E
  <2>1. Len(F) = Len(E) /\ \A j \in 1 .. Len(F) : F[j] = E[j]
    BY <1>3, <1>4, <1>5 DEF n
  <2> QED BY <1>4, <2>1, SeqEqual
<1>6. ASSUME n = cap PROVE F = Without(E, n)
  <2>1. n \in 1 .. n
    BY <1>1, <1>6
  <2> DEFINE W == Without(E, n)
  <2>2. /\ W \in Seq(S) /\ Len(W) = n - 1
        /\ \A j \in 1 .. n - 1 : W[j] = IF j < n THEN E[j] ELSE E[j + 1]
    BY <2>1, WithoutFacts DEF n
  <2> HIDE DEF W
  <2>3. Len(F) = Len(W) /\ \A j \in 1 .. Len(F) : F[j] = W[j]
    <3>1. m = n - 1 /\ \A j \in 1 .. n - 1 : j < n
      BY <1>1, <1>3, <1>6
    <3> QED BY <1>4, <2>2, <3>1
  <2>4. F = W
    BY <1>4, <2>2, <2>3, SeqEqual
  <2> QED BY <2>4 DEF W
<1> QED BY <1>2, <1>5, <1>6 DEF n

LEMMA RefinesInit == Init => LRU!Init
<1> SUFFICES ASSUME Init PROVE LRU!Init
  OBVIOUS
<1>1. now = 0 /\ capacity \in Capacities /\ answer = Miss
  BY DEF Init
<1>2. PICK file \in SnapshotFiles : cache = ImportEntries(EmptyCache, file)
  BY DEF Init
<1>3. file \in Seq(Entry)
  <2>1. PICK n \in 0 .. Cardinality(Keys) : file \in [1 .. n -> Entry]
    BY <1>2 DEF SnapshotFiles
  <2>2. n \in Nat
    BY <2>1, NodesAndNil
  <2> QED BY <2>1, <2>2, SeqDef
<1>4. Ready(cache)
  BY <1>1, <1>2, <1>3, ImportedReady
<1>5. PICK E : /\ Holds(cache, E) /\ Len(E) <= capacity
               /\ \A i \in 1 .. Len(E) : E[i].expiresAt \in 1 .. TTL
  BY <1>4 DEF Ready
<1>6. Entries = E
  BY <1>5, HoldsEntries
<1>7. /\ DOMAIN E = 1 .. Len(E)
      /\ \A i \in 1 .. Len(E) : E[i] \in Stored
      /\ \A i, j \in 1 .. Len(E) : E[i].key = E[j].key => i = j
  BY <1>5, HoldsFacts, LenProperties
<1>8. ASSUME NEW i \in DOMAIN E
      PROVE  E[i] \in LRU!Entry /\ E[i].expiresAt > 0 /\ LRU!At(E[i].key) = {i}
  <2>1. E[i] \in LRU!Entry
    BY <1>5, <1>7, NumbersAssumption DEF LRU!Entry, Stored
  <2>2. E[i].expiresAt > 0
    BY <1>5, <1>7, NumbersAssumption
  <2>3. LRU!At(E[i].key) = {j \in DOMAIN E : E[j].key = E[i].key}
    BY <1>6 DEF LRU!At
  <2>4. LRU!At(E[i].key) = {i}
    BY <1>7, <2>3
  <2> QED BY <2>1, <2>2, <2>4
<1> QED BY <1>1, <1>5, <1>6, <1>8 DEF LRU!Init

LEMMA RefinesNext == Sound /\ [Next]_vars => [LRU!Next]_(LRU!vars)
<1> SUFFICES ASSUME Sound, [Next]_vars PROVE [LRU!Next]_(LRU!vars)
  OBVIOUS
<1>1. /\ Holds(cache, Entries) /\ Len(Entries) <= capacity /\ capacity \in Nat /\ capacity # 0
  BY NumbersAssumption DEF Sound
<1>2. /\ Entries \in Seq(Stored) /\ DOMAIN Entries = 1 .. Len(Entries)
      /\ \A i \in 1 .. Len(Entries) : Entries[i] \in Stored /\ Entries[i].key \in Cached(cache)
      /\ \A k \in Cached(cache) : \E i \in 1 .. Len(Entries) : Entries[i].key = k
  BY <1>1, HoldsFacts, LenProperties
<1>3. \A E : Holds(cache', E) => Entries' = E
  BY HoldsEntriesNext
<1>4. \A k, i : i \in LRU!At(k) <=> i \in 1 .. Len(Entries) /\ Entries[i].key = k
  BY <1>2 DEF LRU!At
<1>5. \A k \in Keys : k \notin Cached(cache) => LRU!At(k) = {}
  BY <1>2, <1>4
<1>6. ASSUME NEW i \in 1 .. Len(Entries)
      PROVE  /\ LRU!RemoveAt(Entries, i) = Without(Entries, i)
             /\ \A e \in Stored :
                   <<e>> \o LRU!RemoveAt(Entries, i) = Fronted(e, Without(Entries, i))
  <2>1. RemoveAt(Entries, i) = Without(Entries, i) /\ Without(Entries, i) \in Seq(Stored)
    BY <1>2, RemoveAtWithout, WithoutFacts
  <2>4. LRU!RemoveAt(Entries, i) = RemoveAt(Entries, i)
    BY DEF LRU!RemoveAt, RemoveAt
  <2>2. PICK W \in Seq(Stored) : W = Without(Entries, i)
    BY <2>1
  <2>3. \A e \in Stored : <<e>> \o W = Fronted(e, W)
    BY ConcatFronted
  <2> QED BY <2>1, <2>2, <2>3, <2>4
<1>7. ASSUME NEW k \in Keys, Get(k) PROVE LRU!Get(k) \/ UNCHANGED LRU!vars
  <2>1. UNCHANGED <<capacity, now>>
    BY <1>7 DEF Get
  <2>2. CASE k \notin Cached(cache) /\ answer' = Miss /\ UNCHANGED <<cache, since>>
    <3>1. Entries' = Entries
      BY <1>1, <1>3, <2>2
    <3> QED BY <1>5, <2>1, <2>2, <3>1 DEF LRU!Get
  <2>3. ASSUME NEW i \in 1 .. Len(Entries), Entries[i].key = k, now > Entries[i].expiresAt,
               Holds(cache', Without(Entries, i)), answer' = Miss
        PROVE  LRU!Get(k)
    <3>1. i \in LRU!At(k) /\ Entries' = LRU!RemoveAt(Entries, i)
      BY <1>3, <1>4, <1>6, <2>3
    <3>2. ~LRU!Alive(Entries[i])
      BY <1>2, <2>3, NumbersAssumption DEF LRU!Alive, Stored, Sound
    <3> QED BY <2>1, <2>3, <3>1, <3>2 DEF LRU!Get
  <2>4. ASSUME NEW i \in 1 .. Len(Entries), Entries[i].key = k, ~(now > Entries[i].expiresAt),
               Holds(cache', Fronted(Entries[i], Without(Entries, i))),
               answer' = Entries[i].val
        PROVE  LRU!Get(k)
    <3>1. i \in LRU!At(k) /\ Entries' = <<Entries[i]>> \o LRU!RemoveAt(Entries, i)
      BY <1>2, <1>3, <1>4, <1>6, <2>4
    <3>2. LRU!Alive(Entries[i])
      BY <1>2, <2>4, NumbersAssumption DEF LRU!Alive, Stored, Sound
    <3> QED BY <2>1, <2>4, <3>1, <3>2 DEF LRU!Get
  <2> QED BY <1>7, <2>2, <2>3, <2>4, GetEffect
<1>8. ASSUME NEW k \in Keys, NEW v \in Values, Set(k, v) PROVE LRU!Set(k, v)
  <2> DEFINE e == [key |-> k, val |-> v, expiresAt |-> now + TTL]
             n == Len(Entries)
  <2>1. UNCHANGED <<capacity, now, answer>>
    BY <1>8 DEF Set
  <2>2. /\ e \in Stored
        /\ \/ \E i \in 1 .. n : /\ Entries[i].key = k
                                /\ Holds(cache', Fronted(e, Without(Entries, i)))
           \/ /\ k \notin Cached(cache) /\ n = capacity /\ n \in 1 .. n
              /\ Holds(cache', Fronted(e, Without(Entries, n)))
           \/ /\ k \notin Cached(cache) /\ n < capacity
              /\ Holds(cache', Fronted(e, Entries))
    BY <1>8, SetEffect
  <2>3. SUFFICES \/ \E i \in LRU!At(k) : Entries' = <<e>> \o LRU!RemoveAt(Entries, i)
                 \/ LRU!At(k) = {} /\ Entries' = <<e>> \o Fitting(Entries, capacity)
    <3>1. Min({capacity - 1, n}) = LRU!Min({capacity - 1, n})
      BY DEF Min, LRU!Min
    <3>2. Fitting(Entries, capacity) = SubSeq(Entries, 1, LRU!Min({capacity - 1, n}))
      BY <3>1 DEF Fitting
    <3>3. CASE \E i \in LRU!At(k) : Entries' = <<e>> \o LRU!RemoveAt(Entries, i)
      BY <2>1, <3>3 DEF LRU!Set
    <3>4. CASE LRU!At(k) = {} /\ Entries' = <<e>> \o Fitting(Entries, capacity)
      BY <2>1, <3>2, <3>4 DEF LRU!Set
    <3> QED BY <2>3, <3>3, <3>4
  <2> HIDE DEF e
  <2>4. ASSUME NEW i \in 1 .. n, Entries[i].key = k,
               Holds(cache', Fronted(e, Without(Entries, i)))
        PROVE  \E j \in LRU!At(k) : Entries' = <<e>> \o LRU!RemoveAt(Entries, j)
    BY <1>3, <1>4, <1>6, <2>2, <2>4
  <2>5. PICK F : F = Fitting(Entries, capacity)
    OBVIOUS
  <2>6. ASSUME k \notin Cached(cache), F \in Seq(Stored), Holds(cache', Fronted(e, F))
        PROVE  LRU!At(k) = {} /\ Entries' = <<e>> \o Fitting(Entries, capacity)
    <3>1. <<e>> \o F = Fronted(e, F)
      BY <2>2, <2>6, ConcatFronted
    <3> QED BY <1>3, <1>5, <2>5, <2>6, <3>1
  <2>7. /\ n = capacity => F = Without(Entries, n)
        /\ n # capacity => F = Entries
    BY <1>1, <1>2, <2>5, FittingFacts
  <2>8. CASE /\ k \notin Cached(cache) /\ n = capacity /\ n \in 1 .. n
             /\ Holds(cache', Fronted(e, Without(Entries, n)))
    <3>1. Without(Entries, n) \in Seq(Stored)
      BY <1>2, <2>8, WithoutFacts
    <3> QED BY <2>6, <2>7, <2>8, <3>1
  <2>9. CASE /\ k \notin Cached(cache) /\ n < capacity
             /\ Holds(cache', Fronted(e, Entries))
    <3>1. n # capacity
      BY <1>1, <2>9
    <3> QED BY <1>2, <2>6, <2>7, <2>9, <3>1
  <2> QED BY <2>2, <2>4, <2>8, <2>9
<1>9. CASE Clear
  <2>1. Entries' = <<>>
    BY <1>3, <1>9, ClearEffect
  <2>2. LRU!Clear
    BY <1>9, <2>1 DEF LRU!Clear, Clear
  <2> QED BY <2>2 DEF LRU!Next
<1>10. CASE Tick
  <2>1. Entries' = Entries
    BY <1>1, <1>3, <1>10 DEF Tick
  <2>2. LRU!Tick
    BY <1>10, <2>1 DEF LRU!Tick, Tick
  <2> QED BY <2>2 DEF LRU!Next
<1>11. CASE UNCHANGED vars
  <2>1. Entries' = Entries
    BY <1>1, <1>3, <1>11 DEF vars
  <2> QED BY <1>11, <2>1 DEF LRU!vars, vars
<1>12. CASE \E k \in Keys : Get(k) \/ \E v \in Values : Set(k, v)
  BY <1>7, <1>8, <1>12 DEF LRU!Next
<1> QED BY <1>9, <1>10, <1>11, <1>12 DEF Next

(* Through the list the cache is the abstract one: the same entries in the *)
(* same order after every Get, Set, Clear and import, and the same answers.*)
THEOREM Implements == Spec => RefinesLRU
BY AlwaysSound, RefinesInit, RefinesNext, PTL DEF Spec, RefinesLRU, LRU!Spec
=============================================================================
